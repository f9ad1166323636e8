--------------------------- MODULE ItemHeapProofs ---------------------------
(***************************************************************************)
(* Proofs about ItemHeap, for every set of addresses and names and every   *)
(* choice of faults.  The links are proved sound together: none of the     *)
(* five parts of LinkInv is inductive without the others.  On top of them: *)
(* nothing that is allocated gets out of the program's reach, and the      *)
(* members of an object have names, both as long as names can be copied    *)
(* (the runs with Faults show how they fail when not).                     *)
(***************************************************************************)
EXTENDS ItemHeap, TLAPS

LinkInv == TypeOK /\ DoublyLinked /\ OwnedOnce /\ NoDangling /\ Acyclic

-----------------------------------------------------------------------------
(* Closed sets.                                                             *)

(* A chain holds its first item and is closed under `next'.                 *)
LEMMA ChainClosed ==
    ASSUME TypeOK, NEW x \in Item
    PROVE  x \in Chain(x) /\ NextClosed(Chain(x)) /\ Chain(x) \subseteq Item
  <1>1. x \in Chain(x) /\ Chain(x) \subseteq Item
    BY DEF Chain
  <1>2. ASSUME NEW y \in Chain(x), next[y] # NULL PROVE next[y] \in Chain(x)
    <2>1. y \in Item /\ next[y] \in Item
      BY <1>2 DEF Chain, TypeOK
    <2>2. ASSUME NEW T \in SUBSET Item, x \in T, NextClosed(T) PROVE next[y] \in T
      BY <1>2, <2>2 DEF Chain, NextClosed
    <2>3. QED BY <2>1, <2>2 DEF Chain
  <1>3. QED BY <1>1, <1>2 DEF NextClosed

(* A chain is inside every set that starts like it and is closed.           *)
LEMMA ChainLeast ==
    ASSUME NEW x \in Item, NEW T \in SUBSET Item, x \in T, NextClosed(T)
    PROVE  Chain(x) \subseteq T
  BY DEF Chain

(* The same two facts about what cJSON_Delete follows.                      *)
LEMMA ReachClosed ==
    ASSUME TypeOK, NEW x \in Item
    PROVE  x \in Reach(x) /\ OwnClosed(Reach(x)) /\ Reach(x) \subseteq Item
  <1>1. x \in Reach(x) /\ Reach(x) \subseteq Item
    BY DEF Reach
  <1>2. ASSUME NEW y \in Reach(x), next[y] # NULL PROVE next[y] \in Reach(x)
    <2>1. y \in Item /\ next[y] \in Item
      BY <1>2 DEF Reach, TypeOK
    <2>2. ASSUME NEW T \in SUBSET Item, x \in T, OwnClosed(T) PROVE next[y] \in T
      BY <1>2, <2>2 DEF Reach, OwnClosed, NextClosed
    <2>3. QED BY <2>1, <2>2 DEF Reach
  <1>3. ASSUME NEW y \in Reach(x) \ isReference, child[y] # NULL
        PROVE  child[y] \in Reach(x)
    <2>1. y \in Item /\ child[y] \in Item
      BY <1>3 DEF Reach, TypeOK
    <2>2. ASSUME NEW T \in SUBSET Item, x \in T, OwnClosed(T) PROVE child[y] \in T
      BY <1>3, <2>2 DEF Reach, OwnClosed
    <2>3. QED BY <2>1, <2>2 DEF Reach
  <1>4. QED BY <1>1, <1>2, <1>3 DEF OwnClosed, NextClosed

LEMMA ReachLeast ==
    ASSUME NEW x \in Item, NEW T \in SUBSET Item, x \in T, OwnClosed(T)
    PROVE  Reach(x) \subseteq T
  BY DEF Reach

(* Every item of a reach but the first is reached from another one.         *)
LEMMA ReachFrom ==
    ASSUME TypeOK, NEW x \in Item, NEW z \in Reach(x), z # x
    PROVE  \E w \in Reach(x) : next[w] = z \/ (w \notin isReference /\ child[w] = z)
  <1> DEFINE From(y) == \E w \in Reach(x) :
                           next[w] = y \/ (w \notin isReference /\ child[w] = y)
             T == {y \in Reach(x) : y = x \/ From(y)}
  <1>1. x \in T /\ T \in SUBSET Item
    BY ReachClosed
  <1>2. OwnClosed(T)
    BY ReachClosed DEF OwnClosed, NextClosed
  <1>3. z \in T
    BY <1>1, <1>2, ReachLeast
  <1>4. QED BY <1>3

-----------------------------------------------------------------------------
(* Elements and subtrees.                                                   *)

(* Everything a pointer of an allocated item leads to is allocated, so an   *)
(* element is, and an element other than the child entry has a sibling      *)
(* before it; the program holds none of them.                               *)
LEMMA KidFacts ==
    ASSUME LinkInv, NEW p \in live \ isReference, NEW x \in Kids(p)
    PROVE  /\ child[p] # NULL
           /\ x \in live
           /\ x = child[p] <=> prev[x] = NULL
           /\ x \notin roots
  <1> DEFINE T == {y \in live : y = child[p] \/ prev[y] # NULL}
  <1>1. child[p] # NULL /\ child[p] \in live /\ p \in Item
    BY DEF LinkInv, TypeOK, NoDangling, Kids
  <1>2. T \in SUBSET Item /\ child[p] \in T
    BY <1>1 DEF LinkInv, TypeOK
  <1>3. NextClosed(T)
    <2> SUFFICES ASSUME NEW y \in T, next[y] # NULL PROVE next[y] \in T
      BY DEF NextClosed
    <2>1. next[y] \in live
      BY DEF LinkInv, TypeOK, NoDangling
    <2>2. prev[next[y]] = y /\ y # NULL
      BY <2>1, NullIsNoItem DEF LinkInv, TypeOK, DoublyLinked
    <2>3. QED BY <2>1, <2>2
  <1>4. x \in T
    BY <1>1, <1>2, <1>3, ChainLeast DEF Kids
  <1>5. QED BY <1>1, <1>4 DEF LinkInv, DoublyLinked, OwnedOnce, TypeOK

(* A subtree is allocated and joined to the rest by its top only: nothing   *)
(* outside points to an item below the top, no item below it points         *)
(* outside, and none is held by the program.                                *)
LEMMA SubtreeIsolated ==
    ASSUME LinkInv, NEW x \in live
    PROVE  /\ x \in Subtree(x) /\ Subtree(x) \subseteq live
           /\ \A z \in Subtree(x) \ {x} :
                 /\ z \notin roots
                 /\ \A y \in live : next[y] = z => y \in Subtree(x)
                 /\ \A q \in live \ isReference : child[q] = z => q \in Subtree(x)
                 /\ next[z] # NULL => next[z] \in Subtree(x)
                 /\ z \notin isReference /\ child[z] # NULL => child[z] \in Subtree(x)
           /\ x \notin isReference /\ child[x] # NULL => child[x] \in Subtree(x)
           /\ next[x] \in Subtree(x) =>
                 /\ \A y \in live : next[y] = x => y \in Subtree(x)
                 /\ \A q \in live \ isReference : child[q] = x => q \in Subtree(x)
           /\ \A w \in Subtree(x) :
                 next[w] = x /\ next[x] # NULL => next[x] \in Subtree(x)
  <1> DEFINE S == Subtree(x)
  <1>1. CASE x \in isReference \/ child[x] = NULL
    <2>1. S = {x}
      BY <1>1 DEF Subtree
    <2>2. next[x] = x => prev[x] = x
      BY DEF LinkInv, TypeOK, DoublyLinked
    <2>3. QED BY <1>1, <2>1, <2>2, NullIsNoItem DEF LinkInv, TypeOK, DoublyLinked
  <1>2. CASE x \notin isReference /\ child[x] # NULL
    <2> DEFINE c == child[x]
               R == Reach(c)
    <2>1. S = {x} \cup R /\ c \in live /\ c \in Item
      BY <1>2 DEF Subtree, LinkInv, TypeOK, NoDangling
    <2>2. c \in R /\ OwnClosed(R) /\ R \subseteq Item
      BY <2>1, ReachClosed DEF LinkInv
    <2>3. R \subseteq live
      <3>1. OwnClosed(live)
        BY DEF OwnClosed, NextClosed, LinkInv, TypeOK, NoDangling
      <3>2. QED BY <2>1, <3>1, ReachLeast DEF LinkInv, TypeOK
    <2>4. prev[c] = NULL /\ c \notin roots
      BY <1>2 DEF LinkInv, DoublyLinked, OwnedOnce
    <2>5. ASSUME NEW z \in R
          PROVE  /\ z \notin roots
                 /\ \A y \in live : next[y] = z => y \in S
                 /\ \A q \in live \ isReference : child[q] = z => q \in S
      <3>1. CASE z = c
        BY <1>2, <2>1, <2>4, <3>1, NullIsNoItem DEF LinkInv, TypeOK, DoublyLinked, OwnedOnce
      <3>2. CASE z # c
        <4>1. PICK w \in R : next[w] = z \/ (w \notin isReference /\ child[w] = z)
          BY <2>1, <3>2, ReachFrom DEF LinkInv
        <4>2. w \in live /\ w \in Item /\ z \in Item /\ w # NULL /\ z # NULL /\ w \in S
          BY <2>1, <2>2, <2>3, NullIsNoItem
        <4>3. CASE next[w] = z
          <5>1. prev[z] = w
            BY <4>2, <4>3 DEF LinkInv, DoublyLinked
          <5>2. QED BY <4>2, <5>1 DEF LinkInv, TypeOK, DoublyLinked
        <4>4. CASE w \notin isReference /\ child[w] = z
          <5>1. prev[z] = NULL /\ z \notin roots
            BY <4>2, <4>4 DEF LinkInv, DoublyLinked, OwnedOnce
          <5>2. \A y \in live : next[y] # z
            BY <4>2, <5>1, NullIsNoItem DEF LinkInv, TypeOK, DoublyLinked
          <5>3. \A q \in live \ isReference : child[q] = z => q = w
            BY <4>2, <4>4 DEF LinkInv, OwnedOnce
          <5>4. QED BY <4>2, <5>1, <5>2, <5>3
        <4>5. QED BY <4>1, <4>3, <4>4
      <3>3. QED BY <3>1, <3>2
    <2>6. ASSUME next[x] \in S
          PROVE  /\ \A y \in live : next[y] = x => y \in S
                 /\ \A q \in live \ isReference : child[q] = x => q \in S
      <3>1. CASE next[x] = x
        BY <3>1, NullIsNoItem, <2>1 DEF LinkInv, TypeOK, DoublyLinked
      <3>2. CASE next[x] # x
        <4> DEFINE z == next[x]
        <4>1. z \in R /\ z \in Item /\ z # NULL /\ prev[z] = x /\ x # NULL /\ x \in Item
          BY <2>1, <2>2, <2>6, <3>2, NullIsNoItem DEF LinkInv, TypeOK, DoublyLinked
        <4>2. z # c
          BY <2>4, <4>1
        <4>3. PICK w \in R : next[w] = z \/ (w \notin isReference /\ child[w] = z)
          BY <2>1, <4>1, <4>2, ReachFrom DEF LinkInv
        <4>4. next[w] = z
          BY <2>3, <4>1, <4>3 DEF LinkInv, DoublyLinked
        <4>5. w = x
          BY <2>2, <4>1, <4>4 DEF LinkInv, DoublyLinked
        <4>6. QED BY <2>5, <4>3, <4>5
      <3>3. QED BY <3>1, <3>2
    <2>7. \A z \in R : /\ next[z] # NULL => next[z] \in S
                       /\ z \notin isReference /\ child[z] # NULL => child[z] \in S
      BY <2>1, <2>2 DEF OwnClosed, NextClosed
    <2>8. \A w \in S : next[w] = x /\ next[x] # NULL => next[x] \in S
      <3> SUFFICES ASSUME NEW w \in R, next[w] = x, next[x] # NULL PROVE next[x] \in R
        BY <2>1
      <3>1. x \in R
        BY <2>2, NullIsNoItem DEF OwnClosed, NextClosed, LinkInv, TypeOK
      <3>2. QED BY <2>2, <3>1 DEF OwnClosed, NextClosed
    <2>9. QED BY <1>2, <2>1, <2>2, <2>3, <2>5, <2>6, <2>7, <2>8
  <1>3. QED BY <1>1, <1>2

(* Every item of a subtree but the top is led to from inside.               *)
LEMMA SubtreeFrom ==
    ASSUME LinkInv, NEW x \in live, NEW z \in Subtree(x) \ {x}
    PROVE  \E y \in Subtree(x) : Leads(y, z)
  <1>1. /\ x \notin isReference /\ child[x] # NULL
        /\ Subtree(x) = {x} \cup Reach(child[x])
    BY DEF Subtree
  <1>2. child[x] \in Item
    BY <1>1 DEF LinkInv, TypeOK, NoDangling
  <1>3. CASE z = child[x]
    BY <1>1, <1>3 DEF Leads
  <1>4. CASE z # child[x]
    BY <1>1, <1>2, <1>4, ReachFrom DEF Leads, LinkInv
  <1>5. QED BY <1>3, <1>4

(* The top is not.                                                          *)
LEMMA TopAlone ==
    ASSUME LinkInv, NEW x \in live, NEW y \in Subtree(x)
    PROVE  ~Leads(y, x)
  <1> SUFFICES ASSUME Leads(y, x) PROVE FALSE
    OBVIOUS
  <1>1. Subtree(x) \in SUBSET live /\ x \in Subtree(x)
    BY SubtreeIsolated
  <1>2. \A z \in Subtree(x) : \E w \in Subtree(x) : Leads(w, z)
    BY SubtreeFrom
  <1>3. QED BY <1>1, <1>2 DEF LinkInv, Acyclic

(* An element does not contain the item it is an element of.                *)
LEMMA ParentOutside ==
    ASSUME LinkInv, NEW p \in live \ isReference, NEW x \in Kids(p)
    PROVE  p \notin Subtree(x)
  <1> SUFFICES ASSUME p \in Subtree(x) PROVE FALSE
    OBVIOUS
  <1> DEFINE S == Subtree(x)
             K == Kids(p)
             T == S \cup K
  <1>1. x \in live /\ S \subseteq live /\ K \subseteq live
    BY KidFacts, SubtreeIsolated
  <1>2. \A z \in K : \E y \in T : Leads(y, z)
    <2> DEFINE c == child[p]
               C == {z \in K : \E y \in T : Leads(y, z)}
    <2>1. c \in Item /\ K = Chain(c) /\ p \in Item
      BY KidFacts DEF LinkInv, TypeOK, NoDangling, Kids
    <2>2. c \in K /\ NextClosed(K) /\ K \subseteq Item
      BY <2>1, ChainClosed DEF LinkInv
    <2>3. Leads(p, c)
      BY DEF Leads
    <2>4. NextClosed(C)
      BY <2>2 DEF NextClosed, Leads
    <2>5. K \subseteq C
      BY <2>1, <2>2, <2>3, <2>4, ChainLeast
    <2>6. QED BY <2>5
  <1>3. \A z \in S \ {x} : \E y \in T : Leads(y, z)
    BY <1>1, SubtreeFrom
  <1>4. T \in SUBSET live /\ T # {} /\ \A z \in T : \E y \in T : Leads(y, z)
    BY <1>1, <1>2, <1>3
  <1>5. QED BY <1>4 DEF LinkInv, Acyclic

(* Nor does it contain a sibling next to it.                                *)
LEMMA SiblingsOutside ==
    ASSUME LinkInv, NEW p \in live \ isReference, NEW x \in Kids(p)
    PROVE  next[x] \notin Subtree(x) /\ prev[x] \notin Subtree(x)
  <1>1. x \in live /\ x \in Item /\ NULL \notin Item /\ live \subseteq Item
        /\ (x = child[p] <=> prev[x] = NULL) /\ Subtree(x) \subseteq live
        /\ p \notin Subtree(x)
    BY KidFacts, NullIsNoItem, SubtreeIsolated, ParentOutside DEF LinkInv, TypeOK
  <1>2. prev[x] # NULL => next[prev[x]] = x /\ prev[x] \in live
    BY <1>1 DEF LinkInv, TypeOK, DoublyLinked, NoDangling
  <1>3. prev[x] \notin Subtree(x)
    BY <1>1, <1>2, TopAlone DEF Leads
  <1>4. next[x] \notin Subtree(x)
    BY <1>1, <1>2, <1>3, SubtreeIsolated
  <1>5. QED BY <1>3, <1>4

(* The elements of an item outside a tree are outside it too.               *)
LEMMA KidsOutside ==
    ASSUME LinkInv, NEW a \in live \ isReference, NEW i \in roots, a \notin Subtree(i),
           NEW x \in Kids(a)
    PROVE  x \notin Subtree(i)
  <1> DEFINE c == child[a]
             T == Kids(a) \ Subtree(i)
  <1>1. i \in live /\ next[i] = NULL /\ prev[i] = NULL /\ c \in Item /\ c # i
    BY KidFacts DEF LinkInv, TypeOK, DoublyLinked, OwnedOnce, NoDangling
  <1>2. Kids(a) = Chain(c)
    BY KidFacts DEF Kids
  <1>3. c \in T
    BY <1>1, <1>2, SubtreeIsolated, ChainClosed DEF LinkInv
  <1>4. NextClosed(T)
    <2> SUFFICES ASSUME NEW y \in T, next[y] # NULL PROVE next[y] \in T
      BY DEF NextClosed
    <2>1. y \in live /\ y \in Item /\ next[y] \in Kids(a)
      BY <1>1, <1>2, ChainClosed, KidFacts DEF NextClosed, LinkInv
    <2>2. next[y] # i
      BY <1>1, <2>1, NullIsNoItem DEF LinkInv, TypeOK, DoublyLinked
    <2>3. QED BY <1>1, <2>1, <2>2, SubtreeIsolated
  <1>5. QED BY <1>1, <1>2, <1>3, <1>4, ChainLeast, ChainClosed DEF LinkInv

(* What the program holds leads nowhere but into its own tree.              *)
LEMMA TreeClosed ==
    ASSUME LinkInv, NEW i \in roots
    PROVE  \A y \in Subtree(i), z \in live : Leads(y, z) => z \in Subtree(i)
  <1>1. i \in live /\ next[i] = NULL /\ NULL \notin live
    BY NullIsNoItem DEF LinkInv, TypeOK, DoublyLinked
  <1>2. QED BY <1>1, SubtreeIsolated DEF Leads

(* One new edge, from outside a tree to its top, closes no cycle.           *)
LEMMA JoinAcyclic ==
    ASSUME LinkInv, NEW i \in roots, NEW a \in live \ Subtree(i), live' = live,
           \A y, z \in live : Leads(y, z)' => Leads(y, z) \/ (y = a /\ z = i)
    PROVE  Acyclic'
  <1> SUFFICES ASSUME NEW T \in SUBSET live, T # {}
               PROVE  \E z \in T : \A y \in T : ~Leads(y, z)'
    BY DEF Acyclic, Leads
  <1> DEFINE G == Subtree(i)
  <1>1. i \in G
    BY SubtreeIsolated DEF LinkInv, TypeOK
  <1>2. CASE a \in T
    <2>1. PICK z \in T \ G : \A y \in T \ G : ~Leads(y, z)
      BY <1>2 DEF LinkInv, Acyclic
    <2>2. \A y \in T : ~Leads(y, z)
      BY <2>1, TreeClosed
    <2>3. QED BY <1>1, <2>1, <2>2
  <1>3. CASE a \notin T
    <2>1. PICK z \in T : \A y \in T : ~Leads(y, z)
      BY DEF LinkInv, Acyclic
    <2>2. QED BY <1>3, <2>1
  <1>4. QED BY <1>2, <1>3

(* A new item that leads nowhere closes no cycle.                           *)
LEMMA LeafAcyclic ==
    ASSUME LinkInv, NEW x, live' \subseteq live \cup {x},
           \A y, z \in live : Leads(y, z)' => Leads(y, z),
           \A z \in live' : ~Leads(x, z)'
    PROVE  Acyclic'
  <1> SUFFICES ASSUME NEW T \in SUBSET live', T # {}
               PROVE  \E z \in T : \A y \in T : ~Leads(y, z)'
    BY DEF Acyclic, Leads
  <1>1. CASE T \ {x} = {}
    BY <1>1
  <1>2. CASE T \ {x} # {}
    <2>1. PICK z \in T \ {x} : \A y \in T \ {x} : ~Leads(y, z)
      BY <1>2 DEF LinkInv, Acyclic
    <2>2. QED BY <2>1
  <1>3. QED BY <1>1, <1>2

(* Nor does an edge from what leads to x to what x leads to.                *)
LEMMA BypassAcyclic ==
    ASSUME LinkInv, NEW x \in live, live' \subseteq live,
           \A y, z \in live' : Leads(y, z)' => Leads(y, z) \/ (Leads(y, x) /\ Leads(x, z))
    PROVE  Acyclic'
  <1> SUFFICES ASSUME NEW T \in SUBSET live', T # {}
               PROVE  \E z \in T : \A y \in T : ~Leads(y, z)'
    BY DEF Acyclic, Leads
  <1>1. PICK z \in T \cup {x} : \A y \in T \cup {x} : ~Leads(y, z)
    BY DEF LinkInv, Acyclic
  <1>2. CASE z \in T
    BY <1>1, <1>2
  <1>3. CASE z = x
    <2>1. PICK t \in T : \A y \in T : ~Leads(y, t)
      BY DEF LinkInv, Acyclic
    <2>2. QED BY <1>1, <1>3, <2>1
  <1>4. QED BY <1>2, <1>3

-----------------------------------------------------------------------------
(* What each change of the links does.                                      *)

(* Putting an item the program holds at the end of a list.                  *)
LEMMA AppendSound ==
    ASSUME LinkInv, NEW a \in live \ isReference, NEW i \in roots,
           a \notin Subtree(i),
           AppendItem(a, i), live' = live, roots' = roots \ {i},
           isReference' = isReference, isObject' = isObject, crashed' = crashed,
           string' \in [Item -> Name \cup {NULL}], stringIsConst' \subseteq live
    PROVE  LinkInv'
  <1>0. a \in Item /\ i \in Item /\ i \in live /\ prev[i] = NULL /\ next[i] = NULL
        /\ NULL \notin Item /\ a # i
    BY SubtreeIsolated, NullIsNoItem DEF LinkInv, TypeOK, DoublyLinked
  <1>1. CASE child[a] = NULL
    <2>1. child' = [child EXCEPT ![a] = i] /\ next' = next /\ prev' = prev
      BY <1>1 DEF AppendItem
    <2>2. TypeOK'
      BY <1>0, <2>1 DEF LinkInv, TypeOK
    <2>3. DoublyLinked'
      BY <1>0, <2>1 DEF LinkInv, TypeOK, DoublyLinked
    <2>4. OwnedOnce'
      BY <1>0, <2>1 DEF LinkInv, TypeOK, OwnedOnce
    <2>5. NoDangling'
      BY <1>0, <2>1 DEF LinkInv, TypeOK, NoDangling
    <2>6. \A y, z \in live : Leads(y, z)' => Leads(y, z) \/ (y = a /\ z = i)
      BY <1>0, <2>1 DEF Leads, LinkInv, TypeOK
    <2>7. Acyclic'
      BY <2>6, JoinAcyclic
    <2>8. QED BY <2>2, <2>3, <2>4, <2>5, <2>7 DEF LinkInv
  <1>2. CASE child[a] # NULL
    <2>1. PICK last \in Kids(a) :
             /\ next[last] = NULL
             /\ next' = [next EXCEPT ![last] = i]
             /\ prev' = [prev EXCEPT ![i] = last]
             /\ child' = child
      BY <1>2 DEF AppendItem
    <2>2. last \in live /\ last \in Item /\ last \notin roots
      BY KidFacts DEF LinkInv, TypeOK
    <2>3. TypeOK'
      BY <1>0, <2>1, <2>2 DEF LinkInv, TypeOK
    <2>4. \A x, y \in Item : next'[x] = y <=> prev'[y] = x
      BY <1>0, <2>1, <2>2 DEF LinkInv, TypeOK, DoublyLinked
    <2>5. \A p \in live \ isReference : child[p] # NULL => prev'[child[p]] = NULL
      BY <1>0, <2>1, <2>2 DEF LinkInv, TypeOK, DoublyLinked, OwnedOnce
    <2>6. \A r \in roots \ {i} : prev'[r] = NULL /\ next'[r] = NULL
      BY <1>0, <2>1, <2>2 DEF LinkInv, TypeOK, DoublyLinked
    <2>7. DoublyLinked'
      BY <2>1, <2>4, <2>5, <2>6 DEF DoublyLinked
    <2>8. OwnedOnce'
      BY <2>1 DEF LinkInv, OwnedOnce
    <2>9. NoDangling'
      BY <1>0, <2>1, <2>2 DEF LinkInv, TypeOK, NoDangling
    <2>10. \A y, z \in live : Leads(y, z)' => Leads(y, z) \/ (y = last /\ z = i)
      BY <1>0, <2>1, <2>2 DEF Leads, LinkInv, TypeOK
    <2>11. last \notin Subtree(i)
      BY KidsOutside
    <2>12. Acyclic'
      BY <2>2, <2>10, <2>11, JoinAcyclic
    <2>13. QED BY <2>3, <2>7, <2>8, <2>9, <2>12 DEF LinkInv
  <1>3. QED BY <1>1, <1>2

(* Putting a new item there, whose own list belongs to it only if it is     *)
(* empty.                                                                   *)
LEMMA AppendNewSound ==
    ASSUME LinkInv, NEW a \in live \ isReference, NEW x \in Item \ live,
           NEW v \in live \cup {NULL}, v # NULL => x \in isReference',
           \/ /\ child[a] = NULL
              /\ child' = [child EXCEPT ![x] = v, ![a] = x]
              /\ UNCHANGED <<next, prev>>
           \/ /\ child[a] # NULL
              /\ \E last \in Kids(a) :
                    /\ next[last] = NULL
                    /\ next' = [next EXCEPT ![last] = x]
                    /\ prev' = [prev EXCEPT ![x] = last]
                    /\ child' = [child EXCEPT ![x] = v]
           \/ /\ child' = [child EXCEPT ![x] = v]
              /\ UNCHANGED <<next, prev>>,
           live' = live \cup {x}, roots' = roots,
           isReference' \in {isReference, isReference \cup {x}},
           isObject' \subseteq live \cup {x}, crashed' = crashed,
           string' \in [Item -> Name \cup {NULL}], stringIsConst' \subseteq live \cup {x}
    PROVE  LinkInv'
  <1>0. /\ a \in Item /\ a # x /\ NULL \notin Item /\ live \subseteq Item
        /\ next[x] = NULL /\ prev[x] = NULL /\ child[x] = NULL
        /\ x \notin isReference /\ x \notin roots
        /\ \A y \in Item : next[y] # x /\ prev[y] # x /\ child[y] # x
    BY NullIsNoItem DEF LinkInv, TypeOK, NoDangling
  <1>1. CASE /\ child[a] = NULL
             /\ child' = [child EXCEPT ![x] = v, ![a] = x]
             /\ UNCHANGED <<next, prev>>
    <2>1. TypeOK'
      BY <1>0, <1>1 DEF LinkInv, TypeOK
    <2>2. DoublyLinked'
      BY <1>0, <1>1 DEF LinkInv, TypeOK, DoublyLinked
    <2>3. OwnedOnce'
      BY <1>0, <1>1 DEF LinkInv, TypeOK, OwnedOnce
    <2>4. NoDangling'
      BY <1>0, <1>1 DEF LinkInv, TypeOK, NoDangling
    <2>5. Acyclic'
      <3>1. \A y, z \in live : Leads(y, z)' => Leads(y, z)
        BY <1>0, <1>1 DEF Leads, LinkInv, TypeOK
      <3>2. \A z \in live' : ~Leads(x, z)'
        BY <1>0, <1>1 DEF Leads, LinkInv, TypeOK
      <3>3. QED BY <3>1, <3>2, LeafAcyclic
    <2>6. QED BY <2>1, <2>2, <2>3, <2>4, <2>5 DEF LinkInv
  <1>2. CASE child[a] # NULL /\ \E last \in Kids(a) :
                    /\ next[last] = NULL
                    /\ next' = [next EXCEPT ![last] = x]
                    /\ prev' = [prev EXCEPT ![x] = last]
                    /\ child' = [child EXCEPT ![x] = v]
    <2>1. PICK last \in Kids(a) :
             /\ next[last] = NULL
             /\ next' = [next EXCEPT ![last] = x]
             /\ prev' = [prev EXCEPT ![x] = last]
             /\ child' = [child EXCEPT ![x] = v]
      BY <1>2
    <2>2. last \in live /\ last \in Item /\ last \notin roots /\ last # x
      BY KidFacts DEF LinkInv, TypeOK
    <2>3. TypeOK'
      BY <1>0, <2>1, <2>2 DEF LinkInv, TypeOK
    <2>4. \A y, z \in Item : next'[y] = z <=> prev'[z] = y
      BY <1>0, <2>1, <2>2 DEF LinkInv, TypeOK, DoublyLinked
    <2>5. \A p \in live' \ isReference' : child'[p] # NULL => prev'[child'[p]] = NULL
      BY <1>0, <2>1, <2>2 DEF LinkInv, TypeOK, DoublyLinked
    <2>6. \A r \in roots : prev'[r] = NULL /\ next'[r] = NULL
      BY <1>0, <2>1, <2>2 DEF LinkInv, TypeOK, DoublyLinked
    <2>7. DoublyLinked'
      BY <2>4, <2>5, <2>6 DEF DoublyLinked
    <2>8. OwnedOnce'
      BY <1>0, <2>1 DEF LinkInv, TypeOK, OwnedOnce
    <2>9. NoDangling'
      BY <1>0, <2>1, <2>2 DEF LinkInv, TypeOK, NoDangling
    <2>10. Acyclic'
      <3>1. \A y, z \in live : Leads(y, z)' => Leads(y, z)
        BY <1>0, <2>1, <2>2 DEF Leads, LinkInv, TypeOK
      <3>2. \A z \in live' : ~Leads(x, z)'
        BY <1>0, <2>1, <2>2 DEF Leads, LinkInv, TypeOK
      <3>3. QED BY <3>1, <3>2, LeafAcyclic
    <2>11. QED BY <2>3, <2>7, <2>8, <2>9, <2>10 DEF LinkInv
  <1>3. CASE child' = [child EXCEPT ![x] = v] /\ UNCHANGED <<next, prev>>
    <2>1. TypeOK'
      BY <1>0, <1>3 DEF LinkInv, TypeOK
    <2>2. DoublyLinked'
      BY <1>0, <1>3 DEF LinkInv, TypeOK, DoublyLinked
    <2>3. OwnedOnce'
      BY <1>0, <1>3 DEF LinkInv, TypeOK, OwnedOnce
    <2>4. NoDangling'
      BY <1>0, <1>3 DEF LinkInv, TypeOK, NoDangling
    <2>5. Acyclic'
      <3>1. \A y, z \in live : Leads(y, z)' => Leads(y, z)
        BY <1>0, <1>3 DEF Leads, LinkInv, TypeOK
      <3>2. \A z \in live' : ~Leads(x, z)'
        BY <1>0, <1>3 DEF Leads, LinkInv, TypeOK
      <3>3. QED BY <3>1, <3>2, LeafAcyclic
    <2>6. QED BY <2>1, <2>2, <2>3, <2>4, <2>5 DEF LinkInv
  <1>4. QED BY <1>1, <1>2, <1>3

(* Taking an element out of its list: the rest of the list closes up, and   *)
(* nothing points to the element any more.                                  *)
LEMMA UnlinkFacts ==
    ASSUME LinkInv, NEW p \in live \ isReference, NEW x \in Kids(p)
    PROVE  LET n == NextWithout(x)
               r == PrevWithout(x)
               c == ChildWithout(p, x)
           IN  /\ n \in [Item -> Item \cup {NULL}]
               /\ r \in [Item -> Item \cup {NULL}]
               /\ c \in [Item -> Item \cup {NULL}]
               /\ \A y, z \in Item : n[y] = z <=> r[z] = y
               /\ n[x] = NULL /\ r[x] = NULL
               /\ \A y \in Item : n[y] # x /\ r[y] # x
               /\ \A q \in live \ isReference : c[q] # x
               /\ \A q \in live \ isReference : c[q] # NULL => r[c[q]] = NULL
               /\ \A q1, q2 \in live \ isReference :
                     c[q1] = c[q2] /\ c[q1] # NULL => q1 = q2
               /\ \A q \in live \ isReference : c[q] # NULL => c[q] \notin roots
  <1> DEFINE n == NextWithout(x)
             r == PrevWithout(x)
             c == ChildWithout(p, x)
  <1>0. /\ x \in live /\ x \in Item /\ p \in Item /\ x \notin roots /\ NULL \notin Item
        /\ x = child[p] <=> prev[x] = NULL
    BY KidFacts, NullIsNoItem DEF LinkInv, TypeOK
  <1>1. /\ n \in [Item -> Item \cup {NULL}]
        /\ r \in [Item -> Item \cup {NULL}]
        /\ c \in [Item -> Item \cup {NULL}]
    BY <1>0 DEF LinkInv, TypeOK, NextWithout, PrevWithout, ChildWithout
  <1>2. \A y, z \in Item : n[y] = z <=> r[z] = y
    BY <1>0 DEF LinkInv, TypeOK, DoublyLinked, NextWithout, PrevWithout
  <1>3. n[x] = NULL /\ r[x] = NULL
    BY <1>0 DEF NextWithout, PrevWithout
  <1>4. \A y \in Item : n[y] # x /\ r[y] # x
    <2> SUFFICES ASSUME NEW y \in Item PROVE n[y] # x /\ r[y] # x
      OBVIOUS
    <2>1. y # NULL /\ (n[y] = x <=> r[x] = y) /\ (n[x] = y <=> r[y] = x)
      BY <1>0, <1>2
    <2>2. QED BY <1>3, <2>1
  <1>5. \A q \in live \ isReference : child[q] = x => q = p
    BY <1>0, NullIsNoItem DEF LinkInv, TypeOK, DoublyLinked, OwnedOnce
  <1>6. child[p] = x => next[x] # x
    BY <1>0 DEF LinkInv, TypeOK, DoublyLinked
  <1>7. \A q \in live \ isReference : c[q] # x
    BY <1>0, <1>5, <1>6 DEF LinkInv, TypeOK, ChildWithout
  <1>8. \A q \in live \ isReference : c[q] # NULL => r[c[q]] = NULL
    <2> SUFFICES ASSUME NEW q \in live \ isReference, c[q] # NULL PROVE r[c[q]] = NULL
      OBVIOUS
    <2>1. CASE child[p] = x /\ q = p
      <3>1. c[q] = next[x] /\ next[x] \in Item
        BY <1>0, <2>1 DEF LinkInv, TypeOK, ChildWithout
      <3>2. r[next[x]] = prev[x]
        BY <1>0, <1>6, <2>1, <3>1 DEF PrevWithout
      <3>3. QED BY <1>0, <2>1, <3>1, <3>2
    <2>2. CASE ~(child[p] = x /\ q = p)
      <3>1. c[q] = child[q] /\ q \in Item /\ child[q] \in Item /\ child[q] # x
        BY <1>0, <1>5, <2>2 DEF LinkInv, TypeOK, ChildWithout
      <3>2. prev[child[q]] = NULL
        BY <3>1 DEF LinkInv, TypeOK, DoublyLinked
      <3>3. child[q] # next[x]
        BY <1>0, <3>1, <3>2 DEF LinkInv, TypeOK, DoublyLinked
      <3>4. QED BY <3>1, <3>2, <3>3 DEF PrevWithout
    <2>3. QED BY <2>1, <2>2
  <1>9. \A q1, q2 \in live \ isReference : c[q1] = c[q2] /\ c[q1] # NULL => q1 = q2
    <2>1. ASSUME NEW q \in live \ isReference, q # p, child[p] = x, child[q] # NULL
          PROVE  child[q] # next[x]
      <3>1. child[q] \in Item /\ prev[child[q]] = NULL
        BY <2>1 DEF LinkInv, TypeOK, DoublyLinked
      <3>2. QED BY <1>0, <3>1 DEF LinkInv, TypeOK, DoublyLinked
    <2>2. QED BY <1>0, <2>1 DEF LinkInv, TypeOK, OwnedOnce, ChildWithout
  <1>10. \A q \in live \ isReference : c[q] # NULL => c[q] \notin roots
    <2>1. next[x] \notin roots
      BY <1>0 DEF LinkInv, TypeOK, DoublyLinked
    <2>2. QED BY <1>0, <2>1 DEF LinkInv, TypeOK, OwnedOnce, ChildWithout
  <1>11. QED BY <1>1, <1>2, <1>3, <1>4, <1>7, <1>8, <1>9, <1>10

(* The rest leads where it led before, or past the element.                 *)
LEMMA UnlinkLeads ==
    ASSUME LinkInv, NEW p \in live \ isReference, NEW x \in Kids(p)
    PROVE  \A y, z \in live :
              NextWithout(x)[y] = z \/ (y \notin isReference /\ ChildWithout(p, x)[y] = z)
              => Leads(y, z) \/ (Leads(y, x) /\ Leads(x, z))
  <1>1. x \in live /\ NULL \notin Item /\ live \subseteq Item
    BY KidFacts, NullIsNoItem DEF LinkInv, TypeOK
  <1>2. QED BY <1>1 DEF Leads, NextWithout, ChildWithout, LinkInv, TypeOK, DoublyLinked

(* The links n, p and c are sound outside F and none of them leads into F.  *)
Apart(F, R, n, p, c) ==
    /\ \A y, z \in Item \ F : n[y] = z <=> p[z] = y
    /\ \A y \in live \ F : /\ n[y] \in (live \ F) \cup {NULL}
                            /\ p[y] \in (live \ F) \cup {NULL}
                            /\ c[y] \in (live \ F) \cup {NULL}
    /\ \A y \in Item \ live : n[y] = NULL /\ p[y] = NULL /\ c[y] = NULL
    /\ \A q \in (live \ isReference) \ F :
          c[q] # NULL => p[c[q]] = NULL /\ c[q] \notin R
    /\ \A q1, q2 \in (live \ isReference) \ F :
          c[q1] = c[q2] /\ c[q1] # NULL => q1 = q2
    /\ \A r \in R : p[r] = NULL /\ n[r] = NULL

(* Freeing a set of items that nothing left over points into.               *)
LEMMA FreeSound ==
    ASSUME LinkInv, NEW F \in SUBSET live, NEW R \in SUBSET (live \ F),
           NEW n \in [Item -> Item \cup {NULL}],
           NEW p \in [Item -> Item \cup {NULL}],
           NEW c \in [Item -> Item \cup {NULL}],
           NEW s \in [Item -> Name \cup {NULL}],
           Apart(F, R, n, p, c),
           Free(F, n, p, c, s), roots' = R,
           stringIsConst' \subseteq live \ F, crashed' \in BOOLEAN
    PROVE  TypeOK' /\ DoublyLinked' /\ OwnedOnce' /\ NoDangling'
  <1> USE DEF Apart
  <1>0. NULL \notin Item /\ live \subseteq Item /\ F \subseteq Item
    BY NullIsNoItem DEF LinkInv, TypeOK
  <1>1. TypeOK'
    BY <1>0 DEF LinkInv, TypeOK, Free
  <1>2. \A y, z \in Item : next'[y] = z <=> prev'[z] = y
    <2> SUFFICES ASSUME NEW y \in Item, NEW z \in Item PROVE next'[y] = z <=> prev'[z] = y
      OBVIOUS
    <2>1. CASE y \in F \/ z \in F
      <3>1. next'[y] # z
        BY <1>0, <2>1 DEF Free
      <3>2. prev'[z] # y
        BY <1>0, <2>1 DEF Free
      <3>3. QED BY <3>1, <3>2
    <2>2. CASE y \notin F /\ z \notin F
      BY <2>2 DEF Free
    <2>3. QED BY <2>1, <2>2
  <1>3. \A q \in live' \ isReference' :
           child'[q] # NULL => prev'[child'[q]] = NULL /\ child'[q] \notin R
    BY <1>0 DEF Free
  <1>4. \A q1, q2 \in live' \ isReference' :
           child'[q1] = child'[q2] /\ child'[q1] # NULL => q1 = q2
    BY <1>0 DEF Free
  <1>5. \A r \in R : prev'[r] = NULL /\ next'[r] = NULL
    BY <1>0 DEF Free
  <1>6. NoDangling'
    BY <1>0 DEF NoDangling, Free
  <1>7. QED BY <1>1, <1>2, <1>3, <1>4, <1>5, <1>6 DEF DoublyLinked, OwnedOnce

-----------------------------------------------------------------------------
(* Each action keeps the links sound.                                       *)

LEMMA DetachItemSound ==
    ASSUME LinkInv, NEW p \in Item, NEW x \in Item, DetachItem(p, x)
    PROVE  LinkInv'
  <1>0. /\ p \in live \ isReference /\ x \in Kids(p) /\ x \in live
        /\ NULL \notin Item /\ live \subseteq Item
    BY KidFacts, NullIsNoItem DEF DetachItem, LinkInv, TypeOK
  <1>1. TypeOK'
    BY <1>0, UnlinkFacts DEF DetachItem, LinkInv, TypeOK, names
  <1>2. DoublyLinked'
    <2>1. \A r \in roots \cup {x} : prev'[r] = NULL /\ next'[r] = NULL
      <3>1. \A r \in roots : next[r] = NULL /\ prev[r] = NULL /\ r \in Item
        BY <1>0 DEF LinkInv, TypeOK, DoublyLinked
      <3>2. \A r \in roots : r # prev[x] /\ r # next[x]
        BY <1>0, <3>1 DEF LinkInv, TypeOK, DoublyLinked
      <3>3. QED BY <1>0, <3>1, <3>2 DEF DetachItem, NextWithout, PrevWithout
    <2>2. QED BY <1>0, <2>1, UnlinkFacts DEF DetachItem, DoublyLinked
  <1>3. OwnedOnce'
    BY <1>0, UnlinkFacts DEF DetachItem, OwnedOnce
  <1>4. NoDangling'
    BY <1>0 DEF DetachItem, LinkInv, TypeOK, NoDangling,
                NextWithout, PrevWithout, ChildWithout
  <1>5. Acyclic'
    <2>1. \A y, z \in live : Leads(y, z)' => Leads(y, z) \/ (Leads(y, x) /\ Leads(x, z))
      BY <1>0, UnlinkLeads DEF DetachItem, Leads
    <2>2. QED BY <1>0, <2>1, BypassAcyclic DEF DetachItem
  <1>6. QED BY <1>1, <1>2, <1>3, <1>4, <1>5 DEF LinkInv

LEMMA DeleteItemSound ==
    ASSUME LinkInv, NEW p \in Item, NEW x \in Item, DeleteItem(p, x)
    PROVE  LinkInv'
  <1> DEFINE F == Subtree(x)
             n == NextWithout(x)
             r == PrevWithout(x)
             c == ChildWithout(p, x)
  <1>0. /\ p \in live \ isReference /\ x \in Kids(p) /\ x \in live /\ x \notin roots
        /\ NULL \notin Item /\ live \subseteq Item /\ MayFree(F)
        /\ x = child[p] <=> prev[x] = NULL
    BY KidFacts, NullIsNoItem DEF DeleteItem, LinkInv, TypeOK
  <1>1. F \in SUBSET live /\ x \in F
    BY <1>0, SubtreeIsolated
  <1>2. roots \in SUBSET (live \ F)
    BY <1>0, SubtreeIsolated DEF LinkInv, TypeOK
  <1>3. ASSUME NEW y \in live \ F PROVE n[y] \in (live \ F) \cup {NULL}
    <2>1. CASE y = prev[x]
      <3>1. n[y] = next[x] /\ next[y] = x
        BY <1>0, <1>1, <1>3, <2>1 DEF NextWithout, LinkInv, TypeOK, DoublyLinked
      <3>2. next[x] \notin F
        BY <1>0, <1>3, <3>1, SubtreeIsolated
      <3>3. QED BY <1>0, <3>1, <3>2 DEF LinkInv, TypeOK, NoDangling
    <2>2. CASE y # prev[x]
      <3>1. n[y] = next[y] /\ next[y] # x
        BY <1>0, <1>1, <1>3, <2>2 DEF NextWithout, LinkInv, TypeOK, DoublyLinked
      <3>2. next[y] \notin F
        BY <1>0, <1>3, <3>1, SubtreeIsolated
      <3>3. QED BY <1>0, <3>1, <3>2 DEF LinkInv, TypeOK, NoDangling
    <2>3. QED BY <2>1, <2>2
  <1>4. ASSUME NEW y \in live \ F PROVE r[y] \in (live \ F) \cup {NULL}
    <2>1. CASE y = next[x]
      <3>1. r[y] = prev[x]
        BY <1>0, <1>1, <2>1 DEF PrevWithout
      <3>2. prev[x] # NULL => next[prev[x]] = x
        BY <1>0 DEF LinkInv, TypeOK, DoublyLinked
      <3>3. prev[x] # NULL => prev[x] \notin F
        BY <1>0, <2>1, <3>2, SubtreeIsolated
      <3>4. QED BY <1>0, <3>1, <3>3 DEF LinkInv, TypeOK, NoDangling
    <2>2. CASE y # next[x]
      <3>1. r[y] = prev[y] /\ prev[y] # x
        BY <1>0, <1>1, <2>2 DEF PrevWithout, LinkInv, TypeOK, DoublyLinked
      <3>2. ASSUME prev[y] \in F PROVE FALSE
        <4>1. next[prev[y]] = y
          BY <1>0, <1>1, <3>2 DEF LinkInv, TypeOK, DoublyLinked
        <4>2. QED BY <1>0, <3>1, <3>2, <4>1, SubtreeIsolated
      <3>3. QED BY <1>0, <3>1, <3>2 DEF LinkInv, TypeOK, NoDangling
    <2>3. QED BY <2>1, <2>2
  <1>5. ASSUME NEW y \in live \ F PROVE c[y] \in (live \ F) \cup {NULL}
    <2>1. CASE y \in isReference
      <3>1. c[y] = child[y]
        BY <1>0, <2>1 DEF ChildWithout, LinkInv, TypeOK
      <3>2. QED BY <1>0, <2>1, <3>1 DEF MayFree, LinkInv, TypeOK, NoDangling
    <2>2. CASE y \notin isReference /\ child[y] # x
      <3>1. c[y] = child[y]
        BY <1>0, <2>2 DEF ChildWithout, LinkInv, TypeOK
      <3>2. child[y] \notin F
        BY <1>0, <2>2, SubtreeIsolated
      <3>3. QED BY <1>0, <3>1, <3>2 DEF LinkInv, TypeOK, NoDangling
    <2>3. CASE y \notin isReference /\ child[y] = x
      <3>1. y = p
        BY <1>0, <2>3 DEF LinkInv, TypeOK, OwnedOnce, DoublyLinked
      <3>2. c[y] = next[x]
        BY <1>0, <2>3, <3>1 DEF ChildWithout, LinkInv, TypeOK
      <3>3. next[x] \notin F
        BY <1>0, <2>3, SubtreeIsolated
      <3>4. QED BY <1>0, <3>2, <3>3 DEF LinkInv, TypeOK, NoDangling
    <2>4. QED BY <2>1, <2>2, <2>3
  <1>6. \A y \in Item \ live : n[y] = NULL /\ r[y] = NULL /\ c[y] = NULL
    <2> SUFFICES ASSUME NEW y \in Item \ live
                 PROVE  n[y] = NULL /\ r[y] = NULL /\ c[y] = NULL
      OBVIOUS
    <2>1. next[y] = NULL /\ prev[y] = NULL /\ child[y] = NULL
      BY DEF LinkInv, NoDangling
    <2>2. y # x /\ y # p /\ y # next[x] /\ y # prev[x]
      BY <1>0 DEF LinkInv, TypeOK, NoDangling
    <2>3. QED BY <1>0, <2>1, <2>2
              DEF LinkInv, TypeOK, NextWithout, PrevWithout, ChildWithout
  <1>7. \A z \in roots : r[z] = NULL /\ n[z] = NULL
    <2>1. \A z \in roots : next[z] = NULL /\ prev[z] = NULL /\ z \in Item
      BY <1>0 DEF LinkInv, TypeOK, DoublyLinked
    <2>2. \A z \in roots : z # prev[x] /\ z # next[x]
      BY <1>0, <2>1 DEF LinkInv, TypeOK, DoublyLinked
    <2>3. QED BY <1>0, <2>1, <2>2 DEF NextWithout, PrevWithout
  <1>8. /\ Free(F, n, r, c, string) /\ roots' = roots
        /\ stringIsConst' \subseteq live \ F /\ crashed' \in BOOLEAN
        /\ string \in [Item -> Name \cup {NULL}]
    BY DEF DeleteItem, LinkInv, TypeOK
  <1>9. /\ n \in [Item -> Item \cup {NULL}]
        /\ r \in [Item -> Item \cup {NULL}]
        /\ c \in [Item -> Item \cup {NULL}]
        /\ \A y, z \in Item : n[y] = z <=> r[z] = y
        /\ \A q \in live \ isReference : c[q] # NULL => r[c[q]] = NULL /\ c[q] \notin roots
        /\ \A q1, q2 \in live \ isReference :
              c[q1] = c[q2] /\ c[q1] # NULL => q1 = q2
    BY <1>0, UnlinkFacts
  <1> HIDE DEF n, r, c, F
  <1>10. Apart(F, roots, n, r, c)
    BY <1>3, <1>4, <1>5, <1>6, <1>7, <1>9 DEF Apart
  <1>11. TypeOK' /\ DoublyLinked' /\ OwnedOnce' /\ NoDangling'
    BY <1>1, <1>2, <1>8, <1>9, <1>10, FreeSound
  <1>12. Acyclic'
    <2>1. live' = live \ F
      BY <1>8 DEF Free
    <2>2. \A y, z \in live \ F :
             Leads(y, z)' => Leads(y, z) \/ (Leads(y, x) /\ Leads(x, z))
      <3>1. ASSUME NEW y \in live \ F, NEW z \in live \ F, Leads(y, z)'
            PROVE  n[y] = z \/ (y \notin isReference /\ c[y] = z)
        BY <1>0, <1>8, <3>1 DEF Free, Leads
      <3>2. QED BY <1>0, <3>1, UnlinkLeads DEF n, c
    <2>3. QED BY <1>0, <1>1, <2>1, <2>2, BypassAcyclic
  <1>13. QED BY <1>11, <1>12 DEF LinkInv

LEMMA DeleteSound ==
    ASSUME LinkInv, NEW root \in Item, Delete(root)
    PROVE  LinkInv'
  <1> DEFINE F == Reach(root)
  <1>0. /\ root \in roots /\ root \in live /\ NULL \notin Item /\ live \subseteq Item
        /\ next[root] = NULL /\ prev[root] = NULL /\ MayFree(F)
    BY NullIsNoItem DEF Delete, LinkInv, TypeOK, DoublyLinked
  <1>1. F = Subtree(root)
    <2>1. root \in F /\ OwnClosed(F)
      BY <1>0, ReachClosed DEF LinkInv
    <2>2. Subtree(root) \subseteq F
      <3>1. CASE root \in isReference \/ child[root] = NULL
        BY <2>1, <3>1 DEF Subtree
      <3>2. CASE root \notin isReference /\ child[root] # NULL
        <4>1. child[root] \in F /\ child[root] \in Item /\ F \in SUBSET Item
          BY <1>0, <2>1, <3>2, ReachClosed DEF OwnClosed, LinkInv, TypeOK
        <4>2. Reach(child[root]) \subseteq F
          BY <2>1, <4>1, ReachLeast
        <4>3. QED BY <2>1, <4>2 DEF Subtree
      <3>3. QED BY <3>1, <3>2
    <2>3. OwnClosed(Subtree(root)) /\ root \in Subtree(root) /\ Subtree(root) \in SUBSET Item
      BY <1>0, SubtreeIsolated DEF OwnClosed, NextClosed
    <2>4. F \subseteq Subtree(root)
      BY <1>0, <2>3, ReachLeast
    <2>5. QED BY <2>2, <2>4
  <1>2. F \in SUBSET live /\ root \in F /\ roots \ F \in SUBSET (live \ F)
    BY <1>0, <1>1, SubtreeIsolated DEF LinkInv, TypeOK
  <1>3. ASSUME NEW y \in live \ F
        PROVE  /\ next[y] \in (live \ F) \cup {NULL}
               /\ prev[y] \in (live \ F) \cup {NULL}
               /\ child[y] \in (live \ F) \cup {NULL}
    <2>1. next[y] # root /\ prev[y] # root /\ (y \notin isReference => child[y] # root)
      BY <1>0 DEF LinkInv, TypeOK, DoublyLinked, OwnedOnce
    <2>2. next[y] \notin F
      BY <1>0, <1>1, <2>1, SubtreeIsolated
    <2>3. prev[y] \notin F
      <3>1. prev[y] \in F => next[prev[y]] = y
        BY <1>0, <1>2 DEF LinkInv, TypeOK, DoublyLinked
      <3>2. QED BY <1>0, <1>1, <2>1, <3>1, SubtreeIsolated
    <2>4. child[y] \notin F
      <3>1. CASE y \in isReference
        BY <1>0, <3>1 DEF MayFree
      <3>2. CASE y \notin isReference
        BY <1>0, <1>1, <2>1, <3>2, SubtreeIsolated
      <3>3. QED BY <3>1, <3>2
    <2>5. QED BY <1>0, <2>2, <2>3, <2>4 DEF LinkInv, TypeOK, NoDangling
  <1>4. \A y \in Item \ live : next[y] = NULL /\ prev[y] = NULL /\ child[y] = NULL
    BY DEF LinkInv, NoDangling
  <1>5. Apart(F, roots \ F, next, prev, child)
    <2>1. \A r \in roots \ F : prev[r] = NULL /\ next[r] = NULL
      BY DEF LinkInv, DoublyLinked
    <2>2. \A q \in (live \ isReference) \ F :
             child[q] # NULL => prev[child[q]] = NULL /\ child[q] \notin roots \ F
      BY DEF LinkInv, DoublyLinked, OwnedOnce
    <2>3. \A q1, q2 \in (live \ isReference) \ F :
             child[q1] = child[q2] /\ child[q1] # NULL => q1 = q2
      BY DEF LinkInv, OwnedOnce
    <2>4. \A y, z \in Item \ F : next[y] = z <=> prev[z] = y
      BY DEF LinkInv, DoublyLinked
    <2>5. QED BY <1>3, <1>4, <2>1, <2>2, <2>3, <2>4 DEF Apart
  <1>6. /\ Free(F, next, prev, child, string) /\ roots' = roots \ F
        /\ stringIsConst' \subseteq live \ F /\ crashed' \in BOOLEAN
        /\ string \in [Item -> Name \cup {NULL}]
        /\ next \in [Item -> Item \cup {NULL}]
        /\ prev \in [Item -> Item \cup {NULL}]
        /\ child \in [Item -> Item \cup {NULL}]
    BY DEF Delete, LinkInv, TypeOK
  <1>7. TypeOK' /\ DoublyLinked' /\ OwnedOnce' /\ NoDangling'
    <2> HIDE DEF F
    <2>1. QED BY <1>2, <1>5, <1>6, FreeSound
  <1>8. Acyclic'
    <2>1. live' \subseteq live
      BY <1>6 DEF Free
    <2>2. \A y, z \in live' : Leads(y, z)' => Leads(y, z)
      BY <1>0, <1>2, <1>6 DEF Free, Leads
    <2>3. QED BY <1>0, <2>1, <2>2, BypassAcyclic
  <1>9. QED BY <1>7, <1>8 DEF LinkInv

(* The new item goes between the element and what came before it.           *)
LEMMA InsertSound ==
    ASSUME LinkInv, NEW a \in live \ isReference, NEW i \in roots, a \notin Subtree(i),
           NEW b \in Kids(a),
           next' = [x \in Item |-> IF x = i THEN b
                                   ELSE IF x = prev[b] THEN i ELSE next[x]],
           prev' = [prev EXCEPT ![i] = prev[b], ![b] = i],
           child' = IF b = child[a] THEN [child EXCEPT ![a] = i] ELSE child,
           roots' = roots \ {i},
           UNCHANGED <<live, names, isReference, isObject, crashed>>
    PROVE  LinkInv'
  <1>0. /\ NULL \notin Item /\ live \subseteq Item /\ a \in Item
        /\ i \in live /\ i \in Item /\ next[i] = NULL /\ prev[i] = NULL /\ a # i
        /\ b \in live /\ b \in Item /\ b \notin roots /\ b # i
        /\ b = child[a] <=> prev[b] = NULL
    BY KidFacts, SubtreeIsolated, NullIsNoItem DEF LinkInv, TypeOK, DoublyLinked
  <1>1. TypeOK'
    BY <1>0 DEF LinkInv, TypeOK, names
  <1>2. DoublyLinked'
    <2>1. \A y, z \in Item : next'[y] = z <=> prev'[z] = y
      BY <1>0 DEF LinkInv, TypeOK, DoublyLinked
    <2>2. \A p \in live \ isReference : child'[p] # NULL => prev'[child'[p]] = NULL
      BY <1>0 DEF LinkInv, TypeOK, DoublyLinked, OwnedOnce
    <2>3. \A r \in roots \ {i} : prev'[r] = NULL /\ next'[r] = NULL
      BY <1>0 DEF LinkInv, TypeOK, DoublyLinked
    <2>4. QED BY <2>1, <2>2, <2>3 DEF DoublyLinked
  <1>3. OwnedOnce'
    BY <1>0 DEF LinkInv, TypeOK, OwnedOnce
  <1>4. NoDangling'
    BY <1>0 DEF LinkInv, TypeOK, NoDangling
  <1>5. Acyclic'
    <2> DEFINE G == Subtree(i)
    <2> SUFFICES ASSUME NEW T \in SUBSET live, T # {}
                 PROVE  \E z \in T : \A y \in T : ~Leads(y, z)'
      BY DEF Acyclic, Leads
    <2>1. \A y, z \in live : Leads(y, z)' =>
             \/ Leads(y, z) /\ z # i
             \/ y = i /\ z = b
             \/ z = i /\ Leads(y, b)
      BY <1>0 DEF Leads, LinkInv, TypeOK, DoublyLinked, OwnedOnce
    <2>2. i \in G /\ b \notin G
      BY <1>0, SubtreeIsolated, KidsOutside
    <2>3. \A y \in live : Leads(y, b) => y \notin G
      BY <1>0, <2>2, TreeClosed
    <2>4. CASE T \subseteq G
      <3>1. PICK z \in T : \A y \in T : ~Leads(y, z)
        BY DEF LinkInv, Acyclic
      <3>2. QED BY <2>1, <2>2, <2>3, <2>4, <3>1
    <2>5. CASE ~(T \subseteq G)
      <3>1. PICK z \in T \ G : \A y \in T \ G : ~Leads(y, z)
        BY <2>5 DEF LinkInv, Acyclic
      <3>2. \A y \in T : ~Leads(y, z)
        BY <3>1, TreeClosed
      <3>3. CASE z # b \/ i \notin T
        BY <2>1, <2>2, <3>1, <3>2, <3>3
      <3>4. CASE z = b /\ i \in T
        <4>1. \A y \in T : ~Leads(y, i)'
          BY <1>0, <2>1, <3>2, <3>4
        <4>2. QED BY <3>4, <4>1
      <3>5. QED BY <3>3, <3>4
    <2>6. QED BY <2>4, <2>5
  <1>6. QED BY <1>1, <1>2, <1>3, <1>4, <1>5 DEF LinkInv

(* The replacement takes the place of the element, and the element and all  *)
(* under it are freed.                                                      *)
LEMMA ExchangeSound ==
    ASSUME LinkInv, NEW p \in live \ isReference, NEW r \in roots, p \notin Subtree(r),
           NEW x \in Kids(p), MayFree(Subtree(x)),
           NEW s \in [Item -> Name \cup {NULL}], Exchange(p, x, r, s),
           stringIsConst' \subseteq live \ Subtree(x), crashed' \in BOOLEAN
    PROVE  LinkInv'
  <1> DEFINE F == Subtree(x)
             n == [y \in Item |-> IF y = r THEN next[x]
                                  ELSE IF y = prev[x] THEN r ELSE next[y]]
             q == [y \in Item |-> IF y = r THEN prev[x]
                                  ELSE IF y = next[x] THEN r ELSE prev[y]]
             c == IF child[p] = x THEN [child EXCEPT ![p] = r] ELSE child
  <1>0. /\ NULL \notin Item /\ live \subseteq Item /\ p \in Item
        /\ r \in live /\ r \in Item /\ next[r] = NULL /\ prev[r] = NULL /\ p # r
        /\ x \in live /\ x \in Item /\ x \notin roots /\ x # r
        /\ x = child[p] <=> prev[x] = NULL
    BY KidFacts, SubtreeIsolated, NullIsNoItem DEF LinkInv, TypeOK, DoublyLinked
  <1>1. /\ F \in SUBSET live /\ x \in F /\ r \notin F /\ p \notin F
        /\ next[x] \notin F /\ prev[x] \notin F
    BY <1>0, SubtreeIsolated, ParentOutside, SiblingsOutside
  <1>2. roots \ {r} \in SUBSET (live \ F)
    BY <1>0, SubtreeIsolated DEF LinkInv, TypeOK
  <1>3. /\ n \in [Item -> Item \cup {NULL}]
        /\ q \in [Item -> Item \cup {NULL}]
        /\ c \in [Item -> Item \cup {NULL}]
    BY <1>0 DEF LinkInv, TypeOK
  <1>4. \A y, z \in Item \ F : n[y] = z <=> q[z] = y
    BY <1>0, <1>1 DEF LinkInv, TypeOK, DoublyLinked
  <1>5. ASSUME NEW y \in live \ F PROVE n[y] \in (live \ F) \cup {NULL}
    <2>1. CASE y = r \/ y = prev[x]
      BY <1>0, <1>1, <2>1 DEF LinkInv, TypeOK, NoDangling
    <2>2. CASE y # r /\ y # prev[x]
      <3>1. n[y] = next[y] /\ next[y] # x
        BY <1>0, <2>2 DEF LinkInv, TypeOK, DoublyLinked
      <3>2. next[y] \notin F
        BY <1>0, <3>1, SubtreeIsolated
      <3>3. QED BY <1>0, <3>1, <3>2 DEF LinkInv, TypeOK, NoDangling
    <2>3. QED BY <2>1, <2>2
  <1>6. ASSUME NEW y \in live \ F PROVE q[y] \in (live \ F) \cup {NULL}
    <2>1. CASE y = r \/ y = next[x]
      BY <1>0, <1>1, <2>1 DEF LinkInv, TypeOK, NoDangling
    <2>2. CASE y # r /\ y # next[x]
      <3>1. q[y] = prev[y] /\ prev[y] # x
        BY <1>0, <2>2 DEF LinkInv, TypeOK, DoublyLinked
      <3>2. prev[y] \in F => next[prev[y]] = y
        BY <1>0, <1>1 DEF LinkInv, TypeOK, DoublyLinked
      <3>3. prev[y] \notin F
        BY <1>0, <3>1, <3>2, SubtreeIsolated
      <3>4. QED BY <1>0, <3>1, <3>3 DEF LinkInv, TypeOK, NoDangling
    <2>3. QED BY <2>1, <2>2
  <1>7. \A y \in live \ isReference : child[y] = x => y = p
    BY <1>0 DEF LinkInv, TypeOK, DoublyLinked, OwnedOnce
  <1>8. ASSUME NEW y \in live \ F PROVE c[y] \in (live \ F) \cup {NULL}
    <2>1. CASE y = p /\ child[p] = x
      BY <1>0, <1>1, <2>1 DEF LinkInv, TypeOK
    <2>2. CASE ~(y = p /\ child[p] = x)
      <3>1. c[y] = child[y]
        BY <1>0, <2>2 DEF LinkInv, TypeOK
      <3>2. CASE y \in isReference
        BY <1>0, <3>1, <3>2 DEF MayFree, LinkInv, TypeOK, NoDangling
      <3>3. CASE y \notin isReference
        <4>1. child[y] \notin F
          BY <1>0, <1>7, <2>2, <3>3, SubtreeIsolated
        <4>2. QED BY <1>0, <3>1, <4>1 DEF LinkInv, TypeOK, NoDangling
      <3>4. QED BY <3>2, <3>3
    <2>3. QED BY <2>1, <2>2
  <1>9. \A y \in Item \ live : n[y] = NULL /\ q[y] = NULL /\ c[y] = NULL
    <2> SUFFICES ASSUME NEW y \in Item \ live
                 PROVE  n[y] = NULL /\ q[y] = NULL /\ c[y] = NULL
      OBVIOUS
    <2>1. next[y] = NULL /\ prev[y] = NULL /\ child[y] = NULL
      BY DEF LinkInv, NoDangling
    <2>2. y # r /\ y # p /\ y # next[x] /\ y # prev[x]
      BY <1>0 DEF LinkInv, TypeOK, NoDangling
    <2>3. QED BY <1>0, <2>1, <2>2 DEF LinkInv, TypeOK
  <1>10. \A y \in (live \ isReference) \ F :
            c[y] # NULL => q[c[y]] = NULL /\ c[y] \notin roots \ {r}
    <2> SUFFICES ASSUME NEW y \in (live \ isReference) \ F, c[y] # NULL
                 PROVE  q[c[y]] = NULL /\ c[y] \notin roots \ {r}
      OBVIOUS
    <2>1. CASE y = p /\ child[p] = x
      BY <1>0, <2>1 DEF LinkInv, TypeOK
    <2>2. CASE ~(y = p /\ child[p] = x)
      <3>1. c[y] = child[y] /\ y \in Item
        BY <1>0, <2>2 DEF LinkInv, TypeOK
      <3>2. child[y] \in Item /\ child[y] \notin roots /\ prev[child[y]] = NULL
        BY <2>2, <3>1 DEF LinkInv, TypeOK, DoublyLinked, OwnedOnce
      <3>3. child[y] # r /\ child[y] # next[x]
        BY <1>0, <3>2 DEF LinkInv, TypeOK, DoublyLinked
      <3>4. QED BY <3>1, <3>2, <3>3
    <2>3. QED BY <2>1, <2>2
  <1>11. \A y1, y2 \in (live \ isReference) \ F :
            c[y1] = c[y2] /\ c[y1] # NULL => y1 = y2
    BY <1>0 DEF LinkInv, TypeOK, OwnedOnce
  <1>12. \A z \in roots \ {r} : q[z] = NULL /\ n[z] = NULL
    <2>1. \A z \in roots : next[z] = NULL /\ prev[z] = NULL /\ z \in Item
      BY <1>0 DEF LinkInv, TypeOK, DoublyLinked
    <2>2. \A z \in roots : z # prev[x] /\ z # next[x]
      BY <1>0, <2>1 DEF LinkInv, TypeOK, DoublyLinked
    <2>3. QED BY <1>0, <2>1, <2>2
  <1>13. Free(F, n, q, c, s) /\ roots' = roots \ {r}
    BY DEF Exchange
  <1>14. TypeOK' /\ DoublyLinked' /\ OwnedOnce' /\ NoDangling'
    <2> HIDE DEF F, n, q, c
    <2>1. Apart(F, roots \ {r}, n, q, c)
      BY <1>4, <1>5, <1>6, <1>8, <1>9, <1>10, <1>11, <1>12 DEF Apart
    <2>2. stringIsConst' \subseteq live \ F
      BY DEF F
    <2>3. QED BY <1>1, <1>2, <1>3, <1>13, <2>1, <2>2, FreeSound
  <1>15. Acyclic'
    <2> DEFINE G == Subtree(r)
    <2>1. live' = live \ F
      BY <1>13 DEF Free
    <2> SUFFICES ASSUME NEW T \in SUBSET (live \ F), T # {}
                 PROVE  \E z \in T : \A y \in T : ~Leads(y, z)'
      BY <2>1 DEF Acyclic, Leads
    <2>2. \A y, z \in live \ F : Leads(y, z)' =>
             \/ Leads(y, z) /\ z # r
             \/ y = r /\ Leads(x, z) /\ next[x] = z
             \/ z = r /\ Leads(y, x)
      <3> SUFFICES ASSUME NEW y \in live \ F, NEW z \in live \ F, Leads(y, z)'
                   PROVE  \/ Leads(y, z) /\ z # r
                          \/ y = r /\ Leads(x, z) /\ next[x] = z
                          \/ z = r /\ Leads(y, x)
        OBVIOUS
      <3>1. n[y] = z \/ (y \notin isReference /\ c[y] = z)
        <4> HIDE DEF n, q, c, F
        <4>1. QED BY <1>0, <1>13 DEF Free, Leads
      <3>2. \A w \in live : ~Leads(w, r)
        BY <1>0 DEF Leads, LinkInv, TypeOK, DoublyLinked, OwnedOnce
      <3>3. QED BY <1>0, <3>1, <3>2 DEF Leads, LinkInv, TypeOK, DoublyLinked
    <2>3. r \in G /\ x \notin G /\ next[x] \notin G
      <3>1. r \in G /\ x \notin G
        BY <1>0, SubtreeIsolated, KidsOutside
      <3>2. next[x] # r
        BY <1>0 DEF LinkInv, TypeOK, DoublyLinked
      <3>3. QED BY <1>0, <3>1, <3>2, SubtreeIsolated
    <2>4. \A y \in G : ~Leads(y, x)
      BY <1>0, <2>3, TreeClosed
    <2>5. CASE T \subseteq G
      <3>1. PICK z \in T : \A y \in T : ~Leads(y, z)
        BY DEF LinkInv, Acyclic
      <3>2. QED BY <2>2, <2>3, <2>4, <2>5, <3>1
    <2>6. CASE ~(T \subseteq G)
      <3> DEFINE U == (T \ G) \cup {x}
      <3>0. U \in SUBSET live /\ U # {}
        BY <1>0
      <3>1. PICK z \in U : \A y \in U : ~Leads(y, z)
        BY <3>0 DEF LinkInv, Acyclic
      <3>2. CASE z = x
        <4>1. \A y \in T : ~Leads(y, x)
          BY <2>4, <3>1, <3>2
        <4>2. CASE r \in T
          BY <2>2, <4>1, <4>2, <1>0, TreeClosed DEF Leads, LinkInv, TypeOK, DoublyLinked
        <4>3. CASE r \notin T
          <5>1. PICK t \in T : \A y \in T : ~Leads(y, t)
            BY DEF LinkInv, Acyclic
          <5>2. QED BY <2>2, <4>3, <5>1
        <4>4. QED BY <4>2, <4>3
      <3>3. CASE z # x
        <4>1. z \in T /\ z \notin G /\ ~Leads(x, z)
          BY <3>1, <3>3
        <4>2. \A y \in T : ~Leads(y, z)
          BY <3>1, <4>1, TreeClosed
        <4>3. QED BY <2>2, <2>3, <4>1, <4>2
      <3>4. QED BY <3>2, <3>3
    <2>7. QED BY <2>5, <2>6
  <1>16. QED BY <1>14, <1>15 DEF LinkInv

-----------------------------------------------------------------------------
(* The invariant.                                                           *)

LEMMA InitSound == Init => LinkInv
  BY NullIsNoItem DEF Init, LinkInv, TypeOK, DoublyLinked, OwnedOnce, NoDangling, Acyclic, Leads

(* What the names of a typed state stay when one is replaced.               *)
LEMMA RenamedTyped ==
    ASSUME LinkInv, NEW x \in Item, NEW name \in Name \cup {NULL}
    PROVE  Renamed(x, name) \in [Item -> Name \cup {NULL}]
  BY DEF LinkInv, TypeOK, Renamed

LEMMA CopyLiteralTyped == \A k \in Key : Copy(k) \in Name /\ Literal(k) \in Name
  BY DEF Copy, Literal, Name

LEMMA CreateSound ==
    ASSUME LinkInv, NEW x \in Item, NEW object \in BOOLEAN, Create(x, object)
    PROVE  LinkInv'
  <1>0. /\ x \notin live /\ NULL \notin Item
        /\ next[x] = NULL /\ prev[x] = NULL /\ child[x] = NULL
        /\ \A y \in Item : next[y] # x /\ prev[y] # x /\ child[y] # x
    BY NullIsNoItem DEF Create, LinkInv, TypeOK, NoDangling
  <1>1. TypeOK'
    BY <1>0 DEF Create, LinkInv, TypeOK, links, names
  <1>2. DoublyLinked'
    BY <1>0 DEF Create, LinkInv, TypeOK, DoublyLinked, links
  <1>3. OwnedOnce'
    BY <1>0 DEF Create, LinkInv, TypeOK, OwnedOnce, links
  <1>4. NoDangling'
    BY <1>0 DEF Create, LinkInv, TypeOK, NoDangling, links
  <1>5. Acyclic'
    <2>1. \A y, z \in live : Leads(y, z)' => Leads(y, z)
      BY DEF Create, Leads, links
    <2>2. \A z \in live' : ~Leads(x, z)'
      BY <1>0 DEF Create, Leads, links, LinkInv, TypeOK
    <2>3. QED BY <2>1, <2>2, LeafAcyclic DEF Create
  <1>6. QED BY <1>1, <1>2, <1>3, <1>4, <1>5 DEF LinkInv

LEMMA AddItemToArraySound ==
    ASSUME LinkInv, NEW a \in Item, NEW i \in Item, AddItemToArray(a, i)
    PROVE  LinkInv'
  <1>1. /\ a \in live \ isReference /\ i \in roots /\ a \notin Subtree(i) /\ AppendItem(a, i)
        /\ live' = live /\ roots' = roots \ {i} /\ isReference' = isReference
        /\ isObject' = isObject /\ crashed' = crashed
        /\ string' \in [Item -> Name \cup {NULL}] /\ stringIsConst' \subseteq live
    BY DEF AddItemToArray, MayAdd, LinkInv, TypeOK, names
  <1>2. QED BY <1>1, AppendSound

(* A step that leaves the links alone.                                      *)
LEMMA SameLinksSound ==
    ASSUME LinkInv, UNCHANGED <<live, links, isReference, isObject, roots>>,
           string' \in [Item -> Name \cup {NULL}], stringIsConst' \subseteq live,
           crashed' \in BOOLEAN
    PROVE  LinkInv'
  <1>1. TypeOK'
    BY DEF LinkInv, TypeOK, links
  <1>2. DoublyLinked' /\ OwnedOnce' /\ NoDangling'
    BY DEF LinkInv, DoublyLinked, OwnedOnce, NoDangling, links
  <1>3. Acyclic'
    BY DEF LinkInv, Acyclic, Leads, links
  <1>4. QED BY <1>1, <1>2, <1>3 DEF LinkInv

LEMMA AddItemToObjectSound ==
    ASSUME LinkInv, NEW o \in Item, NEW i \in Item, NEW k \in Key,
           AddItemToObject(o, k, i)
    PROVE  LinkInv'
  <1>1. /\ o \in live \ isReference /\ i \in roots /\ o \notin Subtree(i)
        /\ live' = live /\ isReference' = isReference
        /\ isObject' = isObject /\ crashed' = crashed
        /\ stringIsConst' \subseteq live
    BY DEF AddItemToObject, MayAdd, LinkInv, TypeOK, NotConst
  <1>2. CASE AppendItem(o, i) /\ string' = Renamed(i, Copy(k)) /\ roots' = roots \ {i}
    <2>1. string' \in [Item -> Name \cup {NULL}]
      BY <1>2, RenamedTyped, CopyLiteralTyped
    <2>2. QED BY <1>1, <1>2, <2>1, AppendSound
  <1>3. CASE UNCHANGED <<links, string, roots>>
    BY <1>1, <1>3, SameLinksSound DEF LinkInv, TypeOK
  <1>4. QED BY <1>2, <1>3 DEF AddItemToObject

LEMMA AddItemToObjectCSSound ==
    ASSUME LinkInv, NEW o \in Item, NEW i \in Item, NEW k \in Key,
           AddItemToObjectCS(o, k, i)
    PROVE  LinkInv'
  <1>1. /\ o \in live \ isReference /\ i \in roots /\ o \notin Subtree(i) /\ AppendItem(o, i)
        /\ live' = live /\ roots' = roots \ {i} /\ isReference' = isReference
        /\ isObject' = isObject /\ crashed' = crashed
        /\ stringIsConst' \subseteq live
    BY DEF AddItemToObjectCS, MayAdd, LinkInv, TypeOK
  <1>2. string' \in [Item -> Name \cup {NULL}]
    BY RenamedTyped, CopyLiteralTyped DEF AddItemToObjectCS
  <1>3. QED BY <1>1, <1>2, AppendSound

LEMMA AddNewToObjectSound ==
    ASSUME LinkInv, NEW o \in Item, NEW x \in Item, NEW k \in Key,
           AddNewToObject(o, k, x)
    PROVE  LinkInv'
  <1>1. /\ o \in live \ isReference /\ x \in Item \ live /\ child[x] = NULL
        /\ NULL \notin Item /\ o # x
        /\ live' = live \cup {x} /\ roots' = roots /\ isReference' = isReference
        /\ isObject' \subseteq live \cup {x} /\ crashed' = crashed
        /\ stringIsConst' \subseteq live \cup {x}
        /\ child \in [Item -> Item \cup {NULL}]
    BY NullIsNoItem DEF AddNewToObject, LinkInv, TypeOK, NoDangling
  <1>2. string' \in [Item -> Name \cup {NULL}]
    BY RenamedTyped, CopyLiteralTyped DEF AddNewToObject, LinkInv, TypeOK
  <1>3. child = [child EXCEPT ![x] = NULL]
    BY <1>1
  <1>4. \/ /\ child[o] = NULL
           /\ child' = [child EXCEPT ![x] = NULL, ![o] = x]
           /\ UNCHANGED <<next, prev>>
        \/ /\ child[o] # NULL
           /\ \E last \in Kids(o) :
                 /\ next[last] = NULL
                 /\ next' = [next EXCEPT ![last] = x]
                 /\ prev' = [prev EXCEPT ![x] = last]
                 /\ child' = [child EXCEPT ![x] = NULL]
        \/ /\ child' = [child EXCEPT ![x] = NULL]
           /\ UNCHANGED <<next, prev>>
    BY <1>1, <1>3 DEF AddNewToObject, AppendItem, links
  <1>5. QED BY <1>1, <1>2, <1>4, AppendNewSound

LEMMA ReferenceSound ==
    ASSUME LinkInv, NEW a \in live \ isReference, NEW item \in live, NEW x \in Item \ live,
           AppendReference(a, item, x) \/ (/\ child' = [child EXCEPT ![x] = child[item]]
                                           /\ UNCHANGED <<next, prev>>),
           live' = live \cup {x}, roots' = roots, isReference' = isReference \cup {x},
           isObject' \subseteq live \cup {x}, crashed' = crashed,
           string' \in [Item -> Name \cup {NULL}], stringIsConst' \subseteq live \cup {x}
    PROVE  LinkInv'
  <1>1. child[item] \in live \cup {NULL}
    BY DEF LinkInv, TypeOK, NoDangling
  <1>2. \/ /\ child[a] = NULL
           /\ child' = [child EXCEPT ![x] = child[item], ![a] = x]
           /\ UNCHANGED <<next, prev>>
        \/ /\ child[a] # NULL
           /\ \E last \in Kids(a) :
                 /\ next[last] = NULL
                 /\ next' = [next EXCEPT ![last] = x]
                 /\ prev' = [prev EXCEPT ![x] = last]
                 /\ child' = [child EXCEPT ![x] = child[item]]
        \/ /\ child' = [child EXCEPT ![x] = child[item]]
           /\ UNCHANGED <<next, prev>>
    BY DEF AppendReference
  <1>3. QED BY <1>1, <1>2, AppendNewSound

LEMMA AddItemReferenceToArraySound ==
    ASSUME LinkInv, NEW a \in Item, NEW item \in Item, NEW x \in Item,
           AddItemReferenceToArray(a, item, x)
    PROVE  LinkInv'
  BY ReferenceSound DEF AddItemReferenceToArray, LinkInv, TypeOK

LEMMA AddItemReferenceToObjectSound ==
    ASSUME LinkInv, NEW o \in Item, NEW item \in Item, NEW x \in Item, NEW k \in Key,
           AddItemReferenceToObject(o, k, item, x)
    PROVE  LinkInv'
  <1>1. string' \in [Item -> Name \cup {NULL}]
    BY RenamedTyped, CopyLiteralTyped DEF AddItemReferenceToObject, LinkInv, TypeOK
  <1>2. QED BY <1>1, ReferenceSound DEF AddItemReferenceToObject, LinkInv, TypeOK

LEMMA InsertItemInArraySound ==
    ASSUME LinkInv, NEW a \in Item, NEW i \in Item, InsertItemInArray(a, i)
    PROVE  LinkInv'
  <1>1. CASE AddItemToArray(a, i)
    BY <1>1, AddItemToArraySound
  <1>2. CASE ~AddItemToArray(a, i)
    <2>1. /\ a \in live \ isReference /\ i \in roots /\ a \notin Subtree(i)
          /\ roots' = roots \ {i}
          /\ UNCHANGED <<live, names, isReference, isObject, crashed>>
      BY <1>2 DEF InsertItemInArray, MayAdd
    <2>2. PICK b \in Kids(a) :
             /\ next' = [x \in Item |-> IF x = i THEN b
                                        ELSE IF x = prev[b] THEN i ELSE next[x]]
             /\ prev' = [prev EXCEPT ![i] = prev[b], ![b] = i]
             /\ child' = IF b = child[a] THEN [child EXCEPT ![a] = i] ELSE child
      BY <1>2 DEF InsertItemInArray
    <2>3. QED BY <2>1, <2>2, InsertSound
  <1>3. QED BY <1>1, <1>2

LEMMA CrashSound ==
    ASSUME LinkInv, NEW o \in Item, NEW k \in Key, NEW sensitive \in BOOLEAN,
           Crash(o, k, sensitive)
    PROVE  LinkInv'
  BY SameLinksSound DEF Crash, LinkInv, TypeOK, names

LEMMA ReplaceItemSound ==
    ASSUME LinkInv, NEW p \in Item, NEW x \in Item, NEW r \in Item, ReplaceItem(p, x, r)
    PROVE  LinkInv'
  <1>1. /\ p \in live \ isReference /\ r \in roots /\ p \notin Subtree(r) /\ x \in Kids(p)
        /\ MayFree(Subtree(x)) /\ Exchange(p, x, r, string)
        /\ string \in [Item -> Name \cup {NULL}]
        /\ stringIsConst' \subseteq live \ Subtree(x) /\ crashed' \in BOOLEAN
    BY DEF ReplaceItem, MayAdd, LinkInv, TypeOK
  <1>2. QED BY <1>1, ExchangeSound

LEMMA ReplaceItemInObjectSound ==
    ASSUME LinkInv, NEW o \in Item, NEW r \in Item, NEW k \in Key, NEW sensitive \in BOOLEAN,
           ReplaceItemInObject(o, k, sensitive, r)
    PROVE  LinkInv'
  <1>1. o \in live \ isReference /\ r \in roots /\ o \notin Subtree(r)
    BY DEF ReplaceItemInObject, MayAdd
  <1>2. PICK name \in {Copy(k), NULL} :
           \/ \E x \in Kids(o) :
                 /\ MayFree(Subtree(x))
                 /\ Exchange(o, x, r, Renamed(r, name))
                 /\ stringIsConst' = NotConst(r) \ Subtree(x)
                 /\ UNCHANGED crashed
           \/ /\ crashed' = StrcmpNull(o, k, sensitive)
              /\ string' = Renamed(r, name)
              /\ stringIsConst' = NotConst(r)
              /\ UNCHANGED <<live, links, isReference, isObject, roots>>
    BY DEF ReplaceItemInObject
  <1>3. Renamed(r, name) \in [Item -> Name \cup {NULL}]
    BY RenamedTyped, CopyLiteralTyped
  <1>4. CASE \E x \in Kids(o) :
                /\ MayFree(Subtree(x))
                /\ Exchange(o, x, r, Renamed(r, name))
                /\ stringIsConst' = NotConst(r) \ Subtree(x)
                /\ UNCHANGED crashed
    <2>1. PICK x \in Kids(o) :
             /\ MayFree(Subtree(x))
             /\ Exchange(o, x, r, Renamed(r, name))
             /\ stringIsConst' = NotConst(r) \ Subtree(x)
             /\ UNCHANGED crashed
      BY <1>4
    <2>2. stringIsConst' \subseteq live \ Subtree(x) /\ crashed' \in BOOLEAN
      BY <2>1 DEF NotConst, LinkInv, TypeOK
    <2>3. QED BY <1>1, <1>3, <2>1, <2>2, ExchangeSound
  <1>5. CASE /\ crashed' = StrcmpNull(o, k, sensitive)
             /\ string' = Renamed(r, name)
             /\ stringIsConst' = NotConst(r)
             /\ UNCHANGED <<live, links, isReference, isObject, roots>>
    <2>1. crashed' \in BOOLEAN
      BY <1>5 DEF StrcmpNull
    <2>2. QED BY <1>3, <1>5, <2>1, SameLinksSound DEF NotConst, LinkInv, TypeOK
  <1>6. QED BY <1>2, <1>4, <1>5

(* No function of the API breaks the links, whatever it is called with and  *)
(* whichever allocation fails.                                              *)
THEOREM StepSound == LinkInv /\ [Next]_vars => LinkInv'
  <1> SUFFICES ASSUME LinkInv, [Next]_vars PROVE LinkInv'
    OBVIOUS
  <1>1. ASSUME NEW x \in Item, NEW object \in BOOLEAN, Create(x, object) PROVE LinkInv'
    BY <1>1, CreateSound
  <1>2. ASSUME NEW a \in Item, NEW i \in Item, AddItemToArray(a, i) PROVE LinkInv'
    BY <1>2, AddItemToArraySound
  <1>3. ASSUME NEW o \in Item, NEW i \in Item, NEW k \in Key, AddItemToObject(o, k, i)
        PROVE  LinkInv'
    BY <1>3, AddItemToObjectSound
  <1>4. ASSUME NEW o \in Item, NEW x \in Item, NEW k \in Key, AddNewToObject(o, k, x)
        PROVE  LinkInv'
    BY <1>4, AddNewToObjectSound
  <1>5. ASSUME NEW o \in Item, NEW i \in Item, NEW k \in Key, AddItemToObjectCS(o, k, i)
        PROVE  LinkInv'
    BY <1>5, AddItemToObjectCSSound
  <1>6. ASSUME NEW a \in Item, NEW i \in Item, NEW x \in Item,
               AddItemReferenceToArray(a, i, x)
        PROVE  LinkInv'
    BY <1>6, AddItemReferenceToArraySound
  <1>7. ASSUME NEW o \in Item, NEW i \in Item, NEW x \in Item, NEW k \in Key,
               AddItemReferenceToObject(o, k, i, x)
        PROVE  LinkInv'
    BY <1>7, AddItemReferenceToObjectSound
  <1>8. ASSUME NEW p \in Item, NEW x \in Item, DetachItem(p, x) PROVE LinkInv'
    BY <1>8, DetachItemSound
  <1>9. ASSUME NEW p \in Item, NEW x \in Item, DeleteItem(p, x) PROVE LinkInv'
    BY <1>9, DeleteItemSound
  <1>10. ASSUME NEW o \in Item, NEW k \in Key, NEW sensitive \in BOOLEAN,
                DetachItemFromObject(o, k, sensitive)
         PROVE  LinkInv'
    <2>1. \A x \in Kids(o) : x \in Item
      BY DEF Kids, Chain
    <2>2. QED BY <1>8, <1>10, <2>1, CrashSound DEF DetachItemFromObject
  <1>11. ASSUME NEW o \in Item, NEW k \in Key, NEW sensitive \in BOOLEAN,
                DeleteItemFromObject(o, k, sensitive)
         PROVE  LinkInv'
    <2>1. \A x \in Kids(o) : x \in Item
      BY DEF Kids, Chain
    <2>2. QED BY <1>9, <1>11, <2>1, CrashSound DEF DeleteItemFromObject
  <1>12. ASSUME NEW root \in Item, Delete(root) PROVE LinkInv'
    BY <1>12, DeleteSound
  <1>13. ASSUME NEW a \in Item, NEW i \in Item, InsertItemInArray(a, i) PROVE LinkInv'
    BY <1>13, InsertItemInArraySound
  <1>14. ASSUME NEW a \in Item, InsertNullInArray(a) PROVE LinkInv'
    BY <1>14, SameLinksSound DEF InsertNullInArray, LinkInv, TypeOK, names
  <1>15. ASSUME NEW p \in Item, NEW x \in Item, NEW r \in Item, ReplaceItem(p, x, r)
         PROVE  LinkInv'
    BY <1>15, ReplaceItemSound
  <1>16. ASSUME NEW o \in Item, NEW r \in Item, NEW k \in Key, NEW sensitive \in BOOLEAN,
                ReplaceItemInObject(o, k, sensitive, r)
         PROVE  LinkInv'
    BY <1>16, ReplaceItemInObjectSound
  <1>17. CASE UNCHANGED vars
    BY <1>17, SameLinksSound DEF vars, links, LinkInv, TypeOK
  <1>18. QED
    BY <1>1, <1>2, <1>3, <1>4, <1>5, <1>6, <1>7, <1>8, <1>9, <1>10, <1>11, <1>12,
       <1>13, <1>14, <1>15, <1>16, <1>17 DEF Next

(* The links are sound in every reachable state.                            *)
THEOREM LinksSound == Spec => []LinkInv
  <1>1. QED BY InitSound, StepSound, PTL DEF Spec

(* Every field holds what its type says, and only allocated items are       *)
(* flagged, linked or held.                                                 *)
THEOREM TypeCorrect == Spec => []TypeOK
  <1>1. LinkInv => TypeOK
    BY DEF LinkInv
  <1>2. QED BY <1>1, LinksSound, PTL

(* `next' and `prev' undo each other, a child entry has no `prev', and no   *)
(* item has two holders: cJSON_Delete frees no item twice.                  *)
THEOREM ListsSound == Spec => [](DoublyLinked /\ OwnedOnce)
  <1>1. LinkInv => DoublyLinked /\ OwnedOnce
    BY DEF LinkInv
  <1>2. QED BY <1>1, LinksSound, PTL

(* No pointer leads to a freed item.                                        *)
THEOREM NothingDangles == Spec => []NoDangling
  <1>1. LinkInv => NoDangling
    BY DEF LinkInv
  <1>2. QED BY <1>1, LinksSound, PTL

(* No item comes after itself in a list or owns itself: every loop over     *)
(* `next' and every cJSON_Delete ends.  This is not said of print_array and *)
(* cJSON_Duplicate, which follow the children of references, too.           *)
THEOREM LoopsAndDeletionsEnd == Spec => []Acyclic
  <1>1. LinkInv => Acyclic
    BY DEF LinkInv
  <1>2. QED BY <1>1, LinksSound, PTL
-----------------------------------------------------------------------------
(* Names.                                                                   *)

(* Only allocated items have names, and the flag says whose a name is.      *)
NameInv ==
    \A x \in Item : string[x] # NULL =>
        x \in live /\ (x \in stringIsConst <=> string[x].literal)

(* Freeing items drops their names and flags and leaves the others alone.   *)
LEMMA FreeNamed ==
    ASSUME NameInv, NEW F \in SUBSET Item, NEW n, NEW p, NEW c, Free(F, n, p, c, string),
           stringIsConst' = stringIsConst \ F
    PROVE  NameInv'
  BY DEF Free, NameInv

(* A step that touches neither names nor flags.                             *)
LEMMA SameNamesNamed ==
    ASSUME NameInv, UNCHANGED names, live \subseteq live'
    PROVE  NameInv'
  BY DEF names, NameInv

(* An item that is given a copy and loses its flag, or never had it.        *)
LEMMA CopyNamed ==
    ASSUME TypeOK, NameInv, NEW x \in Item, NEW k \in Key, x \in live',
           live \subseteq live', string' = Renamed(x, Copy(k)),
           x \notin stringIsConst',
           \A y \in Item \ {x} : y \in stringIsConst' <=> y \in stringIsConst
    PROVE  NameInv'
  <1> SUFFICES ASSUME NEW y \in Item, string'[y] # NULL
               PROVE  y \in live' /\ (y \in stringIsConst' <=> string'[y].literal)
    BY DEF NameInv
  <1>1. CASE y = x
    BY <1>1 DEF Renamed, Copy, TypeOK
  <1>2. CASE y # x
    BY <1>2 DEF Renamed, NameInv, TypeOK
  <1>3. QED BY <1>1, <1>2

(* Every step keeps it, if names can be copied.                             *)
LEMMA StepNamed ==
    ASSUME "strdup" \notin Faults, TypeOK, NameInv, [Next]_vars
    PROVE  NameInv'
  <1> USE DEF links, names
  <1>1. ASSUME NEW x \in Item, NEW object \in BOOLEAN, Create(x, object) PROVE NameInv'
    BY <1>1, SameNamesNamed DEF Create
  <1>2. ASSUME NEW a \in Item, NEW i \in Item, AddItemToArray(a, i) PROVE NameInv'
    BY <1>2, SameNamesNamed DEF AddItemToArray
  <1>3. ASSUME NEW o \in Item, NEW i \in Item, NEW k \in Key, AddItemToObject(o, k, i)
        PROVE  NameInv'
    BY <1>3, CopyNamed DEF AddItemToObject, MayAdd, NotConst, TypeOK
  <1>4. ASSUME NEW o \in Item, NEW x \in Item, NEW k \in Key, AddNewToObject(o, k, x)
        PROVE  NameInv'
    BY <1>4, CopyNamed DEF AddNewToObject, TypeOK
  <1>5. ASSUME NEW o \in Item, NEW i \in Item, NEW k \in Key, AddItemToObjectCS(o, k, i)
        PROVE  NameInv'
    <2> SUFFICES ASSUME NEW y \in Item, string'[y] # NULL
                 PROVE  y \in live' /\ (y \in stringIsConst' <=> string'[y].literal)
      BY DEF NameInv
    <2>1. CASE y = i
      BY <1>5, <2>1 DEF AddItemToObjectCS, MayAdd, Renamed, Literal, TypeOK
    <2>2. CASE y # i
      BY <1>5, <2>2 DEF AddItemToObjectCS, Renamed, NameInv, TypeOK
    <2>3. QED BY <2>1, <2>2
  <1>6. ASSUME NEW a \in Item, NEW i \in Item, NEW x \in Item,
               AddItemReferenceToArray(a, i, x)
        PROVE  NameInv'
    BY <1>6 DEF AddItemReferenceToArray, NameInv
  <1>7. ASSUME NEW o \in Item, NEW i \in Item, NEW x \in Item, NEW k \in Key,
               AddItemReferenceToObject(o, k, i, x)
        PROVE  NameInv'
    BY <1>7, CopyNamed DEF AddItemReferenceToObject, TypeOK
  <1>8. ASSUME NEW p \in Item, NEW x \in Item, DetachItem(p, x) PROVE NameInv'
    BY <1>8, SameNamesNamed DEF DetachItem
  <1>9. ASSUME NEW p \in Item, NEW x \in Item, DeleteItem(p, x) PROVE NameInv'
    <2>1. Subtree(x) \in SUBSET Item
      BY DEF Subtree, Reach
    <2>2. QED BY <1>9, <2>1, FreeNamed DEF DeleteItem
  <1>10. ASSUME NEW o \in Item, NEW k \in Key, NEW sensitive \in BOOLEAN,
                Crash(o, k, sensitive)
         PROVE  NameInv'
    BY <1>10, SameNamesNamed DEF Crash
  <1>11. ASSUME NEW root \in Item, Delete(root) PROVE NameInv'
    <2>1. Reach(root) \in SUBSET Item
      BY DEF Reach
    <2>2. QED BY <1>11, <2>1, FreeNamed DEF Delete
  <1>12. ASSUME NEW a \in Item, NEW i \in Item, InsertItemInArray(a, i) PROVE NameInv'
    BY <1>2, <1>12, SameNamesNamed DEF InsertItemInArray
  <1>13. ASSUME NEW a \in Item, InsertNullInArray(a) PROVE NameInv'
    BY <1>13, SameNamesNamed DEF InsertNullInArray
  <1>14. ASSUME NEW p \in Item, NEW x \in Item, NEW r \in Item, ReplaceItem(p, x, r)
         PROVE  NameInv'
    <2>1. Subtree(x) \in SUBSET Item
      BY DEF Subtree, Reach
    <2>2. QED BY <1>14, <2>1, FreeNamed DEF ReplaceItem, Exchange
  <1>15. ASSUME NEW o \in Item, NEW r \in Item, NEW k \in Key, NEW sensitive \in BOOLEAN,
                ReplaceItemInObject(o, k, sensitive, r)
         PROVE  NameInv'
    <2>1. r \in live
      BY <1>15 DEF ReplaceItemInObject, MayAdd, TypeOK
    <2>2. CASE /\ string' = Renamed(r, Copy(k))
               /\ stringIsConst' = NotConst(r)
               /\ live' = live
      BY <2>1, <2>2, CopyNamed DEF NotConst
    <2>3. ASSUME NEW x \in Kids(o),
                 Exchange(o, x, r, Renamed(r, Copy(k))),
                 stringIsConst' = NotConst(r) \ Subtree(x)
          PROVE  NameInv'
      <3> SUFFICES ASSUME NEW y \in Item, string'[y] # NULL
                   PROVE  y \in live' /\ (y \in stringIsConst' <=> string'[y].literal)
        BY DEF NameInv
      <3>1. /\ y \notin Subtree(x)
            /\ string'[y] = Renamed(r, Copy(k))[y]
            /\ live' = live \ Subtree(x)
        BY <2>3 DEF Exchange, Free
      <3>2. CASE y = r
        BY <2>1, <2>3, <3>1, <3>2 DEF Renamed, Copy, NotConst, TypeOK
      <3>3. CASE y # r
        BY <2>3, <3>1, <3>3 DEF Renamed, NotConst, NameInv, TypeOK
      <3>4. QED BY <3>2, <3>3
    <2>4. QED BY <1>15, <2>2, <2>3 DEF ReplaceItemInObject
  <1>16. CASE UNCHANGED vars
    BY <1>16, SameNamesNamed DEF vars
  <1>17. \A o \in Item : Kids(o) \subseteq Item
    BY DEF Kids, Chain
  <1>18. QED
    BY <1>1, <1>2, <1>3, <1>4, <1>5, <1>6, <1>7, <1>8, <1>9, <1>10, <1>11, <1>12,
       <1>13, <1>14, <1>15, <1>16, <1>17
       DEF Next, DetachItemFromObject, DeleteItemFromObject

(* As long as names can be copied, the flag cJSON_StringIsConst says what   *)
(* the name is: cJSON_Delete frees every copy and no literal.               *)
THEOREM FlagsRight ==
    ASSUME "strdup" \notin Faults
    PROVE  Spec => []NameFlagsAgree
  <1>1. Init => NameInv
    BY DEF Init, NameInv
  <1>2. TypeOK /\ NameInv /\ [Next]_vars => NameInv'
    BY StepNamed
  <1>3. NameInv /\ TypeOK => NameFlagsAgree
    BY DEF NameInv, NameFlagsAgree, TypeOK
  <1>4. QED BY <1>1, <1>2, <1>3, TypeCorrect, PTL DEF Spec

-----------------------------------------------------------------------------
(* Leaks.                                                                   *)

(* Every allocated item is held by the program or led to by another one.    *)
(* Unlike NoLeak this looks one step back only, so a step that moves a few  *)
(* links disturbs it for a few items; Acyclic makes it the same thing.      *)
Rooted == \A x \in live : HasHolder(x)

(* What is held stays held, and what is new is held if names can be copied. *)
HoldKept == \A x \in live \cap live' : HasHolder(x) => HasHolder(x)'
NewHeld  == "strdup" \notin Faults => \A x \in live' \ live : HasHolder(x)'

LEMMA RootedNoLeak ==
    ASSUME LinkInv, Rooted
    PROVE  NoLeak
  <1> SUFFICES ASSUME NEW T \in SUBSET Item, roots \subseteq T, OwnClosed(T),
                      NEW w \in live, w \notin T
               PROVE  FALSE
    BY DEF NoLeak
  <1>1. PICK z \in live \ T : \A y \in live \ T : ~Leads(y, z)
    BY DEF LinkInv, Acyclic
  <1>2. PICK y \in live : Leads(y, z)
    BY <1>1 DEF Rooted, HasHolder
  <1>3. y \in T /\ z # NULL
    BY <1>1, <1>2, NullIsNoItem DEF LinkInv, TypeOK
  <1>4. z \in T
    BY <1>2, <1>3 DEF Leads, OwnClosed, NextClosed
  <1>5. QED BY <1>1, <1>4

(* An item given away is led to by the list it went into.                   *)
LEMMA AppendHolds ==
    ASSUME LinkInv, NEW a \in live \ isReference, NEW i \in roots,
           AppendItem(a, i), live' = live, roots' = roots \ {i},
           isReference' = isReference
    PROVE  HoldKept
  <1>0. a \in Item /\ i \in Item /\ NULL \notin Item /\ live \subseteq Item
    BY NullIsNoItem DEF LinkInv, TypeOK
  <1>1. CASE child[a] = NULL
    <2>1. \A y, z \in live : Leads(y, z) => Leads(y, z)'
      BY <1>0, <1>1 DEF AppendItem, Leads, LinkInv, TypeOK
    <2>2. Leads(a, i)'
      BY <1>0, <1>1 DEF AppendItem, Leads, LinkInv, TypeOK
    <2>3. QED BY <2>1, <2>2 DEF HoldKept, HasHolder
  <1>2. CASE child[a] # NULL
    <2>1. PICK last \in Kids(a) : /\ next[last] = NULL
                                  /\ next' = [next EXCEPT ![last] = i]
                                  /\ child' = child
      BY <1>2 DEF AppendItem
    <2>2. last \in live /\ last \in Item
      BY KidFacts DEF LinkInv, TypeOK
    <2>3. \A y, z \in live : Leads(y, z) => Leads(y, z)'
      BY <1>0, <2>1, <2>2 DEF Leads, LinkInv, TypeOK
    <2>4. Leads(last, i)'
      BY <1>0, <2>1, <2>2 DEF Leads, LinkInv, TypeOK
    <2>5. QED BY <2>2, <2>3, <2>4 DEF HoldKept, HasHolder
  <1>3. QED BY <1>1, <1>2

(* So is a new one; v is what its own `child' starts as.                    *)
LEMMA AppendNewHolds ==
    ASSUME LinkInv, NEW a \in live \ isReference, NEW x \in Item \ live,
           NEW v,
           \/ /\ child[a] = NULL
              /\ child' = [child EXCEPT ![x] = v, ![a] = x]
              /\ UNCHANGED next
           \/ /\ child[a] # NULL
              /\ \E last \in Kids(a) : /\ next[last] = NULL
                                       /\ next' = [next EXCEPT ![last] = x]
              /\ child' = [child EXCEPT ![x] = v],
           live' = live \cup {x}, roots' = roots,
           isReference' \in {isReference, isReference \cup {x}}
    PROVE  HoldKept /\ HasHolder(x)'
  <1>0. a \in Item /\ a # x /\ NULL \notin Item /\ live \subseteq Item /\ x \notin isReference
    BY NullIsNoItem DEF LinkInv, TypeOK
  <1>1. CASE /\ child[a] = NULL
             /\ child' = [child EXCEPT ![x] = v, ![a] = x]
             /\ UNCHANGED next
    <2>1. \A y, z \in live : Leads(y, z) => Leads(y, z)'
      BY <1>0, <1>1 DEF Leads, LinkInv, TypeOK
    <2>2. Leads(a, x)'
      BY <1>0, <1>1 DEF Leads, LinkInv, TypeOK
    <2>3. QED BY <2>1, <2>2 DEF HoldKept, HasHolder
  <1>2. CASE /\ child[a] # NULL
             /\ \E last \in Kids(a) : /\ next[last] = NULL
                                      /\ next' = [next EXCEPT ![last] = x]
             /\ child' = [child EXCEPT ![x] = v]
    <2>1. PICK last \in Kids(a) : /\ next[last] = NULL
                                  /\ next' = [next EXCEPT ![last] = x]
      BY <1>2
    <2>2. last \in live /\ last \in Item
      BY KidFacts, <1>2 DEF LinkInv, TypeOK
    <2>3. \A y, z \in live : Leads(y, z) => Leads(y, z)'
      BY <1>0, <1>2, <2>1, <2>2 DEF Leads, LinkInv, TypeOK
    <2>4. Leads(last, x)'
      BY <1>0, <2>1, <2>2 DEF Leads, LinkInv, TypeOK
    <2>5. QED BY <2>2, <2>3, <2>4 DEF HoldKept, HasHolder
  <1>3. QED BY <1>1, <1>2

(* What an element led to is led to by what led to the element, once it is  *)
(* out of its list.                                                         *)
LEMMA UnlinkHolds ==
    ASSUME LinkInv, NEW p \in live \ isReference, NEW x \in Kids(p),
           NEW y \in live, NEW z \in live, z # x, Leads(y, z)
    PROVE  \/ x \notin isReference /\ y = x /\ child[x] = z
           \/ \E w \in live \ {x} :
                 \/ NextWithout(x)[w] = z
                 \/ w \notin isReference /\ ChildWithout(p, x)[w] = z
  <1>0. /\ p \in Item /\ x \in live /\ x \in Item /\ NULL \notin Item /\ live \subseteq Item
        /\ (x = child[p] <=> prev[x] = NULL) /\ p # x /\ y \in Item /\ z \in Item
    BY KidFacts, ParentOutside, SubtreeIsolated, NullIsNoItem DEF LinkInv, TypeOK
  <1>1. CASE next[y] = z /\ y # x
    BY <1>0, <1>1 DEF NextWithout, LinkInv, TypeOK, DoublyLinked
  <1>2. CASE next[y] = z /\ y = x /\ x = child[p]
    <2>1. ChildWithout(p, x)[p] = z
      BY <1>0, <1>2 DEF ChildWithout, LinkInv, TypeOK
    <2>2. QED BY <1>0, <2>1
  <1>3. CASE next[y] = z /\ y = x /\ x # child[p]
    <2>1. prev[x] \in live /\ prev[x] \in Item /\ next[prev[x]] = x
      BY <1>0, <1>3 DEF LinkInv, TypeOK, DoublyLinked, NoDangling
    <2>2. prev[x] # x
      BY <2>1, SubtreeIsolated, TopAlone, <1>0 DEF Leads
    <2>3. NextWithout(x)[prev[x]] = z
      BY <1>0, <1>3, <2>1, <2>2 DEF NextWithout
    <2>4. QED BY <2>1, <2>2, <2>3
  <1>4. CASE y \notin isReference /\ child[y] = z /\ y # x
    BY <1>0, <1>4 DEF ChildWithout, LinkInv, TypeOK
  <1>5. CASE y \notin isReference /\ child[y] = z /\ y = x
    BY <1>5
  <1>6. QED BY <1>1, <1>2, <1>3, <1>4, <1>5 DEF Leads

(* Freeing a tree takes no link from anything else.                         *)
LEMMA FreedHolds ==
    ASSUME LinkInv, NEW x \in live, NEW y \in Subtree(x), NEW z \in live \ Subtree(x),
           Leads(y, z)
    PROVE  y = x /\ next[x] = z
  <1>1. NULL \notin Item /\ live \subseteq Item
    BY NullIsNoItem DEF LinkInv, TypeOK
  <1>2. QED BY <1>1, SubtreeIsolated DEF Leads

LEMMA DetachItemHolds ==
    ASSUME LinkInv, NEW p \in Item, NEW x \in Item, DetachItem(p, x)
    PROVE  HoldKept
  <1>1. /\ p \in live \ isReference /\ x \in Kids(p) /\ x \in live /\ p # x
        /\ live' = live /\ isReference' = isReference /\ roots' = roots \cup {x}
        /\ next' = NextWithout(x) /\ child' = ChildWithout(p, x)
        /\ child \in [Item -> Item \cup {NULL}]
    BY KidFacts, ParentOutside, SubtreeIsolated DEF DetachItem, LinkInv, TypeOK
  <1> SUFFICES ASSUME NEW z \in live, z \notin roots', NEW y \in live, Leads(y, z)
               PROVE  \E w \in live : Leads(w, z)'
    BY <1>1 DEF HoldKept, HasHolder
  <1>2. child'[x] = child[x]
    BY <1>1 DEF ChildWithout
  <1>3. QED BY <1>1, <1>2, UnlinkHolds DEF Leads

LEMMA DeleteItemHolds ==
    ASSUME LinkInv, NEW p \in Item, NEW x \in Item, DeleteItem(p, x)
    PROVE  HoldKept
  <1> DEFINE F == Subtree(x)
  <1>1. /\ p \in live \ isReference /\ x \in Kids(p) /\ x \in live /\ x \notin roots
        /\ F \subseteq live /\ x \in F /\ NULL \notin Item /\ live \subseteq Item
        /\ Free(F, NextWithout(x), PrevWithout(x), ChildWithout(p, x), string)
        /\ roots' = roots
    BY KidFacts, SubtreeIsolated, NullIsNoItem DEF DeleteItem, LinkInv, TypeOK
  <1>2. live' = live \ F
    BY <1>1 DEF Free
  <1>3. \A w \in live \ F, z \in live \ F :
           \/ NextWithout(x)[w] = z
           \/ w \notin isReference /\ ChildWithout(p, x)[w] = z
           => Leads(w, z)'
    BY <1>1 DEF Free, Leads
  <1>4. ASSUME NEW w \in F \ {x}, NEW z \in live \ F
        PROVE  ~(\/ NextWithout(x)[w] = z
                 \/ w \notin isReference /\ ChildWithout(p, x)[w] = z)
    <2>1. w # p /\ w # prev[x] /\ w \in Item
      BY <1>1, ParentOutside, SiblingsOutside
    <2>2. NextWithout(x)[w] = next[w] /\ ChildWithout(p, x)[w] = child[w]
      BY <1>1, <2>1 DEF NextWithout, ChildWithout, LinkInv, TypeOK
    <2>3. QED BY <1>1, <2>2, FreedHolds DEF Leads
  <1> SUFFICES ASSUME NEW z \in live \ F, z \notin roots, NEW y \in live, Leads(y, z)
               PROVE  \E w \in live \ F : Leads(w, z)'
    BY <1>1, <1>2 DEF HoldKept, HasHolder
  <1>5. ~(x \notin isReference /\ y = x /\ child[x] = z)
    BY <1>1, NullIsNoItem, SubtreeIsolated
  <1>6. PICK w \in live \ {x} :
           \/ NextWithout(x)[w] = z
           \/ w \notin isReference /\ ChildWithout(p, x)[w] = z
    BY <1>1, <1>5, UnlinkHolds
  <1>7. w \in live \ F
    BY <1>4, <1>6
  <1>8. QED BY <1>3, <1>6, <1>7

LEMMA DeleteHolds ==
    ASSUME LinkInv, NEW root \in Item, Delete(root)
    PROVE  HoldKept
  <1> DEFINE F == Reach(root)
  <1>1. /\ F \subseteq Item /\ OwnClosed(F) /\ NULL \notin live
        /\ Free(F, next, prev, child, string) /\ roots' = roots \ F
        /\ live \subseteq Item
    BY ReachClosed, NullIsNoItem DEF Delete, LinkInv, TypeOK
  <1>2. live' = live \ F
    BY <1>1 DEF Free
  <1> SUFFICES ASSUME NEW z \in live \ F, z \notin roots, NEW y \in live, Leads(y, z)
               PROVE  \E w \in live \ F : Leads(w, z)'
    BY <1>1, <1>2 DEF HoldKept, HasHolder
  <1>3. y \notin F
    BY <1>1 DEF Leads, OwnClosed, NextClosed
  <1>4. Leads(y, z)'
    BY <1>1, <1>3 DEF Free, Leads
  <1>5. QED BY <1>3, <1>4

(* The replacement is led to by what led to the element, and leads to what  *)
(* came after it.                                                           *)
LEMMA ExchangeHolds ==
    ASSUME LinkInv, NEW p \in live \ isReference, NEW r \in roots,
           p \notin Subtree(r), NEW x \in Kids(p), NEW s, Exchange(p, x, r, s)
    PROVE  HoldKept
  <1> DEFINE F == Subtree(x)
             n == [y \in Item |-> IF y = r THEN next[x]
                                  ELSE IF y = prev[x] THEN r ELSE next[y]]
             q == [y \in Item |-> IF y = r THEN prev[x]
                                  ELSE IF y = next[x] THEN r ELSE prev[y]]
             c == IF child[p] = x THEN [child EXCEPT ![p] = r] ELSE child
  <1>0. /\ NULL \notin Item /\ live \subseteq Item /\ p \in Item
        /\ r \in live /\ r \in Item /\ next[r] = NULL /\ prev[r] = NULL /\ p # r
        /\ x \in live /\ x \in Item /\ x \notin roots /\ x # r
        /\ x = child[p] <=> prev[x] = NULL
    BY KidFacts, SubtreeIsolated, NullIsNoItem DEF LinkInv, TypeOK, DoublyLinked
  <1>1. /\ F \subseteq live /\ x \in F /\ r \notin F /\ p \notin F /\ prev[x] \notin F
    BY <1>0, SubtreeIsolated, ParentOutside, SiblingsOutside
  <1>2. Free(F, n, q, c, s) /\ roots' = roots \ {r}
    BY DEF Exchange
  <1>3. live' = live \ F
    BY <1>2 DEF Free
  <1>4. \A w, z \in live \ F :
           n[w] = z \/ (w \notin isReference /\ c[w] = z) => Leads(w, z)'
    <2> HIDE DEF n, q, c, F
    <2>1. QED BY <1>0, <1>2 DEF Free, Leads
  <1>5. \E w \in live \ F : Leads(w, r)'
    <2>1. CASE child[p] = x
      <3>1. c[p] = r
        BY <1>0, <2>1 DEF LinkInv, TypeOK
      <3>2. QED BY <1>0, <1>1, <1>4, <3>1
    <2>2. CASE child[p] # x
      <3>1. prev[x] \in live /\ prev[x] # r
        BY <1>0, <2>2 DEF LinkInv, TypeOK, NoDangling, DoublyLinked
      <3>2. n[prev[x]] = r
        BY <1>0, <3>1
      <3>3. QED BY <1>0, <1>1, <1>4, <3>1, <3>2
    <2>3. QED BY <2>1, <2>2
  <1> SUFFICES ASSUME NEW z \in live \ F, z # r, z \notin roots,
                      NEW y \in live, Leads(y, z)
               PROVE  \E w \in live \ F : Leads(w, z)'
    BY <1>0, <1>2, <1>3, <1>5 DEF HoldKept, HasHolder
  <1>6. CASE y \in F
    <2>1. n[r] = z
      BY <1>0, <1>6, FreedHolds
    <2>2. QED BY <1>0, <1>1, <1>4, <2>1
  <1>7. CASE y \notin F
    <2>1. n[y] = z \/ (y \notin isReference /\ c[y] = z)
      BY <1>0, <1>1, <1>7 DEF Leads, LinkInv, TypeOK, DoublyLinked
    <2>2. QED BY <1>4, <1>7, <2>1
  <1>8. QED BY <1>6, <1>7

(* No step loses an item that was held.                                     *)
LEMMA StepHolds ==
    ASSUME LinkInv, [Next]_vars
    PROVE  HoldKept /\ NewHeld
  <1> USE DEF links, names
  <1>same. ASSUME live' = live, UNCHANGED <<next, child, isReference, roots>>
           PROVE  HoldKept /\ NewHeld
    BY <1>same DEF HoldKept, NewHeld, HasHolder, Leads
  <1>fewer. ASSUME live' \subseteq live PROVE NewHeld
    BY <1>fewer DEF NewHeld
  <1>1. ASSUME NEW x \in Item, NEW object \in BOOLEAN, Create(x, object)
        PROVE  HoldKept /\ NewHeld
    BY <1>1 DEF Create, HoldKept, NewHeld, HasHolder, Leads
  <1>2. ASSUME NEW a \in Item, NEW i \in Item, AddItemToArray(a, i)
        PROVE  HoldKept /\ NewHeld
    BY <1>2, <1>fewer, AppendHolds DEF AddItemToArray, MayAdd
  <1>3. ASSUME NEW o \in Item, NEW i \in Item, NEW k \in Key, AddItemToObject(o, k, i)
        PROVE  HoldKept /\ NewHeld
    <2>1. CASE AppendItem(o, i) /\ roots' = roots \ {i}
      BY <1>3, <1>fewer, <2>1, AppendHolds DEF AddItemToObject, MayAdd
    <2>2. CASE UNCHANGED <<links, roots>>
      BY <1>3, <1>same, <2>2 DEF AddItemToObject
    <2>3. QED BY <1>3, <2>1, <2>2 DEF AddItemToObject
  <1>4. ASSUME NEW o \in Item, NEW x \in Item, NEW k \in Key, AddNewToObject(o, k, x)
        PROVE  HoldKept /\ NewHeld
    <2>1. /\ o \in live \ isReference /\ x \in Item \ live /\ o # x
          /\ live' = live \cup {x} /\ roots' = roots /\ isReference' = isReference
          /\ child[x] = NULL /\ child \in [Item -> Item \cup {NULL}]
      BY <1>4 DEF AddNewToObject, LinkInv, TypeOK, NoDangling
    <2>2. child = [child EXCEPT ![x] = NULL]
      BY <2>1
    <2>3. CASE AppendItem(o, x)
      <3>1. \/ /\ child[o] = NULL
               /\ child' = [child EXCEPT ![x] = NULL, ![o] = x]
               /\ UNCHANGED next
            \/ /\ child[o] # NULL
               /\ \E last \in Kids(o) : /\ next[last] = NULL
                                        /\ next' = [next EXCEPT ![last] = x]
               /\ child' = [child EXCEPT ![x] = NULL]
        BY <2>1, <2>2, <2>3 DEF AppendItem
      <3>2. QED BY <2>1, <3>1, AppendNewHolds DEF NewHeld
    <2>4. CASE "strdup" \in Faults /\ UNCHANGED links
      BY <2>1, <2>4 DEF HoldKept, NewHeld, HasHolder, Leads
    <2>5. QED BY <1>4, <2>3, <2>4 DEF AddNewToObject
  <1>5. ASSUME NEW o \in Item, NEW i \in Item, NEW k \in Key, AddItemToObjectCS(o, k, i)
        PROVE  HoldKept /\ NewHeld
    BY <1>5, <1>fewer, AppendHolds DEF AddItemToObjectCS, MayAdd
  <1>6. ASSUME NEW a \in live \ isReference, NEW i \in live, NEW x \in Item \ live,
               AppendReference(a, i, x), live' = live \cup {x}, roots' = roots,
               isReference' = isReference \cup {x}
        PROVE  HoldKept /\ NewHeld
    <2>1. \/ /\ child[a] = NULL
             /\ child' = [child EXCEPT ![x] = child[i], ![a] = x]
             /\ UNCHANGED next
          \/ /\ child[a] # NULL
             /\ \E last \in Kids(a) : /\ next[last] = NULL
                                      /\ next' = [next EXCEPT ![last] = x]
             /\ child' = [child EXCEPT ![x] = child[i]]
      BY <1>6 DEF AppendReference
    <2>2. QED BY <1>6, <2>1, AppendNewHolds DEF NewHeld
  <1>7. ASSUME NEW a \in Item, NEW i \in Item, NEW x \in Item,
               AddItemReferenceToArray(a, i, x)
        PROVE  HoldKept /\ NewHeld
    BY <1>6, <1>7 DEF AddItemReferenceToArray
  <1>8. ASSUME NEW o \in Item, NEW i \in Item, NEW x \in Item, NEW k \in Key,
               AddItemReferenceToObject(o, k, i, x)
        PROVE  HoldKept /\ NewHeld
    <2>1. /\ o \in live \ isReference /\ i \in live /\ x \in Item \ live
          /\ live' = live \cup {x} /\ roots' = roots /\ isReference' = isReference \cup {x}
      BY <1>8 DEF AddItemReferenceToObject, LinkInv, TypeOK
    <2>2. CASE AppendReference(o, i, x)
      BY <1>6, <2>1, <2>2
    <2>3. CASE "strdup" \in Faults /\ child' = [child EXCEPT ![x] = child[i]] /\ next' = next
      <3>1. \A y, z \in live : Leads(y, z) => Leads(y, z)'
        BY <2>1, <2>3 DEF Leads, LinkInv, TypeOK
      <3>2. QED BY <2>1, <2>3, <3>1 DEF HoldKept, NewHeld, HasHolder
    <2>4. QED BY <1>8, <2>2, <2>3 DEF AddItemReferenceToObject
  <1>9. ASSUME NEW p \in Item, NEW x \in Item, DetachItem(p, x) PROVE HoldKept /\ NewHeld
    BY <1>9, <1>fewer, DetachItemHolds DEF DetachItem
  <1>10. ASSUME NEW p \in Item, NEW x \in Item, DeleteItem(p, x) PROVE HoldKept /\ NewHeld
    BY <1>10, <1>fewer, DeleteItemHolds DEF DeleteItem, Free
  <1>11. ASSUME NEW o \in Item, NEW k \in Key, NEW sensitive \in BOOLEAN,
                Crash(o, k, sensitive)
         PROVE  HoldKept /\ NewHeld
    BY <1>11, <1>same DEF Crash
  <1>12. ASSUME NEW root \in Item, Delete(root) PROVE HoldKept /\ NewHeld
    BY <1>12, <1>fewer, DeleteHolds DEF Delete, Free
  <1>13. ASSUME NEW a \in Item, NEW i \in Item, InsertItemInArray(a, i)
         PROVE  HoldKept /\ NewHeld
    <2>1. CASE AddItemToArray(a, i)
      BY <1>2, <2>1
    <2>2. CASE ~AddItemToArray(a, i)
      <3>1. PICK b \in Kids(a) :
               /\ next' = [x \in Item |-> IF x = i THEN b
                                          ELSE IF x = prev[b] THEN i ELSE next[x]]
               /\ child' = IF b = child[a] THEN [child EXCEPT ![a] = i] ELSE child
        BY <1>13, <2>2 DEF InsertItemInArray
      <3>2. /\ a \in live \ isReference /\ i \in roots /\ i \in live /\ a \notin Subtree(i)
            /\ live' = live /\ roots' = roots \ {i} /\ isReference' = isReference
            /\ NULL \notin Item /\ live \subseteq Item /\ next[i] = NULL /\ prev[i] = NULL
        BY <1>13, <2>2, NullIsNoItem
           DEF InsertItemInArray, MayAdd, LinkInv, TypeOK, DoublyLinked
      <3>3. /\ b \in live /\ b # i /\ a # i /\ (b = child[a] <=> prev[b] = NULL)
        BY <3>1, <3>2, KidFacts, SubtreeIsolated
      <3>4. prev[b] # NULL => prev[b] \in live /\ prev[b] # i
        BY <3>2, <3>3 DEF LinkInv, TypeOK, DoublyLinked, NoDangling
      <3>5. \E w \in live : Leads(w, i)'
        BY <3>1, <3>2, <3>3, <3>4 DEF Leads, LinkInv, TypeOK
      <3>6. Leads(i, b)'
        BY <3>1, <3>2 DEF Leads
      <3>7. \A y, z \in live : Leads(y, z) /\ z # b => Leads(y, z)'
        BY <3>1, <3>2, <3>3 DEF Leads, LinkInv, TypeOK, DoublyLinked
      <3>8. QED BY <1>fewer, <3>2, <3>5, <3>6, <3>7 DEF HoldKept, HasHolder
    <2>3. QED BY <2>1, <2>2
  <1>14. ASSUME NEW a \in Item, InsertNullInArray(a) PROVE HoldKept /\ NewHeld
    BY <1>14, <1>same DEF InsertNullInArray
  <1>15. ASSUME NEW p \in Item, NEW x \in Item, NEW r \in Item, ReplaceItem(p, x, r)
         PROVE  HoldKept /\ NewHeld
    BY <1>15, <1>fewer, ExchangeHolds DEF ReplaceItem, MayAdd, Exchange, Free
  <1>16. ASSUME NEW o \in Item, NEW r \in Item, NEW k \in Key, NEW sensitive \in BOOLEAN,
                ReplaceItemInObject(o, k, sensitive, r)
         PROVE  HoldKept /\ NewHeld
    <2>1. o \in live \ isReference /\ r \in roots /\ o \notin Subtree(r)
      BY <1>16 DEF ReplaceItemInObject, MayAdd
    <2>2. CASE UNCHANGED <<live, links, isReference, roots>>
      BY <1>same, <2>2
    <2>3. ASSUME NEW x \in Kids(o), NEW name, Exchange(o, x, r, Renamed(r, name))
          PROVE  HoldKept /\ NewHeld
      <3>1. HoldKept
        BY <2>1, <2>3, ExchangeHolds
      <3>2. live' \subseteq live
        BY <2>3 DEF Exchange, Free
      <3>3. QED BY <1>fewer, <3>1, <3>2
    <2>4. QED BY <1>16, <2>2, <2>3 DEF ReplaceItemInObject
  <1>17. CASE UNCHANGED vars
    BY <1>17, <1>same DEF vars
  <1>18. \A o \in Item : Kids(o) \subseteq Item
    BY DEF Kids, Chain
  <1>19. QED
    BY <1>1, <1>2, <1>3, <1>4, <1>5, <1>7, <1>8, <1>9, <1>10, <1>11, <1>12,
       <1>13, <1>14, <1>15, <1>16, <1>17, <1>18
       DEF Next, DetachItemFromObject, DeleteItemFromObject

(* Whatever fails, no call loses an item that the program or another item   *)
(* held; only what it allocated itself can be out of reach afterwards.      *)
THEOREM NoCallLoses == Spec => KeepsHold
  <1>1. LinkInv /\ [Next]_vars => [HoldKept]_vars
    BY StepHolds
  <1>2. [HoldKept]_vars => [\A x \in live \cap live' : HasHolder(x) => HasHolder(x)']_vars
    BY DEF HoldKept
  <1>3. QED BY <1>1, <1>2, LinksSound, PTL DEF Spec, KeepsHold

(* As long as names can be copied, deleting what the program holds frees    *)
(* everything: no call of the API puts an item out of reach.                *)
THEOREM NothingLeaks ==
    ASSUME "strdup" \notin Faults
    PROVE  Spec => []NoLeak
  <1>1. Init => Rooted
    BY DEF Init, Rooted
  <1>2. LinkInv /\ Rooted /\ [Next]_vars => Rooted'
    BY StepHolds DEF HoldKept, NewHeld, Rooted
  <1>3. LinkInv /\ Rooted => NoLeak
    BY RootedNoLeak
  <1>4. QED BY <1>1, <1>2, <1>3, LinksSound, PTL DEF Spec

(* No item has two holders, whatever fails: cJSON_Delete frees none twice.  *)
THEOREM OneHolder == Spec => []OwnedOnce
  <1>1. LinkInv => OwnedOnce
    BY DEF LinkInv
  <1>2. QED BY <1>1, LinksSound, PTL

-----------------------------------------------------------------------------
(* Members.                                                                 *)

(* An element is the child entry or comes after another element.            *)
LEMMA KidFrom ==
    ASSUME LinkInv, NEW p \in live \ isReference, NEW x \in Kids(p), x # child[p]
    PROVE  prev[x] \in Kids(p)
  <1> DEFINE T == {y \in Kids(p) : y = child[p] \/ prev[y] \in Kids(p)}
  <1>1. child[p] \in Item /\ Kids(p) = Chain(child[p]) /\ NULL \notin Item
    BY KidFacts, NullIsNoItem DEF Kids, LinkInv, TypeOK, NoDangling
  <1>2. child[p] \in T /\ T \in SUBSET Item
    BY <1>1, ChainClosed DEF LinkInv
  <1>3. NextClosed(T)
    BY <1>1, ChainClosed DEF NextClosed, LinkInv, TypeOK, DoublyLinked
  <1>4. x \in T
    BY <1>1, <1>2, <1>3, ChainLeast
  <1>5. QED BY <1>4

(* Two items share no element.                                              *)
LEMMA ListsApart ==
    ASSUME LinkInv, NEW p \in live \ isReference, NEW q \in live \ isReference, p # q,
           NEW x \in Kids(p)
    PROVE  x \notin Kids(q)
  <1> DEFINE T == Kids(p) \ Kids(q)
  <1>1. child[p] # NULL /\ child[p] \in Item /\ Kids(p) = Chain(child[p]) /\ NULL \notin Item
        /\ prev[child[p]] = NULL
    BY KidFacts, NullIsNoItem DEF Kids, LinkInv, TypeOK, NoDangling, DoublyLinked
  <1>2. child[p] \in T /\ T \in SUBSET Item
    <2>1. child[p] \notin Kids(q)
      BY <1>1, KidFacts DEF LinkInv, OwnedOnce
    <2>2. QED BY <1>1, <2>1, ChainClosed DEF LinkInv
  <1>3. NextClosed(T)
    <2> SUFFICES ASSUME NEW y \in T, next[y] # NULL PROVE next[y] \in T
      BY DEF NextClosed
    <2>1. next[y] \in Kids(p) /\ next[y] \in Item /\ y \in Item /\ prev[next[y]] = y
      BY <1>1, <1>2, ChainClosed DEF NextClosed, LinkInv, TypeOK, DoublyLinked
    <2>2. ASSUME next[y] \in Kids(q) PROVE FALSE
      <3>1. next[y] # child[q]
        BY <1>1, <2>1, <2>2, KidFacts
      <3>2. QED BY <2>1, <2>2, <3>1, KidFrom
    <2>3. QED BY <2>1, <2>2
  <1>4. QED BY <1>1, <1>2, <1>3, ChainLeast

(* Every member of o has a name.                                            *)
Named(o) == \A x \in Kids(o) : string[x] # NULL

(* What an object has for members after a step is in every closed set.      *)
LEMMA NamedIn ==
    ASSUME NEW o, NEW T \in SUBSET Item, child'[o] # NULL => child'[o] \in T,
           \A y \in T : (next'[y] # NULL => next'[y] \in T) /\ string'[y] # NULL
    PROVE  Named(o)'
  BY DEF Named, Kids, Chain, NextClosed

(* The elements of p are closed, and hold the child entry.                  *)
LEMMA KidsClosed ==
    ASSUME LinkInv, NEW p \in live \ isReference
    PROVE  /\ Kids(p) \in SUBSET Item
           /\ child[p] # NULL => child[p] \in Kids(p)
           /\ \A y \in Kids(p) : next[y] # NULL => next[y] \in Kids(p)
  <1>1. CASE child[p] = NULL
    BY <1>1 DEF Kids
  <1>2. CASE child[p] # NULL
    BY <1>2, ChainClosed DEF Kids, LinkInv, TypeOK, NoDangling, NextClosed
  <1>3. QED BY <1>1, <1>2

(* A step that leaves the lists of the objects alone and takes no name.     *)
LEMMA SameListsNamed ==
    ASSUME LinkInv, MembersNamed, UNCHANGED next,
           isObject' \ isReference' \subseteq isObject \ isReference,
           \A o \in isObject \ isReference : child'[o] = child[o],
           \A y \in Item : string[y] # NULL => string'[y] # NULL
    PROVE  MembersNamed'
  <1> SUFFICES ASSUME NEW o \in isObject \ isReference
               PROVE  Named(o)'
    BY DEF Named, MembersNamed
  <1>1. o \in live \ isReference
    BY DEF LinkInv, TypeOK
  <1>2. QED BY <1>1, KidsClosed, NamedIn DEF MembersNamed

(* An item that goes to the end of a list, with a name if the list is the   *)
(* one of an object.                                                        *)
LEMMA AppendNamed ==
    ASSUME LinkInv, MembersNamed, NEW a \in live \ isReference, NEW i \in Item,
           next[i] = NULL,
           \/ child[a] = NULL /\ child'[a] = i /\ UNCHANGED next
           \/ /\ child'[a] = child[a]
              /\ \E last \in Kids(a) : next' = [next EXCEPT ![last] = i],
           \A o \in isObject \ isReference : o # a => child'[o] = child[o],
           isObject' \ isReference' \subseteq isObject \ isReference,
           a \in isObject => string'[i] # NULL,
           \A y \in Item : string[y] # NULL => string'[y] # NULL
    PROVE  MembersNamed'
  <1> SUFFICES ASSUME NEW o \in isObject \ isReference
               PROVE  Named(o)'
    BY DEF Named, MembersNamed
  <1>0. /\ o \in live \ isReference /\ \A y \in Kids(o) : string'[y] # NULL
        /\ next \in [Item -> Item \cup {NULL}] /\ Kids(o) \in SUBSET Item
    BY KidsClosed DEF LinkInv, TypeOK, MembersNamed
  <1>1. CASE o = a
    <2> DEFINE T == Kids(a) \cup {i}
    <2>1. T \in SUBSET Item /\ (child'[a] # NULL => child'[a] \in T)
      BY KidsClosed
    <2>2. \A y \in T : next'[y] # NULL => next'[y] \in T
      BY <1>0, <1>1, KidsClosed
    <2>3. \A y \in T : (next'[y] # NULL => next'[y] \in T) /\ string'[y] # NULL
      BY <1>0, <1>1, <2>2
    <2> HIDE DEF T
    <2>4. QED BY <1>1, <2>1, <2>3, NamedIn
  <1>2. CASE o # a
    <2>1. \A y \in Kids(o) : next'[y] = next[y]
      BY <1>0, <1>2, ListsApart
    <2>2. QED BY <1>0, <1>2, <2>1, KidsClosed, NamedIn
  <1>3. QED BY <1>1, <1>2

LEMMA AppendItemNamed ==
    ASSUME LinkInv, MembersNamed, NEW a \in live \ isReference, NEW i \in Item,
           next[i] = NULL, AppendItem(a, i),
           isReference' = isReference, isObject' = isObject,
           a \in isObject => string'[i] # NULL,
           \A y \in Item : string[y] # NULL => string'[y] # NULL
    PROVE  MembersNamed'
  <1>1. /\ \/ child[a] = NULL /\ child'[a] = i /\ UNCHANGED next
           \/ /\ child'[a] = child[a]
              /\ \E last \in Kids(a) : next' = [next EXCEPT ![last] = i]
        /\ \A o \in isObject \ isReference : o # a => child'[o] = child[o]
    BY DEF AppendItem, LinkInv, TypeOK
  <1>2. QED BY <1>1, AppendNamed

LEMMA AppendReferenceNamed ==
    ASSUME LinkInv, MembersNamed, NEW a \in live \ isReference, NEW item \in live,
           NEW x \in Item \ live, AppendReference(a, item, x),
           isReference' = isReference \cup {x}, isObject' \subseteq isObject \cup {x},
           a \in isObject => string'[x] # NULL,
           \A y \in Item : string[y] # NULL => string'[y] # NULL
    PROVE  MembersNamed'
  <1>1. /\ \/ child[a] = NULL /\ child'[a] = x /\ UNCHANGED next
           \/ /\ child'[a] = child[a]
              /\ \E last \in Kids(a) : next' = [next EXCEPT ![last] = x]
        /\ \A o \in isObject \ isReference : o # a => child'[o] = child[o]
        /\ isObject' \ isReference' \subseteq isObject \ isReference
        /\ next[x] = NULL
    BY DEF AppendReference, LinkInv, TypeOK, NoDangling
  <1>2. QED BY <1>1, AppendNamed

(* What is left of a list once an element is out of it.                     *)
LEMMA UnlinkNamed ==
    ASSUME LinkInv, MembersNamed, NEW p \in live \ isReference, NEW x \in Kids(p),
           NEW o \in isObject \ isReference
    PROVE  LET T == Kids(o) \ {x}
           IN  /\ T \in SUBSET Item
               /\ ChildWithout(p, x)[o] # NULL => ChildWithout(p, x)[o] \in T
               /\ \A y \in T : /\ string[y] # NULL
                               /\ NextWithout(x)[y] # NULL => NextWithout(x)[y] \in T
  <1> DEFINE T == Kids(o) \ {x}
  <1>1. /\ o \in live \ isReference /\ p \in Item /\ o \in Item /\ x \in Item /\ NULL \notin Item
        /\ \A y \in Kids(o) : string[y] # NULL
        /\ next \in [Item -> Item \cup {NULL}] /\ child \in [Item -> Item \cup {NULL}]
    BY KidFacts, NullIsNoItem DEF LinkInv, TypeOK, MembersNamed
  <1>2. T \in SUBSET Item
    BY <1>1, KidsClosed
  <1>3. ChildWithout(p, x)[o] # NULL => ChildWithout(p, x)[o] \in T
    <2>1. ChildWithout(p, x)[o] # x
      BY <1>1, UnlinkFacts
    <2>2. ChildWithout(p, x)[o] = child[o] \/ (o = p /\ ChildWithout(p, x)[o] = next[x])
      BY <1>1 DEF ChildWithout
    <2>3. QED BY <1>1, <2>1, <2>2, KidsClosed
  <1>4. ASSUME NEW y \in T, NextWithout(x)[y] # NULL PROVE NextWithout(x)[y] \in T
    <2>1. y \in Item /\ NextWithout(x)[y] # x
      BY <1>1, <1>2, UnlinkFacts
    <2>2. NextWithout(x)[y] = next[y] \/ (y = prev[x] /\ NextWithout(x)[y] = next[x])
      BY <2>1 DEF NextWithout
    <2>3. y = prev[x] => next[y] = x
      BY <1>1, <2>1 DEF LinkInv, DoublyLinked
    <2>4. QED BY <1>1, <1>4, <2>1, <2>2, <2>3, KidsClosed
  <1>5. QED BY <1>1, <1>2, <1>3, <1>4

LEMMA DetachItemNamed ==
    ASSUME LinkInv, MembersNamed, NEW p \in Item, NEW x \in Item, DetachItem(p, x)
    PROVE  MembersNamed'
  <1> SUFFICES ASSUME NEW o \in isObject \ isReference
               PROVE  Named(o)'
    BY DEF Named, MembersNamed, DetachItem
  <1> DEFINE T == Kids(o) \ {x}
  <1>1. /\ p \in live \ isReference /\ x \in Kids(p)
        /\ next' = NextWithout(x) /\ child' = ChildWithout(p, x) /\ string' = string
    BY DEF DetachItem, names
  <1>2. /\ T \in SUBSET Item
        /\ child'[o] # NULL => child'[o] \in T
        /\ \A y \in T : (next'[y] # NULL => next'[y] \in T) /\ string'[y] # NULL
    BY <1>1, UnlinkNamed
  <1> HIDE DEF T
  <1>3. QED BY <1>2, NamedIn

(* Freeing leaves the lists of what is left in place.                       *)
LEMMA FreeMembers ==
    ASSUME LinkInv', NEW F \in SUBSET Item, NEW n, NEW q, NEW c, NEW s, Free(F, n, q, c, s),
           NEW o, o \in isObject' \ isReference', NEW T \in SUBSET Item,
           c[o] # NULL => c[o] \in T,
           \A y \in T \ F : s[y] # NULL /\ (n[y] # NULL => n[y] \in T)
    PROVE  Named(o)'
  <1> DEFINE U == T \ F
  <1>1. /\ \A z \in live' : z \notin F
        /\ o \in Item \ F
    BY DEF Free, LinkInv, TypeOK
  <1>2. \A y \in Item : /\ next'[y] \in live' \cup {NULL}
                        /\ child'[y] \in live' \cup {NULL}
    BY DEF LinkInv, TypeOK, NoDangling
  <1>3. child'[o] # NULL => child'[o] \in U
    <2>1. child'[o] = c[o]
      BY <1>1 DEF Free
    <2>2. child'[o] \in live' \cup {NULL}
      BY <1>1, <1>2
    <2>3. QED BY <1>1, <2>1, <2>2
  <1>4. ASSUME NEW y \in U
        PROVE  (next'[y] # NULL => next'[y] \in U) /\ string'[y] # NULL
    <2>1. y \in Item \ F
      OBVIOUS
    <2>2. next'[y] = n[y] /\ string'[y] = s[y]
      BY <2>1 DEF Free
    <2>3. next'[y] \in live' \cup {NULL}
      BY <1>2, <2>1
    <2>4. QED BY <1>1, <2>2, <2>3
  <1>5. U \in SUBSET Item
    OBVIOUS
  <1> HIDE DEF U
  <1>6. QED BY <1>3, <1>4, <1>5, NamedIn

LEMMA DeleteItemNamed ==
    ASSUME LinkInv, MembersNamed, NEW p \in Item, NEW x \in Item, DeleteItem(p, x)
    PROVE  MembersNamed'
  <1> SUFFICES ASSUME NEW o \in isObject' \ isReference'
               PROVE  Named(o)'
    BY DEF Named, MembersNamed
  <1> DEFINE T == Kids(o) \ {x}
             F == Subtree(x)
             n == NextWithout(x)
             q == PrevWithout(x)
             c == ChildWithout(p, x)
  <1>1. /\ p \in live \ isReference /\ x \in Kids(p) /\ Free(F, n, q, c, string)
        /\ F \in SUBSET Item
    BY DEF DeleteItem, Subtree, Reach
  <1>2. o \in isObject \ isReference
    BY <1>1 DEF Free, LinkInv, TypeOK
  <1>3. /\ T \in SUBSET Item /\ (c[o] # NULL => c[o] \in T)
        /\ \A y \in T : string[y] # NULL /\ (n[y] # NULL => n[y] \in T)
    BY <1>1, <1>2, UnlinkNamed
  <1>4. LinkInv'
    BY DeleteItemSound
  <1> HIDE DEF T, F, n, q, c
  <1>5. QED BY <1>1, <1>3, <1>4, FreeMembers

LEMMA DeleteNamed ==
    ASSUME LinkInv, MembersNamed, NEW root \in Item, Delete(root)
    PROVE  MembersNamed'
  <1> SUFFICES ASSUME NEW o \in isObject' \ isReference'
               PROVE  Named(o)'
    BY DEF Named, MembersNamed
  <1>1. Free(Reach(root), next, prev, child, string) /\ Reach(root) \in SUBSET Item
    BY DEF Delete, Reach
  <1>2. o \in isObject \ isReference /\ o \in live \ isReference
    BY <1>1 DEF Free, LinkInv, TypeOK
  <1>3. /\ Kids(o) \in SUBSET Item /\ (child[o] # NULL => child[o] \in Kids(o))
        /\ \A y \in Kids(o) : string[y] # NULL /\ (next[y] # NULL => next[y] \in Kids(o))
    BY <1>2, KidsClosed DEF MembersNamed
  <1>4. LinkInv'
    BY DeleteSound
  <1>5. QED BY <1>1, <1>3, <1>4, FreeMembers

(* The element that was there keeps its place after the new one.            *)
LEMMA InsertNamed ==
    ASSUME LinkInv, MembersNamed, NEW a \in live \ isReference, NEW i \in roots,
           NEW b \in Kids(a),
           next' = [x \in Item |-> IF x = i THEN b
                                   ELSE IF x = prev[b] THEN i ELSE next[x]],
           child' = IF b = child[a] THEN [child EXCEPT ![a] = i] ELSE child,
           isReference' = isReference, isObject' = isObject, string' = string,
           a \in isObject => string[i] # NULL
    PROVE  MembersNamed'
  <1> SUFFICES ASSUME NEW o \in isObject \ isReference
               PROVE  Named(o)'
    BY DEF Named, MembersNamed
  <1>1. /\ o \in live \ isReference /\ \A y \in Kids(o) : string[y] # NULL
        /\ i \in Item /\ b \in Item /\ a \in Item /\ o \in Item /\ NULL \notin Item
        /\ child \in [Item -> Item \cup {NULL}] /\ Kids(o) \in SUBSET Item
        /\ i \notin Kids(o)
    BY KidFacts, KidsClosed, NullIsNoItem DEF LinkInv, TypeOK, MembersNamed
  <1>2. CASE o = a
    <2> DEFINE T == Kids(a) \cup {i}
    <2>1. /\ T \in SUBSET Item
          /\ child'[o] # NULL => child'[o] \in T
          /\ \A y \in T : (next'[y] # NULL => next'[y] \in T) /\ string'[y] # NULL
      BY <1>1, <1>2, KidsClosed
    <2> HIDE DEF T
    <2>2. QED BY <2>1, NamedIn
  <1>3. CASE o # a
    <2>1. \A y \in Kids(o) : y # prev[b]
      <3>1. b # child[a] => prev[b] \in Kids(a)
        BY KidFrom
      <3>2. b = child[a] => prev[b] = NULL
        BY KidFacts
      <3>3. QED BY <1>1, <1>3, <3>1, <3>2, ListsApart
    <2>2. child'[o] = child[o] /\ \A y \in Kids(o) : next'[y] = next[y]
      BY <1>1, <1>3, <2>1
    <2>3. QED BY <1>1, <2>2, KidsClosed, NamedIn
  <1>4. QED BY <1>2, <1>3

LEMMA ExchangeNamed ==
    ASSUME LinkInv, LinkInv', MembersNamed, NEW p \in live \ isReference, NEW r \in roots,
           NEW x \in Kids(p), NEW s, Exchange(p, x, r, s),
           p \in isObject => s[r] # NULL,
           \A y \in Item : string[y] # NULL => s[y] # NULL
    PROVE  MembersNamed'
  <1> SUFFICES ASSUME NEW o \in isObject' \ isReference'
               PROVE  Named(o)'
    BY DEF Named, MembersNamed
  <1> DEFINE F == Subtree(x)
             n == [y \in Item |-> IF y = r THEN next[x]
                                  ELSE IF y = prev[x] THEN r ELSE next[y]]
             q == [y \in Item |-> IF y = r THEN prev[x]
                                  ELSE IF y = next[x] THEN r ELSE prev[y]]
             c == IF child[p] = x THEN [child EXCEPT ![p] = r] ELSE child
  <1>1. Free(F, n, q, c, s) /\ F \in SUBSET Item /\ x \in F
    BY DEF Exchange, Subtree, Reach, Kids, Chain
  <1>2. /\ o \in isObject /\ o \in live \ isReference /\ o \notin F
    <2> HIDE DEF F, n, q, c
    <2>1. QED BY <1>1 DEF Free, LinkInv, TypeOK
  <1>3. /\ \A y \in Kids(o) : s[y] # NULL
        /\ r \in Item /\ x \in Item /\ p \in Item /\ o \in Item /\ NULL \notin Item
        /\ child \in [Item -> Item \cup {NULL}] /\ Kids(o) \in SUBSET Item
        /\ r \notin Kids(o)
    BY <1>2, KidFacts, KidsClosed, NullIsNoItem DEF LinkInv, TypeOK, MembersNamed
  <1>4. CASE o = p
    <2> DEFINE T == Kids(p) \cup {r}
    <2>1. /\ T \in SUBSET Item
          /\ c[o] # NULL => c[o] \in T
          /\ \A y \in T \ F : s[y] # NULL /\ (n[y] # NULL => n[y] \in T)
      BY <1>2, <1>3, <1>4, KidsClosed
    <2> HIDE DEF T, F, n, q, c
    <2>2. QED BY <1>1, <2>1, FreeMembers
  <1>5. CASE o # p
    <2> DEFINE T == Kids(o)
    <2>1. \A y \in Kids(o) : y # prev[x]
      <3>1. x # child[p] => prev[x] \in Kids(p)
        BY KidFrom
      <3>2. x = child[p] => prev[x] = NULL
        BY KidFacts
      <3>3. QED BY <1>2, <1>3, <1>5, <3>1, <3>2, ListsApart
    <2>2. /\ T \in SUBSET Item
          /\ c[o] # NULL => c[o] \in T
          /\ \A y \in T \ F : s[y] # NULL /\ (n[y] # NULL => n[y] \in T)
      BY <1>2, <1>3, <1>5, <2>1, KidsClosed
    <2> HIDE DEF T, F, n, q, c
    <2>3. QED BY <1>1, <2>2, FreeMembers
  <1>6. QED BY <1>4, <1>5

(* Every step keeps it, if names can be copied and objects are not used as  *)
(* arrays.                                                                  *)
LEMMA StepMembers ==
    ASSUME "strdup" \notin Faults, "arrayop" \notin Faults,
           LinkInv, LinkInv', MembersNamed, [Next]_vars
    PROVE  MembersNamed'
  <1> USE DEF links, names
  <1>0. /\ NULL \notin Item /\ \A i \in roots : i \in Item /\ next[i] = NULL
        /\ string \in [Item -> Name \cup {NULL}] /\ live \subseteq Item
    BY NullIsNoItem DEF LinkInv, TypeOK, DoublyLinked
  <1>1. ASSUME NEW i \in Item, NEW name \in Name
        PROVE  /\ Renamed(i, name)[i] # NULL
               /\ \A y \in Item : string[y] # NULL => Renamed(i, name)[y] # NULL
    BY <1>0, NullIsNoName DEF Renamed, Name
  <1>2. ASSUME NEW x \in Item, NEW object \in BOOLEAN, Create(x, object)
        PROVE  MembersNamed'
    <2>1. /\ next' = next /\ child' = child /\ string' = string
          /\ isReference' = isReference /\ isObject' \subseteq isObject \cup {x}
          /\ child[x] = NULL
      BY <1>2 DEF Create, LinkInv, NoDangling
    <2>2. \A o \in isObject' \ isReference' : o = x => Kids(o)' = {}
      BY <2>1 DEF Kids
    <2>3. \A o : Kids(o)' = Kids(o)
      BY <2>1 DEF Kids, Chain, NextClosed
    <2>4. QED BY <2>1, <2>2, <2>3 DEF MembersNamed
  <1>3. ASSUME NEW a \in Item, NEW i \in Item, AddItemToArray(a, i) PROVE MembersNamed'
    BY <1>0, <1>3, AppendItemNamed DEF AddItemToArray, MayAdd, ArrayOp
  <1>4. ASSUME NEW o \in Item, NEW i \in Item, NEW k \in Key, AddItemToObject(o, k, i)
        PROVE  MembersNamed'
    BY <1>0, <1>1, <1>4, CopyLiteralTyped, AppendItemNamed DEF AddItemToObject, MayAdd
  <1>5. ASSUME NEW o \in Item, NEW x \in Item, NEW k \in Key, AddNewToObject(o, k, x)
        PROVE  MembersNamed'
    <2>1. o \in live \ isReference /\ next[x] = NULL
      BY <1>5 DEF AddNewToObject, LinkInv, TypeOK, NoDangling
    <2>2. QED BY <1>1, <1>5, <2>1, CopyLiteralTyped, AppendItemNamed DEF AddNewToObject
  <1>6. ASSUME NEW o \in Item, NEW i \in Item, NEW k \in Key, AddItemToObjectCS(o, k, i)
        PROVE  MembersNamed'
    BY <1>0, <1>1, <1>6, CopyLiteralTyped, AppendItemNamed DEF AddItemToObjectCS, MayAdd
  <1>7. ASSUME NEW a \in Item, NEW i \in Item, NEW x \in Item,
               AddItemReferenceToArray(a, i, x)
        PROVE  MembersNamed'
    <2>1. a \notin isObject
      BY <1>7 DEF AddItemReferenceToArray, ArrayOp
    <2>2. QED BY <1>7, <2>1, AppendReferenceNamed DEF AddItemReferenceToArray
  <1>8. ASSUME NEW o \in Item, NEW i \in Item, NEW x \in Item, NEW k \in Key,
               AddItemReferenceToObject(o, k, i, x)
        PROVE  MembersNamed'
    <2>1. o \in live \ isReference /\ i \in live /\ x \in Item \ live
      BY <1>8 DEF AddItemReferenceToObject, LinkInv, TypeOK
    <2>2. QED
      BY <1>1, <1>8, <2>1, CopyLiteralTyped, AppendReferenceNamed
         DEF AddItemReferenceToObject
  <1>9. ASSUME NEW p \in Item, NEW x \in Item, DetachItem(p, x) PROVE MembersNamed'
    BY <1>9, DetachItemNamed
  <1>10. ASSUME NEW p \in Item, NEW x \in Item, DeleteItem(p, x) PROVE MembersNamed'
    BY <1>10, DeleteItemNamed
  <1>11. ASSUME UNCHANGED <<next, child, isReference, isObject>>,
                \A y \in Item : string[y] # NULL => string'[y] # NULL
         PROVE  MembersNamed'
    BY <1>11, SameListsNamed
  <1>12. ASSUME NEW o \in Item, NEW k \in Key, NEW sensitive \in BOOLEAN,
                Crash(o, k, sensitive)
         PROVE  MembersNamed'
    BY <1>11, <1>12 DEF Crash
  <1>13. ASSUME NEW root \in Item, Delete(root) PROVE MembersNamed'
    BY <1>13, DeleteNamed
  <1>14. ASSUME NEW a \in Item, NEW i \in Item, InsertItemInArray(a, i) PROVE MembersNamed'
    <2>1. CASE AddItemToArray(a, i)
      BY <1>3, <2>1
    <2>2. CASE ~AddItemToArray(a, i)
      <3>1. PICK b \in Kids(a) :
               /\ next' = [x \in Item |-> IF x = i THEN b
                                          ELSE IF x = prev[b] THEN i ELSE next[x]]
               /\ child' = IF b = child[a] THEN [child EXCEPT ![a] = i] ELSE child
        BY <1>14, <2>2 DEF InsertItemInArray
      <3>2. /\ a \in live \ isReference /\ i \in roots
            /\ isReference' = isReference /\ isObject' = isObject /\ string' = string
            /\ a \in isObject => string[i] # NULL
        BY <1>14, <2>2 DEF InsertItemInArray, MayAdd, ArrayOp
      <3>3. QED BY <3>1, <3>2, InsertNamed
    <2>3. QED BY <2>1, <2>2
  <1>15. ASSUME NEW a \in Item, InsertNullInArray(a) PROVE MembersNamed'
    BY <1>11, <1>15 DEF InsertNullInArray
  <1>16. ASSUME NEW p \in Item, NEW x \in Item, NEW r \in Item, ReplaceItem(p, x, r)
         PROVE  MembersNamed'
    BY <1>16, ExchangeNamed DEF ReplaceItem, MayAdd, ArrayOp
  <1>17. ASSUME NEW o \in Item, NEW r \in Item, NEW k \in Key, NEW sensitive \in BOOLEAN,
                ReplaceItemInObject(o, k, sensitive, r)
         PROVE  MembersNamed'
    <2>1. o \in live \ isReference /\ r \in roots /\ r \in Item
      BY <1>0, <1>17 DEF ReplaceItemInObject, MayAdd
    <2> DEFINE s == Renamed(r, Copy(k))
    <2>2. s[r] # NULL /\ \A y \in Item : string[y] # NULL => s[y] # NULL
      BY <1>1, <2>1, CopyLiteralTyped
    <2>3. CASE string' = s /\ UNCHANGED <<next, child, isReference, isObject>>
      BY <1>11, <2>2, <2>3
    <2>4. ASSUME NEW x \in Kids(o), Exchange(o, x, r, s) PROVE MembersNamed'
      <3> HIDE DEF s
      <3>1. QED BY <2>1, <2>2, <2>4, ExchangeNamed
    <2>5. QED BY <1>17, <2>3, <2>4 DEF ReplaceItemInObject
  <1>18. CASE UNCHANGED vars
    BY <1>11, <1>18 DEF vars
  <1>19. \A o \in Item : Kids(o) \subseteq Item
    BY DEF Kids, Chain
  <1>20. QED
    BY <1>2, <1>3, <1>4, <1>5, <1>6, <1>7, <1>8, <1>9, <1>10, <1>12, <1>13, <1>14,
       <1>15, <1>16, <1>17, <1>18, <1>19
       DEF Next, DetachItemFromObject, DeleteItemFromObject

(* As long as names can be copied and the program keeps the functions for   *)
(* arrays away from objects, every member of an object has a name: a lookup *)
(* has none to compare with that is NULL.                                   *)
THEOREM EveryMemberNamed ==
    ASSUME "strdup" \notin Faults, "arrayop" \notin Faults
    PROVE  Spec => []MembersNamed
  <1>1. Init => MembersNamed
    BY DEF Init, MembersNamed
  <1>2. LinkInv /\ LinkInv' /\ MembersNamed /\ [Next]_vars => MembersNamed'
    BY StepMembers
  <1>3. QED BY <1>1, <1>2, LinksSound, PTL DEF Spec

(* Then no lookup compares with NULL, and a program that passes no NULL     *)
(* item either makes no call that dereferences NULL.                        *)
THEOREM NoCallCrashes ==
    ASSUME Faults = {}
    PROVE  Spec => []NoNullDereference
  <1>1. Init => NoNullDereference
    BY DEF Init, NoNullDereference
  <1>2. LinkInv /\ MembersNamed /\ NoNullDereference /\ [Next]_vars => NoNullDereference'
    <2> SUFFICES ASSUME LinkInv, MembersNamed, NoNullDereference, [Next]_vars
                 PROVE  NoNullDereference'
      OBVIOUS
    <2>1. ASSUME NEW o \in Item, NEW k \in Key, NEW sensitive \in BOOLEAN,
                 o \in isObject \ isReference
          PROVE  ~StrcmpNull(o, k, sensitive)
      BY <2>1 DEF StrcmpNull, MembersNamed
    <2>2. \A o \in Item, k \in Key, sensitive \in BOOLEAN : ~Crash(o, k, sensitive)
      BY <2>1 DEF Crash
    <2>3. \A a \in Item : ~InsertNullInArray(a)
      BY DEF InsertNullInArray
    <2>4. CASE UNCHANGED crashed
      BY <2>4 DEF NoNullDereference
    <2>5. ASSUME NEW o \in Item, NEW r \in Item, NEW k \in Key, NEW sensitive \in BOOLEAN,
                 ReplaceItemInObject(o, k, sensitive, r)
          PROVE  NoNullDereference'
      <3>1. o \in isObject \ isReference
        BY <2>5 DEF ReplaceItemInObject, MayAdd
      <3>2. UNCHANGED crashed \/ crashed' = StrcmpNull(o, k, sensitive)
        BY <2>5 DEF ReplaceItemInObject
      <3>3. QED BY <2>1, <2>4, <3>1, <3>2 DEF NoNullDereference
    <2>6. ASSUME Next, ~\E o, r \in Item, k \in Key, sensitive \in BOOLEAN :
                          ReplaceItemInObject(o, k, sensitive, r)
          PROVE  UNCHANGED crashed
      BY <2>2, <2>3, <2>6
         DEF Next, Create, AddItemToArray, AddItemToObject, AddNewToObject,
             AddItemToObjectCS, AddItemReferenceToArray, AddItemReferenceToObject,
             DetachItem, DeleteItem, DetachItemFromObject, DeleteItemFromObject, Delete,
             InsertItemInArray, ReplaceItem
    <2>7. QED BY <2>4, <2>5, <2>6 DEF vars
  <1>3. "strdup" \notin Faults /\ "arrayop" \notin Faults
    OBVIOUS
  <1>4. Spec => []MembersNamed
    BY <1>3, EveryMemberNamed
  <1>5. QED BY <1>1, <1>2, <1>4, LinksSound, PTL DEF Spec
=============================================================================
