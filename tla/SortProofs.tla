----------------------------- MODULE SortProofs -----------------------------
(***************************************************************************)
(* The merge sort, for lists of every length and for all names: it loses no*)
(* member and adds none, makes one list of them that is linked both ways,  *)
(* leaves a list alone that was in order, and orders names without regard  *)
(* to case.  First what holds of lists under the operations of a merge     *)
(* sort, then that every activation of the recursion has members of its    *)
(* own, sorted where it says so.                                           *)
(***************************************************************************)
EXTENDS CopySortProofs

(* Lists of items.  n and p stand for next and prev.                        *)

(* T is left by no next. *)
Goes(n, T) == \A x \in T : n[x] # NULL => n[x] \in T

(* A are the items of the list that begins with `first'.  Each one but the  *)
(* first is next of one, which is its prev.                                 *)
List(n, p, first, A) ==
    /\ first = NULL => A = {}
    /\ first # NULL => first \in A
    /\ \A x \in A : n[x] # NULL => n[x] \in A /\ n[x] # first /\ p[n[x]] = x
    /\ \A T \in SUBSET A : first \in T /\ Goes(n, T) => A \subseteq T

(* A are the items from `first' to `tail', whatever comes after it.         *)
Path(n, p, first, tail, A) ==
    /\ first \in A /\ tail \in A
    /\ \A x \in A \ {tail} : n[x] \in A /\ n[x] # first /\ p[n[x]] = x
    /\ \A T \in SUBSET A :
          first \in T /\ (\A x \in T \ {tail} : n[x] \in T) => A \subseteq T

(* No item of A weighs more than the next one.                              *)
Ascends(n, w, A) == \A x \in A : n[x] # NULL => w[x] =< w[n[x]]

(* Links outside a list do not count.                                       *)
LEMMA ListSame ==
    ASSUME NEW n, NEW p, NEW m, NEW q, NEW first, NEW A \in SUBSET Item,
           \A x \in A : m[x] = n[x] /\ q[x] = p[x], List(n, p, first, A)
    PROVE  List(m, q, first, A)
  <1>1. \A x \in A : m[x] # NULL => m[x] \in A /\ m[x] # first /\ q[m[x]] = x
    BY DEF List
  <1>2. ASSUME NEW T \in SUBSET A, first \in T, Goes(m, T) PROVE A \subseteq T
    BY <1>2 DEF List, Goes
  <1>3. QED BY <1>1, <1>2 DEF List

LEMMA AscendsSame ==
    ASSUME NEW n, NEW m, NEW w, NEW A, \A x \in A : m[x] = n[x], Ascends(n, w, A)
    PROVE  Ascends(m, w, A)
  BY DEF Ascends

(* The items after one of a list are a list, those before it another, when  *)
(* it is cut off from its prev.                                             *)
LEMMA ListCut ==
    ASSUME NEW n \in Pointers, NEW p, NEW first, NEW A \in SUBSET Item, List(n, p, first, A),
           NEW second \in A, second # first
    PROVE  /\ p[second] \in A
           /\ \E B, C \in SUBSET A :
                 /\ A = B \cup C /\ B \cap C = {}
                 /\ List([n EXCEPT ![p[second]] = NULL], p, first, B)
                 /\ List([n EXCEPT ![p[second]] = NULL], p, second, C)
  <1> DEFINE c == p[second]
             C == {y \in A : \A T \in SUBSET A : second \in T /\ Goes(n, T) => y \in T}
             B == A \ C
             m == [n EXCEPT ![c] = NULL]
  <1>1. /\ NULL \notin A /\ first \in A
        /\ \A x \in A : n[x] # NULL => n[x] \in A /\ n[x] # first /\ p[n[x]] = x
        /\ \A T \in SUBSET A : first \in T /\ Goes(n, T) => A \subseteq T
    BY NullIsNoItem DEF List
  <1>2. PICK y \in A : n[y] = second
    <2> SUFFICES ASSUME \A z \in A : n[z] # second PROVE FALSE
      OBVIOUS
    <2> DEFINE T == A \ {second}
    <2>1. T \in SUBSET A /\ first \in T /\ Goes(n, T)
      BY <1>1 DEF Goes
    <2>2. A \subseteq T
      BY <1>1, <2>1
    <2>3. QED BY <2>2
  <1>3. c = y /\ c \in A /\ n[c] = second /\ second # NULL /\ second \in Item
    BY <1>1, <1>2
  <1> HIDE DEF c
  <1>4. second \in C /\ C \subseteq A /\ Goes(n, C)
    <2>1. second \in C /\ C \subseteq A
      OBVIOUS
    <2>2. ASSUME NEW x \in C, n[x] # NULL PROVE n[x] \in C
      <3>1. n[x] \in A
        BY <1>1, <2>2
      <3>2. ASSUME NEW T \in SUBSET A, second \in T, Goes(n, T) PROVE n[x] \in T
        BY <2>2, <3>2 DEF Goes
      <3>3. QED BY <3>1, <3>2
    <2>3. QED BY <2>1, <2>2 DEF Goes
  <1>5. \A T \in SUBSET A : second \in T /\ Goes(n, T) => C \subseteq T
    OBVIOUS
  <1>6. first \in B
    <2> DEFINE T == A \ {first}
    <2>1. T \in SUBSET A /\ second \in T /\ Goes(n, T)
      BY <1>1 DEF Goes
    <2>2. C \subseteq T
      BY <1>5, <2>1
    <2>3. QED BY <1>1, <2>2
  <1>7. B \cup C = A /\ B \cap C = {} /\ B \subseteq A
    BY <1>4
  <1> HIDE DEF C, B
  <1>8. ASSUME NEW x \in B, n[x] \in C PROVE x = c
    <2> SUFFICES ASSUME n[x] # second PROVE FALSE
      BY <1>1, <1>3, <1>7
    <2> DEFINE T == C \ {n[x]}
    <2>1. n[x] # NULL /\ p[n[x]] = x
      BY <1>1, <1>4, <1>7, <1>8
    <2>2. ASSUME NEW z \in T, n[z] # NULL PROVE n[z] \in T
      <3>1. z \in A /\ z \in C /\ z \notin B
        BY <1>4, <1>7
      <3>2. n[z] \in C /\ p[n[z]] = z
        BY <1>1, <1>4, <2>2, <3>1 DEF Goes
      <3>3. n[z] # n[x]
        BY <2>1, <3>1, <3>2
      <3>4. QED BY <3>2, <3>3
    <2>3. T \in SUBSET A /\ second \in T /\ Goes(n, T)
      BY <1>4, <2>2 DEF Goes
    <2>4. C \subseteq T
      BY <1>5, <2>3
    <2>5. QED BY <1>8, <2>4
  <1>9. c \in B
    <2> SUFFICES ASSUME c \notin B PROVE FALSE
      OBVIOUS
    <2>1. Goes(n, B)
      <3>1. ASSUME NEW x \in B, n[x] # NULL PROVE n[x] \in B
        <4>1. n[x] \in A
          BY <1>1, <1>7, <3>1
        <4>2. n[x] \notin C
          BY <1>8
        <4>3. QED BY <1>7, <4>1, <4>2
      <3>2. QED BY <3>1 DEF Goes
    <2>2. A \subseteq B
      BY <1>1, <1>6, <1>7, <2>1
    <2>3. QED BY <1>4, <1>7, <2>2
  <1>10. \A x \in Item : m[x] = IF x = c THEN NULL ELSE n[x]
    BY DEF Pointers
  <1> HIDE DEF m
  <1>11. List(m, p, first, B)
    <2>1. ASSUME NEW x \in B, m[x] # NULL PROVE m[x] \in B /\ m[x] # first /\ p[m[x]] = x
      <3>1. x \in A /\ x \in Item /\ x # c /\ m[x] = n[x]
        BY <1>7, <1>10, <2>1
      <3>2. n[x] \in A /\ n[x] \notin C /\ n[x] # first /\ p[n[x]] = x
        BY <1>1, <1>8, <2>1, <3>1
      <3>3. QED BY <1>7, <3>1, <3>2
    <2>2. ASSUME NEW T \in SUBSET B, first \in T, Goes(m, T) PROVE B \subseteq T
      <3>1. ASSUME NEW x \in T \cup C, n[x] # NULL PROVE n[x] \in T \cup C
        <4>1. CASE x \in C
          BY <1>4, <3>1, <4>1 DEF Goes
        <4>2. CASE x = c
          BY <1>3, <1>4, <4>2
        <4>3. CASE x \in T /\ x # c
          <5>1. m[x] = n[x]
            BY <1>7, <1>10, <4>3
          <5>2. QED BY <2>2, <3>1, <4>3, <5>1 DEF Goes
        <4>4. QED BY <3>1, <4>1, <4>2, <4>3
      <3>2. T \cup C \in SUBSET A /\ Goes(n, T \cup C) /\ first \in T \cup C
        BY <1>7, <2>2, <3>1 DEF Goes
      <3>3. A \subseteq T \cup C
        BY <1>1, <3>2
      <3>4. QED BY <1>7, <3>3
    <2>3. first # NULL
      BY <1>1
    <2>4. QED BY <1>6, <2>1, <2>2, <2>3 DEF List
  <1>12. List(m, p, second, C)
    <2>1. ASSUME NEW x \in C PROVE m[x] = n[x]
      BY <1>7, <1>9, <1>10
    <2>2. ASSUME NEW x \in C, m[x] # NULL PROVE m[x] \in C /\ m[x] # second /\ p[m[x]] = x
      <3>1. n[x] \in C /\ p[n[x]] = x
        BY <1>1, <1>4, <1>7, <2>1, <2>2 DEF Goes
      <3>2. n[x] # second
        BY <1>3, <1>7, <1>9, <3>1 DEF c
      <3>3. QED BY <2>1, <3>1, <3>2
    <2>3. ASSUME NEW T \in SUBSET C, second \in T, Goes(m, T) PROVE C \subseteq T
      <3>1. Goes(n, T)
        BY <2>1, <2>3 DEF Goes
      <3>2. T \in SUBSET A
        BY <1>7
      <3>3. QED BY <1>5, <2>3, <3>1, <3>2
    <2>4. QED BY <1>3, <1>4, <2>2, <2>3 DEF List
  <1>13. B \in SUBSET A /\ C \in SUBSET A /\ A = B \cup C
    BY <1>7
  <1>14. /\ List([n EXCEPT ![p[second]] = NULL], p, first, B)
         /\ List([n EXCEPT ![p[second]] = NULL], p, second, C)
    BY <1>11, <1>12 DEF m, c
  <1>15. p[second] \in A
    BY <1>3 DEF c
  <1>16. QED BY <1>7, <1>13, <1>14, <1>15

(* What is left of a list without its first item.                           *)
LEMMA ListRest ==
    ASSUME NEW n, NEW p, NEW x, x # NULL, NEW A \in SUBSET Item, List(n, p, x, A)
    PROVE  List(n, p, n[x], A \ {x})
  <1>1. /\ NULL \notin A /\ x \in A
        /\ \A y \in A : n[y] # NULL => n[y] \in A /\ n[y] # x /\ p[n[y]] = y
        /\ \A T \in SUBSET A : x \in T /\ Goes(n, T) => A \subseteq T
    BY NullIsNoItem DEF List
  <1>2. ASSUME n[x] = NULL PROVE A \ {x} = {}
    <2>1. {x} \in SUBSET A /\ Goes(n, {x})
      BY <1>1, <1>2 DEF Goes
    <2>2. A \subseteq {x}
      BY <1>1, <2>1
    <2>3. QED BY <2>2
  <1>3. ASSUME n[x] # NULL PROVE n[x] \in A \ {x}
    BY <1>1, <1>3
  <1>4. ASSUME NEW y \in A \ {x}, n[y] # NULL
        PROVE  n[y] \in A \ {x} /\ n[y] # n[x] /\ p[n[y]] = y
    BY <1>1, <1>4
  <1>5. ASSUME NEW T \in SUBSET (A \ {x}), n[x] \in T, Goes(n, T) PROVE A \ {x} \subseteq T
    <2>1. T \cup {x} \in SUBSET A /\ Goes(n, T \cup {x})
      BY <1>1, <1>5 DEF Goes
    <2>2. A \subseteq T \cup {x}
      BY <1>1, <2>1
    <2>3. QED BY <2>2
  <1>6. QED BY <1>2, <1>3, <1>4, <1>5 DEF List

LEMMA ListRestSame ==
    ASSUME NEW n, NEW p, NEW x, x # NULL, NEW A \in SUBSET Item, List(n, p, x, A),
           NEW m, NEW q, \A z \in A \ {x} : m[z] = n[z] /\ q[z] = p[z]
    PROVE  List(m, q, n[x], A \ {x})
  <1> DEFINE Z == A \ {x}
             r == n[x]
  <1>1. Z \in SUBSET Item /\ List(n, p, r, Z) /\ \A z \in Z : m[z] = n[z] /\ q[z] = p[z]
    BY ListRest
  <1> HIDE DEF Z, r
  <1>2. List(m, q, r, Z)
    BY <1>1, ListSame
  <1>3. QED BY <1>2 DEF Z, r

LEMMA PathOne ==
    ASSUME NEW n, NEW p, NEW x
    PROVE  Path(n, p, x, x, {x})
  BY DEF Path

(* tail->next = x; x->prev = tail                                           *)
LEMMA PathGrown ==
    ASSUME NEW n \in Pointers, NEW p \in Pointers, NEW first, NEW tail, NEW R \in SUBSET Item,
           Path(n, p, first, tail, R), NEW x \in Item \ R
    PROVE  Path([n EXCEPT ![tail] = x], [p EXCEPT ![x] = tail], first, x, R \cup {x})
  <1> DEFINE m == [n EXCEPT ![tail] = x]
             q == [p EXCEPT ![x] = tail]
  <1>1. /\ first \in R /\ tail \in R
        /\ \A y \in R \ {tail} : n[y] \in R /\ n[y] # first /\ p[n[y]] = y
        /\ \A T \in SUBSET R :
              first \in T /\ (\A y \in T \ {tail} : n[y] \in T) => R \subseteq T
    BY DEF Path
  <1>2. /\ \A y \in Item : m[y] = IF y = tail THEN x ELSE n[y]
        /\ \A y \in Item : q[y] = IF y = x THEN tail ELSE p[y]
    BY DEF Pointers
  <1> HIDE DEF m, q
  <1>3. ASSUME NEW y \in (R \cup {x}) \ {x}
        PROVE  m[y] \in R \cup {x} /\ m[y] # first /\ q[m[y]] = y
    <2>1. CASE y = tail
      BY <1>1, <1>2, <2>1
    <2>2. CASE y # tail
      <3>1. n[y] \in R /\ n[y] # first /\ p[n[y]] = y /\ m[y] = n[y]
        BY <1>1, <1>2, <1>3, <2>2
      <3>2. n[y] # x
        BY <3>1
      <3>3. QED BY <1>2, <3>1, <3>2
    <2>3. QED BY <2>1, <2>2
  <1>4. ASSUME NEW T \in SUBSET (R \cup {x}), first \in T, \A y \in T \ {x} : m[y] \in T
        PROVE  R \cup {x} \subseteq T
    <2>1. ASSUME NEW y \in (T \cap R) \ {tail} PROVE n[y] \in T \cap R
      BY <1>1, <1>2, <1>4, <2>1
    <2>2. R \subseteq T \cap R
      BY <1>1, <1>4, <2>1
    <2>3. m[tail] = x /\ tail # x /\ tail \in T
      BY <1>1, <1>2, <2>2
    <2>4. x \in T
      BY <1>4, <2>3
    <2>5. QED BY <2>2, <2>4
  <1>5. Path(m, q, first, x, R \cup {x})
    BY <1>1, <1>3, <1>4 DEF Path
  <1>6. QED BY <1>5 DEF m, q

(* The same with the first item of a list, which comes along.               *)
LEMMA PathJoined ==
    ASSUME NEW n \in Pointers, NEW p \in Pointers, NEW first, NEW tail, NEW R \in SUBSET Item,
           Path(n, p, first, tail, R), NEW F \in SUBSET Item, R \cap F = {},
           NEW rest, rest # NULL, List(n, p, rest, F)
    PROVE  List([n EXCEPT ![tail] = rest], [p EXCEPT ![rest] = tail], first, R \cup F)
  <1> DEFINE m == [n EXCEPT ![tail] = rest]
             q == [p EXCEPT ![rest] = tail]
             A == R \cup F
  <1>1. /\ first \in R /\ tail \in R /\ NULL \notin A
        /\ \A y \in R \ {tail} : n[y] \in R /\ n[y] # first /\ p[n[y]] = y
        /\ \A T \in SUBSET R :
              first \in T /\ (\A y \in T \ {tail} : n[y] \in T) => R \subseteq T
    BY NullIsNoItem DEF Path
  <1>2. /\ rest \in F
        /\ \A y \in F : n[y] # NULL => n[y] \in F /\ n[y] # rest /\ p[n[y]] = y
        /\ \A T \in SUBSET F : rest \in T /\ Goes(n, T) => F \subseteq T
    BY DEF List
  <1>3. /\ \A y \in Item : m[y] = IF y = tail THEN rest ELSE n[y]
        /\ \A y \in Item : q[y] = IF y = rest THEN tail ELSE p[y]
    BY DEF Pointers
  <1> HIDE DEF m, q
  <1>4. ASSUME NEW y \in A, m[y] # NULL PROVE m[y] \in A /\ m[y] # first /\ q[m[y]] = y
    <2>1. CASE y = tail
      BY <1>1, <1>2, <1>3, <2>1
    <2>2. CASE y \in R /\ y # tail
      <3>1. n[y] \in R /\ n[y] # first /\ p[n[y]] = y /\ m[y] = n[y]
        BY <1>1, <1>3, <2>2
      <3>2. n[y] # rest
        BY <1>2, <3>1
      <3>3. QED BY <1>3, <3>1, <3>2
    <2>3. CASE y \in F
      <3>1. y # tail /\ m[y] = n[y]
        BY <1>1, <1>3, <2>3
      <3>2. n[y] \in F /\ n[y] # rest /\ p[n[y]] = y
        BY <1>2, <1>4, <2>3, <3>1
      <3>3. n[y] # first /\ q[n[y]] = y
        BY <1>1, <1>3, <3>2
      <3>4. QED BY <3>1, <3>2, <3>3
    <2>4. QED BY <2>1, <2>2, <2>3
  <1>5. ASSUME NEW T \in SUBSET A, first \in T, Goes(m, T) PROVE A \subseteq T
    <2>1. ASSUME NEW y \in (T \cap R) \ {tail} PROVE n[y] \in T \cap R
      BY <1>1, <1>3, <1>5, <2>1 DEF Goes
    <2>2. R \subseteq T \cap R
      BY <1>1, <1>5, <2>1
    <2>3. m[tail] = rest /\ tail \in T
      BY <1>1, <1>3, <2>2
    <2>4. rest \in T
      BY <1>5, <2>3 DEF Goes
    <2>5. ASSUME NEW y \in T \cap F, n[y] # NULL PROVE n[y] \in T \cap F
      <3>1. m[y] = n[y] /\ n[y] \in F
        BY <1>1, <1>2, <1>3, <2>5
      <3>2. QED BY <1>5, <2>5, <3>1 DEF Goes
    <2>6. Goes(n, T \cap F)
      BY <2>5 DEF Goes
    <2>7. F \subseteq T \cap F
      BY <1>2, <2>4, <2>6
    <2>8. QED BY <2>2, <2>7
  <1>6. List(m, q, first, A)
    BY <1>1, <1>4, <1>5 DEF List
  <1>7. QED BY <1>6 DEF m, q

(* Where there is no next, the whole list has been walked.                  *)
LEMMA ListWalked ==
    ASSUME NEW n, NEW p, NEW first, NEW A \in SUBSET Item, List(n, p, first, A),
           NEW D \in SUBSET A, NEW x \in A, n[x] = NULL, first \in D \cup {x},
           \A y \in D : n[y] \in D \cup {x}
    PROVE  A = D \cup {x}
  <1>1. Goes(n, D \cup {x})
    BY DEF Goes
  <1>2. QED BY <1>1 DEF List

(* A list, and a part of one, in which the weights ascend.                  *)
SortedList(n, p, w, first, A) == List(n, p, first, A) /\ Ascends(n, w, A)

SortedPath(n, p, w, first, tail, A) ==
    Path(n, p, first, tail, A) /\ \A x \in A \ {tail} : w[x] =< w[n[x]]

LEMMA SortedSame ==
    ASSUME NEW n, NEW p, NEW m, NEW q, NEW w, NEW first, NEW A \in SUBSET Item,
           \A x \in A : m[x] = n[x] /\ q[x] = p[x], SortedList(n, p, w, first, A)
    PROVE  SortedList(m, q, w, first, A)
  BY ListSame, AscendsSame DEF SortedList

LEMMA SortedRest ==
    ASSUME NEW n, NEW p, NEW w, NEW x, x # NULL, NEW A \in SUBSET Item,
           SortedList(n, p, w, x, A),
           NEW m, NEW q, \A z \in A \ {x} : m[z] = n[z] /\ q[z] = p[z]
    PROVE  SortedList(m, q, w, n[x], A \ {x})
  <1>1. List(m, q, n[x], A \ {x})
    BY ListRestSame DEF SortedList
  <1>2. Ascends(m, w, A \ {x})
    BY DEF SortedList, Ascends
  <1>3. QED BY <1>1, <1>2 DEF SortedList

LEMMA SortedPathGrown ==
    ASSUME NEW n \in Pointers, NEW p \in Pointers, NEW w, NEW first, NEW tail,
           NEW R \in SUBSET Item, SortedPath(n, p, w, first, tail, R),
           NEW x \in Item \ R, w[tail] =< w[x]
    PROVE  SortedPath([n EXCEPT ![tail] = x], [p EXCEPT ![x] = tail], w, first, x, R \cup {x})
  <1> DEFINE m == [n EXCEPT ![tail] = x]
  <1>1. Path(n, p, first, tail, R) /\ \A z \in R \ {tail} : w[z] =< w[n[z]]
    BY DEF SortedPath
  <1>2. Path(m, [p EXCEPT ![x] = tail], first, x, R \cup {x})
    BY <1>1, PathGrown
  <1>3. \A z \in R : m[z] = IF z = tail THEN x ELSE n[z]
    BY DEF Pointers
  <1>4. \A z \in (R \cup {x}) \ {x} : w[z] =< w[m[z]]
    BY <1>1, <1>3
  <1>5. QED BY <1>2, <1>4 DEF SortedPath

(* What is left of one list is appended.                                    *)
LEMMA Appended ==
    ASSUME NEW n \in Pointers, NEW p \in Pointers, NEW w,
           NEW R \in SUBSET Item, NEW first, NEW tail, SortedPath(n, p, w, first, tail, R),
           NEW F \in SUBSET Item, R \cap F = {},
           NEW rest, rest # NULL, SortedList(n, p, w, rest, F), w[tail] =< w[rest]
    PROVE  SortedList([n EXCEPT ![tail] = rest], [p EXCEPT ![rest] = tail], w, first, R \cup F)
  <1> DEFINE m == [n EXCEPT ![tail] = rest]
  <1>1. /\ Path(n, p, first, tail, R) /\ \A z \in R \ {tail} : w[z] =< w[n[z]]
        /\ List(n, p, rest, F) /\ Ascends(n, w, F)
    BY DEF SortedPath, SortedList
  <1>2. tail \in R /\ rest \in F /\ rest \in Item
    BY <1>1 DEF Path, List
  <1>3. \A z \in Item : m[z] = IF z = tail THEN rest ELSE n[z]
    BY DEF Pointers
  <1>4. List(m, [p EXCEPT ![rest] = tail], first, R \cup F)
    BY <1>1, PathJoined
  <1>5. Ascends(m, w, R \cup F)
    BY <1>1, <1>2, <1>3 DEF Ascends
  <1>6. QED BY <1>4, <1>5 DEF SortedList

(* The items that a merge has: R behind each other from result to tail,     *)
(* the rest of the first list and the rest of the second one.               *)
Merging(f, n, p, w, A) ==
    \E R, F, G \in SUBSET A :
       /\ A = R \cup F \cup G /\ R \cap F = {} /\ R \cap G = {} /\ F \cap G = {}
       /\ SortedList(n, p, w, f.first, F) /\ SortedList(n, p, w, f.second, G)
       /\ f.result = NULL => R = {}
       /\ f.result # NULL =>
             /\ SortedPath(n, p, w, f.result, f.tail, R)
             /\ f.first # NULL => w[f.tail] =< w[f.first]
             /\ f.second # NULL => w[f.tail] =< w[f.second]
             /\ f.first # NULL \/ f.second # NULL

(* The items that the test has passed, up to the current one.               *)
Tested(f, n, w, A) ==
    \E D \in SUBSET A :
       /\ f.first \in D \cup {f.current}
       /\ \A x \in D : n[x] \in D \cup {f.current} /\ w[x] =< w[n[x]]

(* The items of an activation are A: a list it was given, two lists it      *)
(* merges, or the half that it does not work on.                            *)
Holds(f, n, p, w, A) ==
    /\ f.at = "test" =>
          /\ f.result = f.first /\ List(n, p, f.first, A)
          /\ f.first = NULL => f.current = NULL
          /\ f.first # NULL => f.current \in A /\ Tested(f, n, w, A)
    /\ f.at = "middle" =>
          /\ List(n, p, f.first, A) /\ f.second \in A \cup {NULL}
          /\ f.second = f.first => f.current # NULL
    /\ f.at = "first" => List(n, p, f.second, A)
    /\ f.at = "second" => SortedList(n, p, w, f.first, A)
    /\ f.at = "merge" => Merging(f, n, p, w, A)

(* M is divided among k. *)
Parts(O, k, M) ==
    /\ \A i \in 1 .. k : O[i] \in SUBSET M
    /\ \A i, j \in 1 .. k : i # j => O[i] \cap O[j] = {}
    /\ \A x \in M : \E i \in 1 .. k : x \in O[i]

(* The activations hold all of M, each one its part O[i].                   *)
Held(s, b, n, p, w, M, O) ==
    /\ Parts(O, Len(s), M)
    /\ \A i \in 1 .. Len(s) : Holds(s[i], n, p, w, O[i]) /\ s[i].sensitive = b
    /\ \A i \in 2 .. Len(s) : s[i].at \in {"first", "second"}

Shared(s, b, n, p, w, M) == \E O : Held(s, b, n, p, w, M, O)

LEMMA HoldsSame ==
    ASSUME NEW n, NEW p, NEW m, NEW q, NEW w, NEW A \in SUBSET Item, NEW f,
           f.at \in {"first", "second"}, Holds(f, n, p, w, A),
           \A x \in A : m[x] = n[x] /\ q[x] = p[x]
    PROVE  Holds(f, m, q, w, A)
  <1>1. CASE f.at = "first"
    <2>1. List(n, p, f.second, A)
      BY <1>1 DEF Holds
    <2>2. List(m, q, f.second, A)
      BY <2>1, ListSame
    <2>3. QED BY <1>1, <2>2 DEF Holds
  <1>2. CASE f.at = "second"
    <2>1. SortedList(n, p, w, f.first, A)
      BY <1>2 DEF Holds
    <2>2. SortedList(m, q, w, f.first, A)
      BY <2>1, SortedSame
    <2>3. QED BY <1>2, <2>2 DEF Holds
  <1>3. QED BY <1>1, <1>2

(* One that has a part divides it with a new one.                           *)
LEMMA PartsDivided ==
    ASSUME NEW k \in Nat \ {0}, NEW M, NEW O, Parts(O, k, M),
           NEW P, O[1] = P[1] \cup P[2], P[1] \cap P[2] = {},
           \A i \in 3 .. k + 1 : P[i] = O[i - 1]
    PROVE  Parts(P, k + 1, M)
  <1>1. /\ \A i \in 1 .. k : O[i] \in SUBSET M
        /\ \A i, j \in 1 .. k : i # j => O[i] \cap O[j] = {}
        /\ \A x \in M : \E i \in 1 .. k : x \in O[i]
    BY DEF Parts
  <1>2. /\ 1 \in 1 .. k /\ 1 \in 1 .. k + 1 /\ 2 \in 1 .. k + 1
        /\ \A i \in 1 .. k + 1 : i # 1 /\ i # 2 =>
              i \in 3 .. k + 1 /\ i - 1 \in 1 .. k /\ i - 1 # 1
        /\ \A i \in 1 .. k : i # 1 => i + 1 \in 1 .. k + 1 /\ i + 1 \in 3 .. k + 1
                                      /\ (i + 1) - 1 = i
        /\ \A i, j \in 1 .. k + 1 : i # j => i - 1 # j - 1
    OBVIOUS
  <1>3. \A i \in 1 .. k + 1 : P[i] \in SUBSET M
    BY <1>1, <1>2
  <1>4. \A i \in 1 .. k + 1 : i # 1 /\ i # 2 => P[i] \cap P[1] = {} /\ P[i] \cap P[2] = {}
    BY <1>1, <1>2
  <1>5. \A i, j \in 1 .. k + 1 : i # j /\ i # 1 /\ i # 2 /\ j # 1 /\ j # 2 => P[i] \cap P[j] = {}
    BY <1>1, <1>2
  <1>6. \A i, j \in 1 .. k + 1 : i # j => P[i] \cap P[j] = {}
    BY <1>4, <1>5
  <1>7. ASSUME NEW x \in M PROVE \E i \in 1 .. k + 1 : x \in P[i]
    <2>1. PICK i \in 1 .. k : x \in O[i]
      BY <1>1
    <2>2. CASE i = 1
      BY <1>2, <2>1, <2>2
    <2>3. CASE i # 1
      BY <1>2, <2>1, <2>3
    <2>4. QED BY <2>2, <2>3
  <1>8. QED BY <1>3, <1>6, <1>7 DEF Parts

(* It takes over the part of the next one.                                  *)
LEMMA PartsUnited ==
    ASSUME NEW k \in Nat, k > 1, NEW M, NEW O, Parts(O, k, M),
           NEW P, P[1] = O[1] \cup O[2], \A i \in 2 .. k - 1 : P[i] = O[i + 1]
    PROVE  Parts(P, k - 1, M)
  <1>1. /\ \A i \in 1 .. k : O[i] \in SUBSET M
        /\ \A i, j \in 1 .. k : i # j => O[i] \cap O[j] = {}
        /\ \A x \in M : \E i \in 1 .. k : x \in O[i]
    BY DEF Parts
  <1>2. /\ 1 \in 1 .. k /\ 2 \in 1 .. k /\ 1 \in 1 .. k - 1
        /\ \A i \in 1 .. k - 1 : i # 1 =>
              i \in 2 .. k - 1 /\ i + 1 \in 1 .. k /\ i + 1 # 1 /\ i + 1 # 2
        /\ \A i \in 1 .. k : i # 1 /\ i # 2 => i - 1 \in 1 .. k - 1 /\ i - 1 \in 2 .. k - 1
                                               /\ (i - 1) + 1 = i
        /\ \A i, j \in 1 .. k - 1 : i # j => i + 1 # j + 1
    OBVIOUS
  <1>3. \A i \in 1 .. k - 1 : P[i] \in SUBSET M
    BY <1>1, <1>2
  <1>4. \A i \in 1 .. k - 1 : i # 1 => P[i] \cap P[1] = {}
    BY <1>1, <1>2
  <1>5. \A i, j \in 1 .. k - 1 : i # j /\ i # 1 /\ j # 1 => P[i] \cap P[j] = {}
    BY <1>1, <1>2
  <1>6. \A i, j \in 1 .. k - 1 : i # j => P[i] \cap P[j] = {}
    BY <1>4, <1>5
  <1>7. ASSUME NEW x \in M PROVE \E i \in 1 .. k - 1 : x \in P[i]
    <2>1. PICK i \in 1 .. k : x \in O[i]
      BY <1>1
    <2>2. CASE i = 1 \/ i = 2
      BY <1>2, <2>1, <2>2
    <2>3. CASE i # 1 /\ i # 2
      BY <1>2, <2>1, <2>3
    <2>4. QED BY <2>2, <2>3
  <1>8. QED BY <1>3, <1>6, <1>7 DEF Parts

(* The first two change their parts.                                        *)
LEMMA PartsChanged ==
    ASSUME NEW k \in Nat, k > 1, NEW M, NEW O, Parts(O, k, M),
           NEW P, P[1] = O[2], P[2] = O[1], \A i \in 3 .. k : P[i] = O[i]
    PROVE  Parts(P, k, M)
  <1> DEFINE J(i) == IF i = 1 THEN 2 ELSE IF i = 2 THEN 1 ELSE i
  <1>1. /\ \A i \in 1 .. k : O[i] \in SUBSET M
        /\ \A i, j \in 1 .. k : i # j => O[i] \cap O[j] = {}
        /\ \A x \in M : \E i \in 1 .. k : x \in O[i]
    BY DEF Parts
  <1>2. /\ \A i \in 1 .. k : J(i) \in 1 .. k /\ J(J(i)) = i
        /\ \A i \in 1 .. k : i = 1 \/ i = 2 \/ i \in 3 .. k
    OBVIOUS
  <1>3. \A i \in 1 .. k : P[i] = O[J(i)]
    BY <1>2
  <1> HIDE DEF J
  <1>4. \A i \in 1 .. k : P[i] \in SUBSET M
    BY <1>1, <1>2, <1>3
  <1>5. \A i, j \in 1 .. k : i # j => P[i] \cap P[j] = {}
    <2>1. ASSUME NEW i \in 1 .. k, NEW j \in 1 .. k, i # j PROVE P[i] \cap P[j] = {}
      <3>1. J(i) # J(j) /\ J(i) \in 1 .. k /\ J(j) \in 1 .. k
        BY <1>2, <2>1
      <3>2. QED BY <1>1, <1>3, <3>1
    <2>2. QED BY <2>1
  <1>6. ASSUME NEW x \in M PROVE \E i \in 1 .. k : x \in P[i]
    <2>1. PICK i \in 1 .. k : x \in O[i]
      BY <1>1
    <2>2. J(i) \in 1 .. k /\ P[J(i)] = O[i]
      BY <1>2, <1>3
    <2>3. QED BY <2>1, <2>2
  <1>7. QED BY <1>4, <1>5, <1>6 DEF Parts

(* One more item is found to be in order.                                   *)
LEMMA TestGoesOn ==
    ASSUME NEW n, NEW p, NEW w, NEW A \in SUBSET Item, NEW f, f.at = "test",
           Holds(f, n, p, w, A), f.current # NULL, n[f.current] # NULL,
           w[f.current] =< w[n[f.current]],
           NEW g, g.at = "test", g.first = f.first, g.result = f.result,
           g.current = n[f.current]
    PROVE  Holds(g, n, p, w, A)
  <1>1. /\ f.result = f.first /\ List(n, p, f.first, A) /\ f.first # NULL
        /\ f.current \in A /\ Tested(f, n, w, A)
    BY DEF Holds
  <1>2. g.current \in A
    BY <1>1 DEF List
  <1>3. PICK D \in SUBSET A : /\ f.first \in D \cup {f.current}
                              /\ \A x \in D : n[x] \in D \cup {f.current} /\ w[x] =< w[n[x]]
    BY <1>1 DEF Tested
  <1>4. Tested(g, n, w, A)
    <2> DEFINE H == D \cup {f.current}
    <2>1. H \in SUBSET A /\ g.first \in H \cup {g.current}
      BY <1>1, <1>3
    <2>2. \A x \in H : n[x] \in H \cup {g.current} /\ w[x] =< w[n[x]]
      BY <1>3
    <2> HIDE DEF H
    <2>3. QED BY <2>1, <2>2 DEF Tested
  <1>5. QED BY <1>1, <1>2, <1>4 DEF Holds

(* All are.                                                                 *)
LEMMA TestEnds ==
    ASSUME NEW n, NEW p, NEW w, NEW A \in SUBSET Item, NEW f, f.at = "test",
           Holds(f, n, p, w, A), f.current = NULL \/ n[f.current] = NULL
    PROVE  SortedList(n, p, w, f.result, A)
  <1>1. /\ f.result = f.first /\ List(n, p, f.first, A)
        /\ f.first # NULL => f.current \in A /\ Tested(f, n, w, A)
    BY DEF Holds
  <1>2. CASE f.first = NULL
    BY <1>1, <1>2 DEF SortedList, List, Ascends
  <1>3. CASE f.first # NULL
    <2>1. PICK D \in SUBSET A :
             /\ f.first \in D \cup {f.current}
             /\ \A x \in D : n[x] \in D \cup {f.current} /\ w[x] =< w[n[x]]
      BY <1>1, <1>3 DEF Tested
    <2>2. f.current \in A /\ n[f.current] = NULL
      BY <1>1, <1>3, NullIsNoItem
    <2>3. A = D \cup {f.current}
      BY <1>1, <2>1, <2>2, ListWalked
    <2>4. Ascends(n, w, A)
      BY <2>1, <2>2, <2>3 DEF Ascends
    <2>5. QED BY <1>1, <2>4 DEF SortedList
  <1>4. QED BY <1>2, <1>3

(* Two are not.                                                             *)
LEMMA TestFails ==
    ASSUME NEW n, NEW p, NEW w, NEW A, NEW f, f.at = "test",
           Holds(f, n, p, w, A), f.current # NULL,
           NEW g, g.at = "middle", g.first = f.first, g.second = f.first, g.current = f.first
    PROVE  Holds(g, n, p, w, A)
  <1>1. List(n, p, f.first, A) /\ f.first # NULL
    BY DEF Holds
  <1>2. f.first \in A
    BY <1>1 DEF List
  <1>3. QED BY <1>1, <1>2 DEF Holds

LEMMA MiddleMoves ==
    ASSUME NEW n, NEW p, NEW w, NEW A \in SUBSET Item, NEW f, f.at = "middle",
           Holds(f, n, p, w, A), f.second # NULL,
           NEW g, g.at = "middle", g.first = f.first, g.second = n[f.second]
    PROVE  Holds(g, n, p, w, A)
  <1>1. List(n, p, f.first, A) /\ f.second \in A
    BY DEF Holds
  <1>2. g.second \in A \cup {NULL} /\ g.second # f.first
    BY <1>1 DEF List
  <1>3. QED BY <1>1, <1>2 DEF Holds

(* second->prev->next = NULL                                                *)
Cutting(n, p, second) ==
    IF second # NULL /\ p[second] # NULL THEN [n EXCEPT ![p[second]] = NULL] ELSE n

(* A is what two activations hold, one for the other.                       *)
Halves(f, g, n, p, w, A) ==
    \E B, C : A = B \cup C /\ B \cap C = {} /\ Holds(f, n, p, w, B) /\ Holds(g, n, p, w, C)

LEMMA BeginsTest ==
    ASSUME NEW n, NEW p, NEW w, NEW A \in SUBSET Item, NEW f, f.at = "test",
           f.result = f.first, f.current = f.first, List(n, p, f.first, A)
    PROVE  Holds(f, n, p, w, A)
  <1>1. f.first # NULL => f.current \in A
    BY DEF List
  <1>2. Tested(f, n, w, A)
    <2>1. /\ {} \in SUBSET A /\ f.first \in {} \cup {f.current}
          /\ \A x \in {} : n[x] \in {} \cup {f.current} /\ w[x] =< w[n[x]]
      OBVIOUS
    <2>2. QED BY <2>1 DEF Tested
  <1>3. QED BY <1>1, <1>2 DEF Holds

(* The list becomes two.                                                    *)
LEMMA MiddleSplits ==
    ASSUME NEW n \in Pointers, NEW p, NEW w, NEW A \in SUBSET Item, NEW f, f.at = "middle",
           Holds(f, n, p, w, A), f.current = NULL,
           NEW a, a.at = "test", a.first = f.first, a.result = f.first, a.current = f.first,
           NEW b, b.at = "first", b.second = f.second,
           NEW m, m = Cutting(n, p, f.second)
    PROVE  (\A x \in Item \ A : m[x] = n[x]) /\ Halves(a, b, m, p, w, A)
  <1>1. List(n, p, f.first, A) /\ f.second \in A \cup {NULL} /\ f.second # f.first
    BY DEF Holds
  <1>2. ASSUME NEW B \in SUBSET A, List(m, p, f.first, B) PROVE Holds(a, m, p, w, B)
    BY <1>2, BeginsTest
  <1>3. CASE f.second = NULL
    <2>1. m = n
      BY <1>3 DEF Cutting
    <2>2. List(m, p, f.second, {})
      BY <1>3 DEF List
    <2>3. Holds(a, m, p, w, A) /\ Holds(b, m, p, w, {})
      BY <1>1, <1>2, <2>1, <2>2 DEF Holds
    <2>4. A = A \cup {} /\ A \cap {} = {}
      OBVIOUS
    <2>5. QED BY <2>1, <2>3, <2>4 DEF Halves
  <1>4. CASE f.second # NULL
    <2>1. /\ p[f.second] \in A
          /\ \E B, C \in SUBSET A :
                /\ A = B \cup C /\ B \cap C = {}
                /\ List([n EXCEPT ![p[f.second]] = NULL], p, f.first, B)
                /\ List([n EXCEPT ![p[f.second]] = NULL], p, f.second, C)
      BY <1>1, <1>4, ListCut
    <2>2. m = [n EXCEPT ![p[f.second]] = NULL]
      BY <1>4, <2>1, NullIsNoItem DEF Cutting
    <2>3. PICK B, C \in SUBSET A : /\ A = B \cup C /\ B \cap C = {}
                                   /\ List(m, p, f.first, B) /\ List(m, p, f.second, C)
      BY <2>1, <2>2
    <2>4. Holds(a, m, p, w, B) /\ Holds(b, m, p, w, C)
      BY <1>2, <2>3 DEF Holds
    <2>5. \A x \in Item \ A : m[x] = n[x]
      BY <2>1, <2>2 DEF Pointers
    <2>6. QED BY <2>3, <2>4, <2>5 DEF Halves
  <1>5. QED BY <1>3, <1>4

(* A turn of the merge in the activation f, which holds A, takes x off one  *)
(* of its two lists; m, q and g are next, prev and f afterwards.            *)
Takes(f, g, x, n, p, m, q, w, A) ==
    /\ n \in Pointers /\ p \in Pointers /\ A \in SUBSET Item /\ Holds(f, n, p, w, A)
    /\ f.at = "merge" /\ f.first # NULL /\ f.second # NULL
    /\ \/ x = f.first /\ w[x] =< w[f.second]
       \/ x = f.second /\ w[x] =< w[f.first]
    /\ f.result = NULL => m = n /\ q = p
    /\ f.result # NULL => m = [n EXCEPT ![f.tail] = x] /\ q = [p EXCEPT ![x] = f.tail]
    /\ g.at = "merge" /\ g.tail = x
    /\ g.result = IF f.result = NULL THEN x ELSE f.result
    /\ IF x = f.first THEN g.first = n[x] /\ g.second = f.second
                      ELSE g.first = f.first /\ g.second = n[x]

(* The lighter head of two joins those that are merged, or is the first.    *)
LEMMA MergeTakes ==
    ASSUME NEW f, NEW g, NEW x, NEW n, NEW p, NEW m, NEW q, NEW w, NEW A,
           Takes(f, g, x, n, p, m, q, w, A)
    PROVE  /\ Holds(g, m, q, w, A)
           /\ \A z \in Item \ A : m[z] = n[z] /\ q[z] = p[z]
  <1> USE DEF Takes
  <1> DEFINE r == f.result
             t == f.tail
  <1>1. PICK R, F, G \in SUBSET A :
           /\ A = R \cup F \cup G /\ R \cap F = {} /\ R \cap G = {} /\ F \cap G = {}
           /\ SortedList(n, p, w, f.first, F) /\ SortedList(n, p, w, f.second, G)
           /\ r = NULL => R = {}
           /\ r # NULL =>
                 /\ SortedPath(n, p, w, r, t, R)
                 /\ w[t] =< w[f.first] /\ w[t] =< w[f.second]
    BY DEF Holds, Merging
  <1>2. /\ R \in SUBSET Item /\ F \in SUBSET Item /\ G \in SUBSET Item
        /\ f.first \in F /\ f.second \in G
        /\ n[f.first] # NULL => w[f.first] =< w[n[f.first]]
        /\ n[f.second] # NULL => w[f.second] =< w[n[f.second]]
    BY <1>1 DEF SortedList, List, Ascends
  <1>3. /\ r = NULL => R = {} /\ m = n /\ q = p
        /\ r # NULL => /\ SortedPath(n, p, w, r, t, R) /\ w[t] =< w[x]
                       /\ m = [n EXCEPT ![t] = x] /\ q = [p EXCEPT ![x] = t]
    BY <1>1
  <1>4. x # NULL /\ x \in Item \ R /\ x \in A
    BY <1>1, <1>2
  <1>5. g.result = IF r = NULL THEN x ELSE r
    OBVIOUS
  <1> HIDE DEF r, t
  <1>6. /\ SortedPath(m, q, w, g.result, g.tail, R \cup {x})
        /\ \A z \in Item \ (R \cup {x}) : m[z] = n[z] /\ q[z] = p[z]
    <2>1. CASE r = NULL
      <3>1. R \cup {x} = {x} /\ Path(m, q, x, x, {x})
        BY <1>1, <2>1, PathOne
      <3>2. SortedPath(m, q, w, x, x, R \cup {x})
        BY <3>1 DEF SortedPath
      <3>3. g.result = x
        BY <1>5, <2>1
      <3>4. QED BY <1>3, <2>1, <3>2, <3>3
    <2>2. CASE r # NULL
      <3>1. /\ SortedPath(n, p, w, r, t, R) /\ w[t] =< w[x]
            /\ m = [n EXCEPT ![t] = x] /\ q = [p EXCEPT ![x] = t]
        BY <1>3, <2>2
      <3>2. SortedPath([n EXCEPT ![t] = x], [p EXCEPT ![x] = t], w, r, x, R \cup {x})
        BY <1>2, <1>4, <3>1, SortedPathGrown
      <3>3. g.result = r
        BY <1>5, <2>2
      <3>4. t \in R
        BY <3>1 DEF SortedPath, Path
      <3>5. \A z \in Item \ (R \cup {x}) : m[z] = n[z] /\ q[z] = p[z]
        BY <1>2, <3>1, <3>4 DEF Pointers
      <3>6. QED BY <3>1, <3>2, <3>3, <3>5
    <2>3. QED BY <2>1, <2>2
  <1>7. ASSUME NEW X \in SUBSET Item, NEW Y \in SUBSET Item, NEW y, x \in X,
               R \cap X = {}, R \cap Y = {}, X \cap Y = {},
               SortedList(n, p, w, x, X), SortedList(n, p, w, y, Y)
        PROVE  SortedList(m, q, w, n[x], X \ {x}) /\ SortedList(m, q, w, y, Y)
    <2>1. \A z \in X \ {x} : m[z] = n[z] /\ q[z] = p[z]
      BY <1>6, <1>7
    <2>2. SortedList(m, q, w, n[x], X \ {x})
      BY <1>4, <1>7, <2>1, SortedRest
    <2>3. \A z \in Y : m[z] = n[z] /\ q[z] = p[z]
      BY <1>6, <1>7
    <2>4. SortedList(m, q, w, y, Y)
      BY <1>7, <2>3, SortedSame
    <2>5. QED BY <2>2, <2>4
  <1>8. g.result # NULL
    BY <1>4, <1>5
  <1> DEFINE Q == R \cup {x}
  <1>a. \A z \in Item \ A : m[z] = n[z] /\ q[z] = p[z]
    BY <1>1, <1>4, <1>6
  <1>9. CASE x = f.first /\ w[x] =< w[f.second]
    <2> DEFINE H == F \ {x}
    <2>1. /\ SortedList(m, q, w, n[x], H) /\ SortedList(m, q, w, f.second, G)
      BY <1>1, <1>2, <1>7, <1>9
    <2>2. g.first = n[x] /\ g.second = f.second /\ g.tail = x
      BY <1>9
    <2>3. /\ Q \in SUBSET A /\ H \in SUBSET A
          /\ A = Q \cup H \cup G /\ Q \cap H = {} /\ Q \cap G = {} /\ H \cap G = {}
      BY <1>1, <1>2, <1>9
    <2>4. /\ SortedList(m, q, w, g.first, H) /\ SortedList(m, q, w, g.second, G)
          /\ g.first # NULL => w[g.tail] =< w[g.first]
          /\ g.second # NULL => w[g.tail] =< w[g.second]
          /\ g.first # NULL \/ g.second # NULL
          /\ SortedPath(m, q, w, g.result, g.tail, Q)
      BY <1>2, <1>6, <1>9, <2>1, <2>2
    <2> HIDE DEF Q, H
    <2>5. Merging(g, m, q, w, A)
      BY <1>8, <2>3, <2>4 DEF Merging
    <2>6. QED BY <1>a, <2>5 DEF Holds
  <1>10. CASE x = f.second /\ w[x] =< w[f.first]
    <2> DEFINE H == G \ {x}
    <2>1. /\ SortedList(m, q, w, n[x], H) /\ SortedList(m, q, w, f.first, F)
      BY <1>1, <1>2, <1>7, <1>10
    <2>2. g.second = n[x] /\ g.first = f.first /\ g.tail = x
      BY <1>1, <1>2, <1>10
    <2>3. /\ Q \in SUBSET A /\ H \in SUBSET A
          /\ A = Q \cup F \cup H /\ Q \cap F = {} /\ Q \cap H = {} /\ F \cap H = {}
      BY <1>1, <1>2, <1>10
    <2>4. /\ SortedList(m, q, w, g.first, F) /\ SortedList(m, q, w, g.second, H)
          /\ g.first # NULL => w[g.tail] =< w[g.first]
          /\ g.second # NULL => w[g.tail] =< w[g.second]
          /\ g.first # NULL \/ g.second # NULL
          /\ SortedPath(m, q, w, g.result, g.tail, Q)
      BY <1>2, <1>6, <1>10, <2>1, <2>2
    <2> HIDE DEF Q, H
    <2>5. Merging(g, m, q, w, A)
      BY <1>8, <2>3, <2>4 DEF Merging
    <2>6. QED BY <1>a, <2>5 DEF Holds
  <1>11. QED BY <1>9, <1>10

(* One list is left.                                                        *)
LEMMA MergeEnds ==
    ASSUME NEW n \in Pointers, NEW p \in Pointers, NEW w,
           NEW A \in SUBSET Item, NEW f, f.at = "merge", Holds(f, n, p, w, A),
           f.first = NULL \/ f.second = NULL,
           NEW m, NEW q, NEW rest, rest = IF f.first # NULL THEN f.first ELSE f.second,
           f.result = NULL => m = n /\ q = p,
           f.result # NULL =>
              IF rest = NULL THEN m = n /\ q = p
              ELSE m = [n EXCEPT ![f.tail] = rest] /\ q = [p EXCEPT ![rest] = f.tail]
    PROVE  /\ SortedList(m, q, w, IF f.result = NULL THEN rest ELSE f.result, A)
           /\ \A z \in Item \ A : m[z] = n[z] /\ q[z] = p[z]
  <1> DEFINE r == f.result
             t == f.tail
  <1>1. PICK R, F, G \in SUBSET A :
           /\ A = R \cup F \cup G /\ R \cap F = {} /\ R \cap G = {} /\ F \cap G = {}
           /\ SortedList(n, p, w, f.first, F) /\ SortedList(n, p, w, f.second, G)
           /\ r = NULL => R = {}
           /\ r # NULL =>
                 /\ SortedPath(n, p, w, r, t, R)
                 /\ f.first # NULL => w[t] =< w[f.first]
                 /\ f.second # NULL => w[t] =< w[f.second]
                 /\ f.first # NULL \/ f.second # NULL
    BY DEF Holds, Merging
  <1>2. PICK X \in SUBSET A : /\ A = R \cup X /\ R \cap X = {} /\ X \in SUBSET Item
                              /\ SortedList(n, p, w, rest, X)
    <2>1. CASE f.first # NULL
      <3>1. G = {}
        BY <1>1, <2>1 DEF SortedList, List
      <3>2. QED BY <1>1, <2>1, <3>1
    <2>2. CASE f.first = NULL
      <3>1. F = {}
        BY <1>1, <2>2 DEF SortedList, List
      <3>2. QED BY <1>1, <2>2, <3>1
    <2>3. QED BY <2>1, <2>2
  <1>3. R \in SUBSET Item
    BY <1>1
  <1>4. CASE r = NULL
    BY <1>1, <1>2, <1>4
  <1>5. CASE r # NULL
    <2>1. /\ SortedPath(n, p, w, r, t, R)
          /\ w[t] =< w[rest] /\ rest # NULL
          /\ m = [n EXCEPT ![t] = rest] /\ q = [p EXCEPT ![rest] = t]
      BY <1>1, <1>5
    <2>2. t \in A /\ rest \in A
      BY <1>1, <1>2, <2>1 DEF SortedPath, Path, SortedList, List
    <2>3. \A z \in Item \ A : m[z] = n[z] /\ q[z] = p[z]
      BY <2>1, <2>2 DEF Pointers
    <2>4. (IF f.result = NULL THEN rest ELSE f.result) = r
      BY <1>5
    <2> HIDE DEF r, t
    <2>5. SortedList([n EXCEPT ![t] = rest], [p EXCEPT ![rest] = t], w, r, R \cup X)
      BY <1>2, <1>3, <2>1, Appended
    <2>6. QED BY <1>2, <2>1, <2>3, <2>4, <2>5
  <1>6. QED BY <1>4, <1>5

-----------------------------------------------------------------------------
(* The stack.                                                               *)

LEMMA TwoDropped ==
    ASSUME NEW V, NEW s \in Seq(V), Len(s) > 1
    PROVE  /\ SubSeq(s, 3, Len(s)) \in Seq(V) /\ Len(SubSeq(s, 3, Len(s))) = Len(s) - 2
           /\ \A i \in 1 .. Len(s) - 2 : SubSeq(s, 3, Len(s))[i] = s[i + 2]
  <1>1. Len(s) \in Nat /\ Len(s) > 1
    OBVIOUS
  <1>2. SubSeq(s, 3, Len(s)) = [i \in 1 .. Len(s) - 2 |-> s[i + 2]]
    BY <1>1
  <1> DEFINE r == [i \in 1 .. Len(s) - 2 |-> s[i + 2]]
  <1>3. \A i \in 1 .. Len(s) - 2 : i + 2 \in 1 .. Len(s)
    BY <1>1
  <1>4. r \in [1 .. Len(s) - 2 -> V] /\ Len(s) - 2 \in Nat
    BY <1>1, <1>3
  <1>5. \A i \in 1 .. Len(s) - 2 : r[i] = s[i + 2]
    OBVIOUS
  <1> HIDE DEF r
  <1>6. r \in Seq(V) /\ Len(r) = Len(s) - 2
    BY <1>4
  <1>7. QED BY <1>2, <1>5, <1>6 DEF r

LEMMA TwoPopped ==
    ASSUME NEW V, NEW s \in Seq(V), Len(s) > 1, NEW f \in V, NEW g \in V,
           NEW t, t = <<f, g>> \o SubSeq(s, 3, Len(s))
    PROVE  Len(t) = Len(s) /\ t[1] = f /\ t[2] = g /\ \A i \in 3 .. Len(s) : t[i] = s[i]
  <1> DEFINE r == SubSeq(s, 3, Len(s))
  <1>1. Len(s) \in Nat /\ Len(s) > 1
    OBVIOUS
  <1>2. /\ r \in Seq(V) /\ Len(r) = Len(s) - 2 /\ t = <<f, g>> \o r
        /\ \A i \in 1 .. Len(s) - 2 : r[i] = s[i + 2]
    BY TwoDropped
  <1> HIDE DEF r
  <1>3. Len(t) = Len(s) /\ t[1] = f /\ t[2] = g /\ \A i \in 3 .. Len(s) : t[i] = r[i - 2]
    BY <1>1, <1>2
  <1>4. \A i \in 3 .. Len(s) : i - 2 \in 1 .. Len(s) - 2 /\ (i - 2) + 2 = i
    BY <1>1
  <1>5. \A i \in 3 .. Len(s) : t[i] = s[i]
    BY <1>2, <1>3, <1>4
  <1>6. QED BY <1>3, <1>5

(* Only links of A change.                                                  *)
Elsewhere(n, p, m, q, A) == \A z \in Item \ A : m[z] = n[z] /\ q[z] = p[z]

Callers(s, b, n, p, w, O) ==
    \A i \in 2 .. Len(s) : /\ Holds(s[i], n, p, w, O[i]) /\ s[i].sensitive = b
                           /\ s[i].at \in {"first", "second"}

(* What an activation does to its own items does not disturb the callers.   *)
LEMMA CallersHold ==
    ASSUME NEW s, Len(s) \in Nat \ {0}, NEW b, NEW n, NEW p, NEW m, NEW q, NEW w,
           NEW M \in SUBSET Item, NEW O, Held(s, b, n, p, w, M, O), Elsewhere(n, p, m, q, O[1])
    PROVE  Callers(s, b, m, q, w, O)
  <1> SUFFICES ASSUME NEW i \in 2 .. Len(s)
               PROVE  /\ Holds(s[i], m, q, w, O[i]) /\ s[i].sensitive = b
                      /\ s[i].at \in {"first", "second"}
    BY DEF Callers
  <1>1. Len(s) \in Nat \ {0} /\ 1 \in 1 .. Len(s) /\ i \in 1 .. Len(s) /\ i # 1
    OBVIOUS
  <1>2. /\ O[i] \in SUBSET M /\ O[i] \cap O[1] = {}
        /\ Holds(s[i], n, p, w, O[i]) /\ s[i].sensitive = b /\ s[i].at \in {"first", "second"}
    BY <1>1 DEF Held, Parts
  <1>3. O[i] \in SUBSET Item /\ \A z \in O[i] : m[z] = n[z] /\ q[z] = p[z]
    BY <1>2 DEF Elsewhere
  <1>4. Holds(s[i], m, q, w, O[i])
    BY <1>2, <1>3, HoldsSame
  <1>5. QED BY <1>2, <1>4

(* The innermost one goes on with its items.                                *)
LEMMA TopGoesOn ==
    ASSUME NEW V, NEW s \in Seq(V), s # <<>>, NEW b, NEW n, NEW p, NEW m, NEW q, NEW w,
           NEW M \in SUBSET Item, NEW O, Held(s, b, n, p, w, M, O),
           Elsewhere(n, p, m, q, O[1]),
           NEW g \in V, Holds(g, m, q, w, O[1]), g.sensitive = b,
           NEW t, t = <<g>> \o Tail(s)
    PROVE  Shared(t, b, m, q, w, M)
  <1>1. /\ Len(t) = Len(s) /\ t[1] = g /\ \A i \in 2 .. Len(s) : t[i] = s[i]
    BY Replaced
  <1>2. Callers(s, b, m, q, w, O)
    <2>1. Len(s) \in Nat \ {0}
      OBVIOUS
    <2>2. QED BY <2>1, CallersHold
  <1>3. Len(s) \in Nat /\ \A i \in 1 .. Len(s) : i = 1 \/ i \in 2 .. Len(s)
    OBVIOUS
  <1>4. \A i \in 1 .. Len(t) : Holds(t[i], m, q, w, O[i]) /\ t[i].sensitive = b
    BY <1>1, <1>2, <1>3 DEF Callers
  <1>5. \A i \in 2 .. Len(t) : t[i].at \in {"first", "second"}
    BY <1>1 DEF Held
  <1>6. Held(t, b, m, q, w, M, O)
    BY <1>1, <1>4, <1>5 DEF Held
  <1>7. QED BY <1>6 DEF Shared

(* It calls another one with some of them.                                  *)
LEMMA TopCalls ==
    ASSUME NEW V, NEW s \in Seq(V), s # <<>>, NEW b, NEW n, NEW p, NEW m, NEW q, NEW w,
           NEW M \in SUBSET Item, NEW O, Held(s, b, n, p, w, M, O),
           Elsewhere(n, p, m, q, O[1]),
           NEW B, NEW C, O[1] = B \cup C, B \cap C = {},
           NEW f \in V, Holds(f, m, q, w, B), f.sensitive = b,
           NEW g \in V, Holds(g, m, q, w, C), g.sensitive = b, g.at = "first",
           NEW t, t = <<f, g>> \o Tail(s)
    PROVE  Shared(t, b, m, q, w, M)
  <1> DEFINE k == Len(s)
             P == [i \in 1 .. k + 1 |-> IF i = 1 THEN B ELSE IF i = 2 THEN C ELSE O[i - 1]]
  <1>1. k \in Nat \ {0} /\ Tail(s) \in Seq(V) /\ Len(Tail(s)) = k - 1
        /\ \A i \in 1 .. k - 1 : Tail(s)[i] = s[i + 1]
    OBVIOUS
  <1>2. Len(t) = k + 1 /\ t[1] = f /\ t[2] = g /\ \A i \in 3 .. k + 1 : t[i] = s[i - 1]
    <2> DEFINE r == Tail(s)
    <2>1. r \in Seq(V) /\ Len(r) = k - 1 /\ \A i \in 1 .. k - 1 : r[i] = s[i + 1]
      BY <1>1
    <2>2. t = <<f, g>> \o r
      OBVIOUS
    <2> HIDE DEF r
    <2>3. /\ Len(t) = k + 1 /\ t[1] = f /\ t[2] = g
          /\ \A i \in 3 .. k + 1 : t[i] = r[i - 2]
      BY <1>1, <2>1, <2>2
    <2>4. \A i \in 3 .. k + 1 : i - 2 \in 1 .. k - 1 /\ (i - 2) + 1 = i - 1
      BY <1>1
    <2>5. \A i \in 3 .. k + 1 : t[i] = s[i - 1]
      BY <2>1, <2>3, <2>4
    <2>6. QED BY <2>3, <2>5
  <1>3. P[1] = B /\ P[2] = C /\ \A i \in 3 .. k + 1 : P[i] = O[i - 1]
    BY <1>1
  <1> HIDE DEF P
  <1>4. Parts(P, k + 1, M)
    <2>1. Parts(O, k, M)
      BY DEF Held
    <2>2. QED BY <1>1, <1>3, <2>1, PartsDivided
  <1>5. \A i \in 2 .. k : /\ Holds(s[i], m, q, w, O[i]) /\ s[i].sensitive = b
                          /\ s[i].at \in {"first", "second"}
    <2>1. Len(s) \in Nat \ {0}
      BY <1>1
    <2>2. Callers(s, b, m, q, w, O)
      BY <2>1, CallersHold
    <2>3. QED BY <2>2 DEF Callers
  <1>6. /\ \A i \in 1 .. k + 1 : i = 1 \/ i = 2 \/ i \in 3 .. k + 1
        /\ \A i \in 2 .. k + 1 : i = 2 \/ i \in 3 .. k + 1
        /\ \A i \in 3 .. k + 1 : i - 1 \in 2 .. k
    BY <1>1
  <1> HIDE DEF k
  <1>7. \A i \in 3 .. k + 1 : /\ Holds(t[i], m, q, w, P[i]) /\ t[i].sensitive = b
                              /\ t[i].at \in {"first", "second"}
    BY <1>2, <1>3, <1>5, <1>6
  <1>8. \A i \in 1 .. k + 1 : Holds(t[i], m, q, w, P[i]) /\ t[i].sensitive = b
    BY <1>2, <1>3, <1>6, <1>7
  <1>9. \A i \in 2 .. k + 1 : t[i].at \in {"first", "second"}
    BY <1>2, <1>6, <1>7
  <1>10. Held(t, b, m, q, w, M, P)
    BY <1>2, <1>4, <1>8, <1>9 DEF Held
  <1>11. QED BY <1>10 DEF Shared

(* It returns its items, and its caller calls another one with the rest.    *)
LEMMA TopChanges ==
    ASSUME NEW V, NEW s \in Seq(V), Len(s) > 1, NEW b, NEW n, NEW p, NEW m, NEW q, NEW w,
           NEW M \in SUBSET Item, NEW O, Held(s, b, n, p, w, M, O),
           Elsewhere(n, p, m, q, O[1]),
           NEW f \in V, Holds(f, m, q, w, O[2]), f.sensitive = b,
           NEW g \in V, Holds(g, m, q, w, O[1]), g.sensitive = b, g.at = "second",
           NEW t, t = <<f, g>> \o SubSeq(s, 3, Len(s))
    PROVE  Shared(t, b, m, q, w, M)
  <1> DEFINE k == Len(s)
             P == [i \in 1 .. k |-> IF i = 1 THEN O[2] ELSE IF i = 2 THEN O[1] ELSE O[i]]
  <1>1. k \in Nat /\ k > 1
    OBVIOUS
  <1>2. Len(t) = k /\ t[1] = f /\ t[2] = g /\ \A i \in 3 .. k : t[i] = s[i]
    BY TwoPopped
  <1>3. P[1] = O[2] /\ P[2] = O[1] /\ \A i \in 3 .. k : P[i] = O[i]
    BY <1>1
  <1> HIDE DEF P
  <1>4. Parts(P, k, M)
    <2>1. Parts(O, k, M)
      BY DEF Held
    <2>2. QED BY <1>1, <1>3, <2>1, PartsChanged
  <1>5. \A i \in 2 .. k : /\ Holds(s[i], m, q, w, O[i]) /\ s[i].sensitive = b
                          /\ s[i].at \in {"first", "second"}
    <2>1. Len(s) \in Nat \ {0}
      BY <1>1
    <2>2. Callers(s, b, m, q, w, O)
      BY <2>1, CallersHold
    <2>3. QED BY <2>2 DEF Callers
  <1>6. /\ \A i \in 1 .. k : i = 1 \/ i = 2 \/ i \in 3 .. k
        /\ \A i \in 2 .. k : i = 2 \/ i \in 3 .. k
        /\ \A i \in 3 .. k : i \in 2 .. k
    BY <1>1
  <1> HIDE DEF k
  <1>7. \A i \in 3 .. k : /\ Holds(t[i], m, q, w, P[i]) /\ t[i].sensitive = b
                          /\ t[i].at \in {"first", "second"}
    BY <1>2, <1>3, <1>5, <1>6
  <1>8. \A i \in 1 .. k : Holds(t[i], m, q, w, P[i]) /\ t[i].sensitive = b
    BY <1>2, <1>3, <1>6, <1>7
  <1>9. \A i \in 2 .. k : t[i].at \in {"first", "second"}
    BY <1>2, <1>6, <1>7
  <1>10. Held(t, b, m, q, w, M, P)
    BY <1>2, <1>4, <1>8, <1>9 DEF Held
  <1>11. QED BY <1>10 DEF Shared

(* It returns its items, and its caller has them and its own.               *)
LEMMA TopReturns ==
    ASSUME NEW V, NEW s \in Seq(V), Len(s) > 1, NEW b, NEW n, NEW p, NEW m, NEW q, NEW w,
           NEW M \in SUBSET Item, NEW O, Held(s, b, n, p, w, M, O),
           Elsewhere(n, p, m, q, O[1]),
           NEW h \in V, Holds(h, m, q, w, O[1] \cup O[2]), h.sensitive = b,
           NEW t, t = <<h>> \o SubSeq(s, 3, Len(s))
    PROVE  Shared(t, b, m, q, w, M)
  <1> DEFINE k == Len(s)
             P == [i \in 1 .. k - 1 |-> IF i = 1 THEN O[1] \cup O[2] ELSE O[i + 1]]
  <1>1. k \in Nat /\ k > 1
    OBVIOUS
  <1>2. Len(t) = k - 1 /\ t[1] = h /\ \A i \in 2 .. k - 1 : t[i] = s[i + 1]
    BY Popped
  <1>3. P[1] = O[1] \cup O[2] /\ \A i \in 2 .. k - 1 : P[i] = O[i + 1]
    BY <1>1
  <1> HIDE DEF P
  <1>4. Parts(P, k - 1, M)
    <2>1. Parts(O, k, M)
      BY DEF Held
    <2>2. QED BY <1>1, <1>3, <2>1, PartsUnited
  <1>5. \A i \in 2 .. k : /\ Holds(s[i], m, q, w, O[i]) /\ s[i].sensitive = b
                          /\ s[i].at \in {"first", "second"}
    <2>1. Len(s) \in Nat \ {0}
      BY <1>1
    <2>2. Callers(s, b, m, q, w, O)
      BY <2>1, CallersHold
    <2>3. QED BY <2>2 DEF Callers
  <1>6. /\ \A i \in 1 .. k - 1 : i = 1 \/ i \in 2 .. k - 1
        /\ \A i \in 2 .. k - 1 : i + 1 \in 2 .. k
    BY <1>1
  <1> HIDE DEF k
  <1>7. \A i \in 2 .. k - 1 : /\ Holds(t[i], m, q, w, P[i]) /\ t[i].sensitive = b
                              /\ t[i].at \in {"first", "second"}
    BY <1>2, <1>3, <1>5, <1>6
  <1>8. \A i \in 1 .. k - 1 : Holds(t[i], m, q, w, P[i]) /\ t[i].sensitive = b
    BY <1>2, <1>3, <1>6, <1>7
  <1>9. Held(t, b, m, q, w, M, P)
    BY <1>2, <1>4, <1>7, <1>8 DEF Held
  <1>10. QED BY <1>9 DEF Shared

(* What counts for the order: names without regard to case, and nothing in  *)
(* a case sensitive sort or when a name is missing.                         *)
Weight ==
    [x \in Item |->
        IF call.sensitive \/ (\E y \in before.members : string[y] = NULL) \/ string[x] = NULL
        THEN 0 ELSE S!ToLower(string[x].key)]

LEMMA LowerIsToLower ==
    ASSUME TypeOK, NEW x \in Item, string[x] # NULL
    PROVE  /\ string[x].key \in Key /\ string[x].key \in Nat
           /\ S!ToLower(string[x].key) = Lower[string[x].key]
           /\ S!ToLower(string[x].key) \in Nat
  <1>1. string[x].key \in Key
    BY DEF TypeOK, Name
  <1>2. /\ string[x].key \in Nat
        /\ S!ToLower(string[x].key) = Lower[string[x].key]
    BY <1>1, KeysAreCodes
  <1>3. Lower[string[x].key] \in Nat
    BY <1>1, KeysAreCodes, LowerIsFolding
  <1>4. QED BY <1>1, <1>2, <1>3

(* A member that is less weighs no more, one that is not weighs no less.    *)
LEMMA LessIsLighter ==
    ASSUME TypeOK, NEW x \in before.members, NEW y \in before.members, before.members \subseteq Item
    PROVE  /\ S!Less(x, y, call.sensitive) => Weight[x] =< Weight[y]
           /\ S!Less(x, y, FALSE) => Weight[x] =< Weight[y]
           /\ ~S!Less(x, y, FALSE) => Weight[y] =< Weight[x]
  <1>1. CASE call.sensitive \/ \E z \in before.members : string[z] = NULL
    <2>1. Weight[x] = 0 /\ Weight[y] = 0
      BY <1>1 DEF Weight
    <2>2. QED BY <2>1
  <1>2. CASE ~(call.sensitive \/ \E z \in before.members : string[z] = NULL)
    <2>1. string[x] # NULL /\ string[y] # NULL
      BY <1>2
    <2> DEFINE k == S!ToLower(string[x].key)
               l == S!ToLower(string[y].key)
    <2>2. k \in Nat /\ l \in Nat
      BY <2>1, LowerIsToLower
    <2>3. Weight[x] = k /\ Weight[y] = l
      BY <1>2, <2>1 DEF Weight
    <2>4. S!Less(x, y, FALSE) <=> k < l
      BY <2>1 DEF S!Less
    <2>5. S!Less(x, y, call.sensitive) => k < l
      BY <1>2, <2>1 DEF S!Less
    <2> HIDE DEF k, l
    <2>6. (k < l => Weight[x] =< Weight[y]) /\ (~(k < l) => Weight[y] =< Weight[x])
      BY <2>2, <2>3
    <2>7. QED BY <2>4, <2>5, <2>6
  <1>3. QED BY <1>1, <1>2

-----------------------------------------------------------------------------
(* What a list that was returned is to the caller.                          *)

LEMMA BeginsMerge ==
    ASSUME NEW n, NEW p, NEW w, NEW F \in SUBSET Item, NEW G \in SUBSET Item, F \cap G = {},
           NEW h, h.at = "merge", h.result = NULL, SortedList(n, p, w, h.first, F),
           SortedList(n, p, w, h.second, G)
    PROVE  Holds(h, n, p, w, F \cup G)
  <1> DEFINE A == F \cup G
             R == {}
  <1>1. /\ R \in SUBSET A /\ F \in SUBSET A /\ G \in SUBSET A
        /\ A = R \cup F \cup G /\ R \cap F = {} /\ R \cap G = {} /\ F \cap G = {}
    OBVIOUS
  <1>2. (h.result = NULL => R = {}) /\ ~(h.result # NULL)
    OBVIOUS
  <1> HIDE DEF A, R
  <1>3. Merging(h, n, p, w, A)
    BY <1>1, <1>2 DEF Merging
  <1>4. Holds(h, n, p, w, A)
    BY <1>3 DEF Holds
  <1>5. QED BY <1>4 DEF A

(* An activation returns the sorted list of what it holds.                  *)
SharedThen(b, m, q, w, M) ==
    IF sorting' = <<>> THEN SortedList(m, q, w, sorted', M) ELSE Shared(sorting', b, m, q, w, M)

LEMMA SharedReturns ==
    ASSUME CopyInv, sorting # <<>>, NEW b, NEW w, NEW M \in SUBSET Item, NEW O,
           Held(sorting, b, next, prev, w, M, O),
           NEW m, NEW q, Elsewhere(next, prev, m, q, O[1]),
           NEW list \in New \cup {NULL}, SortedList(m, q, w, list, O[1]), S!Returning(list)
    PROVE  SharedThen(b, m, q, w, M)
  <1> DEFINE I == New \cup {NULL}
             V == SortFrame(I)
  <1>1. SortStack(sorting, I) /\ sorting \in Seq(V) /\ Len(sorting) \in Nat \ {0}
    BY SortingNow DEF SortStack
  <1>2. CASE Len(sorting) = 1
    <2>1. sorting' = <<>> /\ sorted' = list
      BY <1>2 DEF S!Returning
    <2>2. Parts(O, 1, M)
      BY <1>2 DEF Held
    <2>3. 1 .. 1 = {1}
      OBVIOUS
    <2>4. O[1] \subseteq M /\ M \subseteq O[1]
      BY <2>2, <2>3 DEF Parts
    <2>5. O[1] = M
      BY <2>4
    <2>6. QED BY <2>1, <2>5 DEF SharedThen
  <1>3. CASE Len(sorting) # 1
    <2> DEFINE caller == sorting[2]
               r == SubSeq(sorting, 3, Len(sorting))
               f == S!Activation(caller.second, caller.sensitive)
               g == [caller EXCEPT !.at = "second", !.first = list]
               h == [caller EXCEPT !.at = "merge", !.second = list, !.result = NULL]
    <2>a. Len(sorting) > 1 /\ 2 \in 2 .. Len(sorting) /\ 1 \in 1 .. Len(sorting)
          /\ 2 \in 1 .. Len(sorting)
      <3> DEFINE k == Len(sorting)
      <3>1. k \in Nat \ {0} /\ k # 1
        BY <1>1, <1>3
      <3> HIDE DEF k
      <3>2. k > 1 /\ 2 \in 2 .. k /\ 1 \in 1 .. k /\ 2 \in 1 .. k
        BY <3>1
      <3>3. QED BY <3>2 DEF k
    <2>1. caller \in V
      BY <1>1, <1>3, SortRest
    <2>2. IF caller.at = "first" THEN sorting' = <<f, g>> \o r ELSE sorting' = <<h>> \o r
      BY <1>3 DEF S!Returning
    <2>3. /\ f \in V /\ f.at = "test" /\ f.first = caller.second /\ f.result = f.first
          /\ f.current = f.first /\ f.sensitive = caller.sensitive
          /\ g \in V /\ g.at = "second" /\ g.first = list /\ g.sensitive = caller.sensitive
          /\ h \in V /\ h.at = "merge" /\ h.first = caller.first /\ h.second = list
          /\ h.result = NULL /\ h.sensitive = caller.sensitive
      BY <2>1 DEF SortFrame, S!Activation
    <2>4. /\ caller.at \in {"first", "second"} /\ Holds(caller, m, q, w, O[2])
          /\ caller.sensitive = b
      <3>1. Callers(sorting, b, m, q, w, O)
        BY <1>1, CallersHold
      <3>2. QED BY <2>a, <3>1 DEF Callers
    <2>5. O[1] \in SUBSET Item /\ O[2] \in SUBSET Item /\ O[2] \cap O[1] = {}
      <3>1. Parts(O, Len(sorting), M)
        BY DEF Held
      <3>2. O[1] \in SUBSET M /\ O[2] \in SUBSET M /\ O[2] \cap O[1] = {}
        BY <2>a, <3>1 DEF Parts
      <3>3. QED BY <3>2
    <2>6. sorting' # <<>>
      <3>1. StackGoesOn
        BY SortReturns
      <3>2. <<f, g>> \o r # <<>> /\ <<h>> \o r # <<>>
        BY <1>1, <2>1, <2>a, TwoPopped, Popped
      <3>3. QED BY <2>2, <3>2
    <2> HIDE DEF I, V, f, g, h, r, caller
    <2>7. CASE caller.at = "first"
      <3>1. List(m, q, caller.second, O[2])
        BY <2>4, <2>7 DEF Holds
      <3>2. Holds(f, m, q, w, O[2])
        BY <2>3, <2>5, <3>1, BeginsTest
      <3>3. Holds(g, m, q, w, O[1])
        BY <2>3 DEF Holds
      <3>4. sorting' = <<f, g>> \o SubSeq(sorting, 3, Len(sorting))
        BY <2>2, <2>7 DEF r
      <3>5. Shared(sorting', b, m, q, w, M)
        BY <1>1, <2>a, <2>3, <2>4, <3>2, <3>3, <3>4, TopChanges
      <3>6. QED BY <2>6, <3>5 DEF SharedThen
    <2>8. CASE caller.at = "second"
      <3>1. SortedList(m, q, w, caller.first, O[2])
        BY <2>4, <2>8 DEF Holds
      <3>2. Holds(h, m, q, w, O[2] \cup O[1])
        BY <2>3, <2>5, <3>1, BeginsMerge
      <3>3. O[2] \cup O[1] = O[1] \cup O[2]
        OBVIOUS
      <3>4. sorting' = <<h>> \o SubSeq(sorting, 3, Len(sorting))
        BY <2>2, <2>8 DEF r
      <3>5. Shared(sorting', b, m, q, w, M)
        BY <1>1, <2>a, <2>3, <2>4, <3>2, <3>3, <3>4, TopReturns
      <3>6. QED BY <2>6, <3>5 DEF SharedThen
    <2>9. QED BY <2>4, <2>7, <2>8
  <1>4. QED BY <1>2, <1>3

-----------------------------------------------------------------------------
(* The steps of the sort.                                                   *)

(* The members are shared among the activations.                            *)
SharesMembers ==
    /\ before.members \in SUBSET Item
    /\ Shared(sorting, call.sensitive, next, prev, Weight, before.members)

SharesThen == SharedThen(call.sensitive, next', prev', Weight, before.members)

LEMMA InnermostHolds ==
    ASSUME CopyInv, sorting # <<>>, NEW b, NEW w, NEW M \in SUBSET Item, NEW O,
           Held(sorting, b, next, prev, w, M, O)
    PROVE  /\ O[1] \in SUBSET Item /\ O[1] \in SUBSET M
           /\ Holds(sorting[1], next, prev, w, O[1]) /\ sorting[1].sensitive = b
  <1>1. SortStack(sorting, New \cup {NULL})
    BY SortingNow
  <1>2. 1 \in 1 .. Len(sorting)
    BY <1>1 DEF SortStack
  <1>3. O[1] \in SUBSET M /\ Holds(sorting[1], next, prev, w, O[1]) /\ sorting[1].sensitive = b
    BY <1>2 DEF Held, Parts
  <1>4. QED BY <1>3

(* It goes on with its items, whose links may have changed.                 *)
LEMMA SharedGoesOn ==
    ASSUME CopyInv, sorting # <<>>, NEW b, NEW w, NEW M \in SUBSET Item, NEW O,
           Held(sorting, b, next, prev, w, M, O),
           NEW m, NEW q, Elsewhere(next, prev, m, q, O[1]),
           NEW g \in SortFrame(New \cup {NULL}), g.sensitive = b, Holds(g, m, q, w, O[1]),
           sorting' = <<g>> \o Tail(sorting)
    PROVE  SharedThen(b, m, q, w, M)
  <1>1. sorting \in Seq(SortFrame(New \cup {NULL}))
    BY SortingNow DEF SortStack
  <1>2. sorting' # <<>>
    BY <1>1, Replaced
  <1>3. Shared(sorting', b, m, q, w, M)
    BY <1>1, TopGoesOn
  <1>4. QED BY <1>2, <1>3 DEF SharedThen

LEMMA TestSortedShares ==
    ASSUME CopyInv, S!TestSorted, SharesMembers
    PROVE  SharesThen
  <1> DEFINE f == sorting[1]
             I == New \cup {NULL}
             b == call.sensitive
             M == before.members
             w == Weight
             g == [f EXCEPT !.current = next[f.current]]
             h == [f EXCEPT !.at = "middle", !.current = f.first]
  <1>1. sorting # <<>> /\ Head(sorting).at = "test" /\ next' = next /\ prev' = prev
    BY DEF S!TestSorted, S!Running
  <1>2. /\ f \in SortFrame(I) /\ Head(sorting) = f /\ Halving(f) /\ New \in SUBSET Item
        /\ TypeOK /\ \A x \in New : next[x] \in I /\ x # NULL
    BY <1>1, SortingNow
  <1>3. f.at = "test" /\ f.second = f.first /\ f.result \in I
    BY <1>1, <1>2 DEF Halving, SortFrame
  <1>4. IF f.current = NULL \/ next[f.current] = NULL THEN S!Returning(f.result)
        ELSE IF S!Less(f.current, next[f.current], f.sensitive)
             THEN sorting' = <<g>> \o Tail(sorting) ELSE sorting' = <<h>> \o Tail(sorting)
    BY <1>2 DEF S!TestSorted, S!Continue
  <1>5. M \in SUBSET Item
    BY DEF SharesMembers
  <1>6. PICK O : Held(sorting, b, next, prev, w, M, O)
    BY DEF SharesMembers, Shared
  <1> HIDE DEF w, b, M
  <1>7. /\ O[1] \in SUBSET Item /\ O[1] \in SUBSET M
        /\ Holds(f, next, prev, w, O[1]) /\ f.sensitive = b
    BY <1>1, <1>5, <1>6, InnermostHolds
  <1>8. Elsewhere(next, prev, next, prev, O[1])
    BY DEF Elsewhere
  <1>9. /\ f.current # NULL /\ next[f.current] # NULL =>
             /\ f.current \in M /\ next[f.current] \in M /\ f.current \in New
             /\ next[f.current] \in I
    <2> SUFFICES ASSUME f.current # NULL, next[f.current] # NULL
                 PROVE  /\ f.current \in M /\ next[f.current] \in M /\ f.current \in New
                        /\ next[f.current] \in I
      OBVIOUS
    <2>1. f.current \in New /\ next[f.current] \in I
      BY <1>2 DEF SortFrame
    <2>2. List(next, prev, f.first, O[1]) /\ (f.first = NULL => f.current = NULL)
          /\ (f.first # NULL => f.current \in O[1])
      BY <1>3, <1>7 DEF Holds
    <2>3. f.current \in O[1] /\ next[f.current] \in O[1]
      BY <2>2 DEF List
    <2>4. QED BY <1>7, <2>1, <2>3
  <1>10. SharedThen(b, next, prev, w, M)
    <2>1. CASE f.current = NULL \/ next[f.current] = NULL
      <3>1. SortedList(next, prev, w, f.result, O[1])
        BY <1>3, <1>7, <2>1, TestEnds
      <3>2. S!Returning(f.result)
        BY <1>4, <2>1
      <3> HIDE DEF f
      <3>3. QED BY <1>1, <1>3, <1>5, <1>6, <1>8, <3>1, <3>2, SharedReturns DEF I
    <2>2. CASE /\ f.current # NULL /\ next[f.current] # NULL
               /\ S!Less(f.current, next[f.current], f.sensitive)
      <3>1. sorting' = <<g>> \o Tail(sorting)
        BY <1>4, <2>2
      <3>2. w[f.current] =< w[next[f.current]]
        BY <1>2, <1>5, <1>7, <1>9, <2>2, LessIsLighter DEF w, M, b
      <3>3. /\ g \in SortFrame(I) /\ g.at = "test" /\ g.first = f.first /\ g.result = f.result
            /\ g.current = next[f.current] /\ g.sensitive = b
        BY <1>2, <1>3, <1>7, <1>9, <2>2 DEF SortFrame
      <3> HIDE DEF g, f
      <3>4. Holds(g, next, prev, w, O[1])
        BY <1>3, <1>7, <2>2, <3>2, <3>3, TestGoesOn
      <3>5. QED BY <1>1, <1>5, <1>6, <1>8, <3>1, <3>3, <3>4, SharedGoesOn DEF I
    <2>3. CASE /\ f.current # NULL /\ next[f.current] # NULL
               /\ ~S!Less(f.current, next[f.current], f.sensitive)
      <3>1. sorting' = <<h>> \o Tail(sorting)
        BY <1>4, <2>3
      <3>2. /\ h \in SortFrame(I) /\ h.at = "middle" /\ h.first = f.first /\ h.second = f.first
            /\ h.current = f.first /\ h.sensitive = b
        BY <1>2, <1>3, <1>7 DEF SortFrame
      <3> HIDE DEF h, f
      <3>3. Holds(h, next, prev, w, O[1])
        BY <1>3, <1>7, <2>3, <3>2, TestFails
      <3>4. QED BY <1>1, <1>5, <1>6, <1>8, <3>1, <3>2, <3>3, SharedGoesOn DEF I
    <2>4. QED BY <2>1, <2>2, <2>3
  <1>11. QED BY <1>1, <1>10 DEF SharesThen, b, w, M

LEMMA WalkTwoShares ==
    ASSUME CopyInv, S!WalkTwo, SharesMembers
    PROVE  SharesThen
  <1> DEFINE f == sorting[1]
             I == New \cup {NULL}
             b == call.sensitive
             M == before.members
             w == Weight
             one == next[f.current]
             two == IF one = NULL THEN NULL ELSE next[one]
             g == [f EXCEPT !.second = next[f.second], !.current = two]
  <1>1. sorting # <<>> /\ Head(sorting).at = "middle" /\ next' = next /\ prev' = prev
        /\ Head(sorting).current # NULL
    BY DEF S!WalkTwo, S!Running
  <1>2. /\ f \in SortFrame(I) /\ Head(sorting) = f /\ Halving(f) /\ New \in SUBSET Item
        /\ TypeOK /\ \A x \in New : next[x] \in I /\ x # NULL
    BY <1>1, SortingNow
  <1>3. sorting' = <<g>> \o Tail(sorting) /\ f.at = "middle" /\ f.current # NULL
    BY <1>1, <1>2 DEF S!WalkTwo, S!Continue
  <1>4. f.second \in New /\ f.current \in New /\ f.second # NULL
    BY <1>2, <1>3 DEF SortFrame, Halving
  <1>5. one \in I /\ two \in I /\ next[f.second] \in I
    BY <1>2, <1>4
  <1>6. M \in SUBSET Item
    BY DEF SharesMembers
  <1>7. PICK O : Held(sorting, b, next, prev, w, M, O)
    BY DEF SharesMembers, Shared
  <1> HIDE DEF one, two, w, b, M
  <1>8. /\ O[1] \in SUBSET Item /\ Holds(f, next, prev, w, O[1]) /\ f.sensitive = b
    BY <1>1, <1>6, <1>7, InnermostHolds
  <1>9. /\ g \in SortFrame(I) /\ g.at = "middle" /\ g.second = next[f.second]
        /\ g.first = f.first /\ g.sensitive = b
    <2> DEFINE s == next[f.second]
    <2>1. s \in I
      BY <1>5
    <2> HIDE DEF s
    <2>2. LET k == [f EXCEPT !.second = s, !.current = two]
          IN  /\ k \in SortFrame(I) /\ k.at = "middle" /\ k.second = s /\ k.first = f.first
              /\ k.sensitive = f.sensitive
      BY <1>2, <1>3, <1>5, <2>1 DEF SortFrame
    <2>3. QED BY <1>8, <2>2 DEF s
  <1> HIDE DEF g, f
  <1>10. Holds(g, next, prev, w, O[1])
    BY <1>3, <1>4, <1>8, <1>9, MiddleMoves
  <1>11. Elsewhere(next, prev, next, prev, O[1])
    BY DEF Elsewhere
  <1>12. SharedThen(b, next, prev, w, M)
    BY <1>1, <1>3, <1>6, <1>7, <1>9, <1>10, <1>11, SharedGoesOn DEF I
  <1>13. QED BY <1>1, <1>12 DEF SharesThen, b, w, M

LEMMA SplitShares ==
    ASSUME CopyInv, S!Split, SharesMembers
    PROVE  SharesThen
  <1> DEFINE f == sorting[1]
             I == New \cup {NULL}
             V == SortFrame(I)
             b == call.sensitive
             M == before.members
             w == Weight
             a == S!Activation(f.first, f.sensitive)
             g == [f EXCEPT !.at = "first"]
  <1>1. sorting # <<>> /\ Head(sorting).at = "middle" /\ Head(sorting).current = NULL
    BY DEF S!Split, S!Running
  <1>2. /\ f \in V /\ Head(sorting) = f /\ TypeOK /\ sorting \in Seq(V)
    BY <1>1, SortingNow DEF SortStack
  <1>3. /\ next' = IF f.second # NULL /\ prev[f.second] # NULL
                   THEN [next EXCEPT ![prev[f.second]] = NULL] ELSE next
        /\ sorting' = <<a, g>> \o Tail(sorting) /\ prev' = prev
    BY <1>2 DEF S!Split, S!Cut
  <1>4. next \in Pointers
    BY <1>2 DEF TypeOK, Pointers
  <1>5. M \in SUBSET Item
    BY DEF SharesMembers
  <1>6. PICK O : Held(sorting, b, next, prev, w, M, O)
    BY DEF SharesMembers, Shared
  <1> HIDE DEF w, b, M
  <1>7. /\ O[1] \in SUBSET Item /\ Holds(f, next, prev, w, O[1]) /\ f.sensitive = b
    BY <1>1, <1>5, <1>6, InnermostHolds
  <1>8. f.at = "middle" /\ f.current = NULL
    BY <1>1, <1>2
  <1>9. /\ a \in V /\ a.at = "test" /\ a.first = f.first /\ a.result = f.first
        /\ a.current = f.first /\ a.sensitive = b
        /\ g \in V /\ g.at = "first" /\ g.second = f.second /\ g.sensitive = b
    BY <1>2, <1>7 DEF SortFrame, S!Activation
  <1> HIDE DEF a, g, f
  <1>10. /\ \A x \in Item \ O[1] : next'[x] = next[x]
         /\ Halves(a, g, next', prev, w, O[1])
    <2> DEFINE A == O[1]
               m == next'
    <2>1. A \in SUBSET Item /\ Holds(f, next, prev, w, A)
      BY <1>7
    <2>2. m = Cutting(next, prev, f.second)
      BY <1>3 DEF Cutting
    <2>3. /\ a.at = "test" /\ a.first = f.first /\ a.result = f.first /\ a.current = f.first
          /\ g.at = "first" /\ g.second = f.second
      BY <1>9
    <2> HIDE DEF A, m
    <2>4. (\A x \in Item \ A : m[x] = next[x]) /\ Halves(a, g, m, prev, w, A)
      BY <1>4, <1>8, <2>1, <2>2, <2>3, MiddleSplits
    <2>5. QED BY <2>4 DEF A, m
  <1>11. PICK B, C : /\ O[1] = B \cup C /\ B \cap C = {}
                     /\ Holds(a, next', prev, w, B) /\ Holds(g, next', prev, w, C)
    BY <1>10 DEF Halves
  <1>12. Elsewhere(next, prev, next', prev, O[1])
    BY <1>10 DEF Elsewhere
  <1> HIDE DEF V
  <1>13. Shared(sorting', b, next', prev, w, M)
    BY <1>1, <1>2, <1>3, <1>5, <1>6, <1>9, <1>11, <1>12, TopCalls
  <1>14. sorting' # <<>>
    <2>1. Len(Tail(sorting)) \in Nat /\ Tail(sorting) \in Seq(V)
      BY <1>1, <1>2
    <2>2. <<a, g>> \o Tail(sorting) # <<>>
      BY <1>9, <2>1
    <2>3. QED BY <1>3, <2>2
  <1>15. SharedThen(b, next', prev, w, M)
    BY <1>13, <1>14 DEF SharedThen
  <1>16. QED BY <1>3, <1>15 DEF SharesThen, b, w, M

LEMMA MergeShares ==
    ASSUME CopyInv, S!Merge, SharesMembers
    PROVE  SharesThen
  <1> DEFINE f == sorting[1]
             I == New \cup {NULL}
             b == call.sensitive
             M == before.members
             w == Weight
             x == IF S!Less(f.first, f.second, FALSE) THEN f.first ELSE f.second
             r == IF f.result = NULL THEN x ELSE f.result
             k == [f EXCEPT !.result = r, !.tail = x]
             h == IF x = f.first THEN [k EXCEPT !.first = next[x]]
                                 ELSE [k EXCEPT !.second = next[x]]
  <1>1. sorting # <<>> /\ Head(sorting).at = "merge"
    BY DEF S!Merge, S!Running
  <1>2. /\ f \in SortFrame(I) /\ Head(sorting) = f /\ TypeOK
        /\ \A y \in New : next[y] \in I /\ y # NULL
    BY <1>1, SortingNow
  <1>3. /\ f.first # NULL /\ f.second # NULL /\ f.at = "merge"
        /\ IF f.result = NULL THEN UNCHANGED <<next, prev>> ELSE S!Follows(f.tail, x)
        /\ sorting' = <<h>> \o Tail(sorting)
    BY <1>1, <1>2 DEF S!Merge, S!Continue, S!Advanced
  <1>4. next \in Pointers /\ prev \in Pointers
    BY <1>2 DEF TypeOK, Pointers
  <1>5. M \in SUBSET Item
    BY DEF SharesMembers
  <1>6. PICK O : Held(sorting, b, next, prev, w, M, O)
    BY DEF SharesMembers, Shared
  <1> HIDE DEF w, b, M
  <1>7. /\ O[1] \in SUBSET Item /\ O[1] \in SUBSET M
        /\ Holds(f, next, prev, w, O[1]) /\ f.sensitive = b
    BY <1>1, <1>5, <1>6, InnermostHolds
  <1>8. f.first \in M /\ f.second \in M
    <2>1. Merging(f, next, prev, w, O[1])
      BY <1>3, <1>7 DEF Holds
    <2>2. f.first \in O[1] /\ f.second \in O[1]
      BY <1>3, <2>1 DEF Merging, SortedList, List
    <2>3. QED BY <1>7, <2>2
  <1>9. \/ x = f.first /\ w[x] =< w[f.second]
        \/ x = f.second /\ w[x] =< w[f.first]
    BY <1>2, <1>5, <1>8, LessIsLighter DEF w, M
  <1>10. x \in New /\ x \in {f.first, f.second}
    BY <1>2, <1>3 DEF SortFrame
  <1> HIDE DEF x
  <1>11. r \in I /\ x \in I /\ next[x] \in I
    BY <1>2, <1>10 DEF SortFrame
  <1>12. /\ h \in SortFrame(I) /\ h.at = "merge" /\ h.tail = x /\ h.result = r
         /\ IF x = f.first THEN h.first = next[x] /\ h.second = f.second
                           ELSE h.first = f.first /\ h.second = next[x]
         /\ h.sensitive = b
    <2> DEFINE y == next[x]
    <2>1. y \in I
      BY <1>11
    <2> HIDE DEF y, r
    <2>2. /\ k \in SortFrame(I) /\ k.at = "merge" /\ k.tail = x /\ k.result = r
          /\ k.first = f.first /\ k.second = f.second /\ k.sensitive = b
      BY <1>2, <1>3, <1>7, <1>11 DEF SortFrame
    <2> HIDE DEF k
    <2>3. LET d == [k EXCEPT !.first = y]
              e == [k EXCEPT !.second = y]
          IN  /\ d \in SortFrame(I) /\ d.at = "merge" /\ d.tail = x /\ d.result = r
              /\ d.first = y /\ d.second = f.second /\ d.sensitive = b
              /\ e \in SortFrame(I) /\ e.at = "merge" /\ e.tail = x /\ e.result = r
              /\ e.first = f.first /\ e.second = y /\ e.sensitive = b
      BY <2>1, <2>2 DEF SortFrame
    <2>4. CASE x = f.first
      BY <2>3, <2>4 DEF y
    <2>5. CASE x # f.first
      BY <2>3, <2>5 DEF y
    <2>6. QED BY <2>4, <2>5
  <1>13. /\ f.result = NULL => next' = next /\ prev' = prev
         /\ f.result # NULL => /\ next' = [next EXCEPT ![f.tail] = x]
                               /\ prev' = [prev EXCEPT ![x] = f.tail]
    BY <1>3 DEF S!Follows
  <1>14. h.result = IF f.result = NULL THEN x ELSE f.result
    BY <1>12
  <1> HIDE DEF h, f, r
  <1>15. /\ Holds(h, next', prev', w, O[1])
         /\ \A z \in Item \ O[1] : next'[z] = next[z] /\ prev'[z] = prev[z]
    <2> DEFINE A == O[1]
               m == next'
               q == prev'
    <2>1. A \in SUBSET Item /\ Holds(f, next, prev, w, A)
      BY <1>7
    <2>2. f.at = "merge" /\ f.first # NULL /\ f.second # NULL
      BY <1>3
    <2>3. h.at = "merge" /\ h.tail = x
      BY <1>12
    <2>4. IF x = f.first THEN h.first = next[x] /\ h.second = f.second
                         ELSE h.first = f.first /\ h.second = next[x]
      BY <1>12
    <2>5. f.result = NULL => m = next /\ q = prev
      BY <1>13
    <2>6. f.result # NULL => m = [next EXCEPT ![f.tail] = x] /\ q = [prev EXCEPT ![x] = f.tail]
      BY <1>13
    <2> HIDE DEF A, m, q, k, I
    <2>7. Takes(f, h, x, next, prev, m, q, w, A)
      BY <1>4, <1>9, <1>14, <2>1, <2>2, <2>3, <2>4, <2>5, <2>6 DEF Takes
    <2>8. Holds(h, m, q, w, A) /\ \A z \in Item \ A : m[z] = next[z] /\ q[z] = prev[z]
      BY <2>7, MergeTakes
    <2>9. QED BY <2>8 DEF A, m, q
  <1>16. Elsewhere(next, prev, next', prev', O[1])
    BY <1>15 DEF Elsewhere
  <1>17. SharedThen(b, next', prev', w, M)
    BY <1>1, <1>3, <1>5, <1>6, <1>12, <1>15, <1>16, SharedGoesOn DEF I
  <1>18. QED BY <1>17 DEF SharesThen, b, w, M

LEMMA AppendRestShares ==
    ASSUME CopyInv, S!AppendRest, SharesMembers
    PROVE  SharesThen
  <1> DEFINE f == sorting[1]
             I == New \cup {NULL}
             b == call.sensitive
             M == before.members
             w == Weight
             rest == IF f.first # NULL THEN f.first ELSE f.second
             list == IF f.result = NULL THEN rest ELSE f.result
  <1>1. sorting # <<>> /\ Head(sorting).at = "merge"
    BY DEF S!AppendRest, S!Running
  <1>2. f \in SortFrame(I) /\ Head(sorting) = f /\ TypeOK
    BY <1>1, SortingNow
  <1>3. /\ f.at = "merge" /\ (f.first = NULL \/ f.second = NULL)
        /\ f.result = NULL => S!Returning(rest) /\ next' = next /\ prev' = prev
        /\ f.result # NULL =>
              /\ IF rest = NULL THEN next' = next /\ prev' = prev ELSE S!Follows(f.tail, rest)
              /\ S!Returning(f.result)
    BY <1>1, <1>2 DEF S!AppendRest
  <1>4. next \in Pointers /\ prev \in Pointers
    BY <1>2 DEF TypeOK, Pointers
  <1>5. M \in SUBSET Item
    BY DEF SharesMembers
  <1>6. PICK O : Held(sorting, b, next, prev, w, M, O)
    BY DEF SharesMembers, Shared
  <1> HIDE DEF w, b, M
  <1>7. O[1] \in SUBSET Item /\ Holds(f, next, prev, w, O[1])
    BY <1>1, <1>5, <1>6, InnermostHolds
  <1>8. rest \in I /\ list \in I
    BY <1>2 DEF SortFrame
  <1>9. S!Returning(list)
    BY <1>3
  <1>10. /\ f.result = NULL => next' = next /\ prev' = prev
         /\ f.result # NULL =>
               IF rest = NULL THEN next' = next /\ prev' = prev
               ELSE next' = [next EXCEPT ![f.tail] = rest] /\ prev' = [prev EXCEPT ![rest] = f.tail]
    BY <1>3 DEF S!Follows
  <1>11. rest = IF f.first # NULL THEN f.first ELSE f.second
    OBVIOUS
  <1>12. list = IF f.result = NULL THEN rest ELSE f.result
    OBVIOUS
  <1> HIDE DEF f, rest, list
  <1>13. /\ SortedList(next', prev', w, IF f.result = NULL THEN rest ELSE f.result, O[1])
         /\ \A z \in Item \ O[1] : next'[z] = next[z] /\ prev'[z] = prev[z]
    BY <1>3, <1>4, <1>7, <1>10, <1>11, MergeEnds
  <1>14. SortedList(next', prev', w, list, O[1])
    BY <1>12, <1>13
  <1>15. Elsewhere(next, prev, next', prev', O[1])
    BY <1>13 DEF Elsewhere
  <1>16. SharedThen(b, next', prev', w, M)
    BY <1>1, <1>5, <1>6, <1>8, <1>9, <1>14, <1>15, SharedReturns DEF I
  <1>17. QED BY <1>16 DEF SharesThen, b, w, M

-----------------------------------------------------------------------------
(* The invariant of the sort.                                               *)

(* Each member is less than the next one, as the test sees it.              *)
WasInOrder ==
    \A x \in before.members :
        before.next[x] # NULL => S!Less(x, before.next[x], call.sensitive)

(* What was in order is tested and left alone.                              *)
LeftAlone ==
    /\ \A x \in before.members : next[x] = before.next[x]
    /\ sorting # <<>> =>
          Len(sorting) = 1 /\ sorting[1].at = "test" /\ sorting[1].result = before.first
    /\ sorting = <<>> => child[call.object] = before.first

SortedInv ==
    call.name = "sort" =>
        /\ before.members \in SUBSET Item
        /\ sorting # <<>> => SharesMembers
        /\ sorting = <<>> =>
              SortedList(next, prev, Weight, child[call.object], before.members)
        /\ WasInOrder => LeftAlone

(* What an object of a copy has is a list.                                  *)
LEMMA KidsAreList ==
    ASSUME CopyInv, Linked(next, prev, child, New), NEW object \in New
    PROVE  Kids(object) \in SUBSET Item /\ List(next, prev, child[object], Kids(object))
  <1> DEFINE first == child[object]
             A == Kids(object)
  <1>1. /\ TypeOK /\ New \in SUBSET Item /\ first \in New \cup {NULL}
        /\ \A x \in New : next[x] \in New \cup {NULL} /\ x # NULL
        /\ \A x \in New : next[x] # NULL => prev[next[x]] = x
        /\ first # NULL => prev[first] = NULL
    BY NullIsNoItem DEF CopyInv, TypesInv, TypeOK, NewInv, Linked, New
  <1>2. CASE first = NULL
    <2>1. A = {}
      BY <1>2 DEF Kids
    <2>2. QED BY <1>2, <2>1 DEF List
  <1>3. CASE first # NULL
    <2>1. first \in Item /\ first \in New /\ A = Chain(first)
      BY <1>1, <1>3 DEF Kids
    <2> HIDE DEF first, A
    <2>2. first \in A /\ NextClosed(A) /\ A \in SUBSET Item
      BY <1>1, <2>1, ChainClosed
    <2>3. A \subseteq New
      <3>1. NextClosed(New)
        BY <1>1 DEF NextClosed
      <3>2. QED BY <1>1, <2>1, <3>1, ChainLeast
    <2>4. \A x \in A : next[x] # NULL => next[x] \in A /\ next[x] # first /\ prev[next[x]] = x
      BY <1>1, <1>3, <2>2, <2>3 DEF NextClosed
    <2>5. ASSUME NEW T \in SUBSET A, first \in T, Goes(next, T) PROVE A \subseteq T
      <3>1. T \in SUBSET Item /\ NextClosed(T)
        BY <2>2, <2>5 DEF Goes, NextClosed
      <3>2. QED BY <2>1, <2>5, <3>1, ChainLeast
    <2>6. List(next, prev, first, A)
      BY <1>3, <2>2, <2>4, <2>5 DEF List
    <2>7. QED BY <2>2, <2>6 DEF first, A
  <1>4. QED BY <1>2, <1>3

LEMMA SharedByOne ==
    ASSUME NEW n, NEW p, NEW w, NEW A \in SUBSET Item, NEW f, f.at = "test",
           f.result = f.first, f.current = f.first, List(n, p, f.first, A)
    PROVE  Shared(<<f>>, f.sensitive, n, p, w, A)
  <1>1. Holds(f, n, p, w, A)
    BY BeginsTest
  <1> DEFINE s == <<f>>
             O == <<A>>
  <1>2. Len(s) = 1 /\ s[1] = f /\ O[1] = A /\ 1 .. 1 = {1} /\ 2 .. 1 = {}
    OBVIOUS
  <1> HIDE DEF s, O
  <1>3. Parts(O, 1, A)
    BY <1>2 DEF Parts
  <1>4. Held(s, f.sensitive, n, p, w, A, O)
    BY <1>1, <1>2, <1>3 DEF Held
  <1>5. QED BY <1>4 DEF Shared, s

LEMMA SortObjectSorted ==
    ASSUME CopyInv, BackInv, NEW object \in Item, NEW sensitive \in BOOLEAN,
           SortObject(object, sensitive)
    PROVE  SortedInv'
  <1> DEFINE f == S!Activation(child[object], sensitive)
             A == Kids(object)
  <1>1. /\ call.name = "copy" /\ object \in isObject \ before.items /\ sorting' = <<f>>
        /\ call' = [name |-> "sort", object |-> object, sensitive |-> sensitive]
        /\ before' = [before EXCEPT !.first = child[object], !.members = A, !.next = next]
        /\ next' = next /\ prev' = prev
    BY DEF SortObject, S!Sort
  <1>2. /\ before'.first = child[object] /\ before'.members = A /\ before'.next = next
        /\ call'.sensitive = sensitive
    BY <1>1 DEF CopyInv, TypesInv, Snapshot
  <1>3. object \in New /\ Linked(next, prev, child, New)
    BY <1>1 DEF CopyInv, TypesInv, TypeOK, New, BackInv
  <1>4. A \in SUBSET Item /\ List(next, prev, child[object], A)
    BY <1>3, KidsAreList
  <1>5. /\ f.at = "test" /\ f.first = child[object] /\ f.result = f.first /\ f.current = f.first
        /\ f.sensitive = sensitive
    BY DEF S!Activation
  <1> HIDE DEF f, A
  <1>6. Shared(<<f>>, sensitive, next, prev, Weight', A)
    <2> DEFINE w == Weight'
    <2> HIDE DEF w
    <2>1. Shared(<<f>>, f.sensitive, next, prev, w, A)
      BY <1>4, <1>5, SharedByOne
    <2>2. QED BY <1>5, <2>1 DEF w
  <1>7. SharesMembers'
    BY <1>1, <1>2, <1>4, <1>6 DEF SharesMembers
  <1>8. sorting' # <<>> /\ Len(sorting') = 1 /\ sorting'[1] = f
    BY <1>1
  <1>9. LeftAlone'
    BY <1>1, <1>2, <1>5, <1>8 DEF LeftAlone
  <1>10. QED BY <1>2, <1>4, <1>7, <1>8, <1>9 DEF SortedInv

(* A list that was in order is only tested.                                 *)
LEMMA SortingLeavesAlone ==
    ASSUME CopyInv, S!SortStep, SharesMembers, WasInOrder, LeftAlone
    PROVE  /\ next' = next
           /\ sorting' # <<>> =>
                 /\ Len(sorting') = 1 /\ sorting'[1].at = "test"
                 /\ sorting'[1].result = before.first
           /\ sorting' = <<>> => sorted' = before.first
  <1> DEFINE f == sorting[1]
             I == New \cup {NULL}
             M == before.members
             b == call.sensitive
             g == [f EXCEPT !.current = next[f.current]]
  <1>1. sorting # <<>>
    BY DEF S!SortStep, S!TestSorted, S!WalkTwo, S!Split, S!Merge, S!AppendRest, S!Running
  <1>2. /\ f \in SortFrame(I) /\ Head(sorting) = f /\ sorting \in Seq(SortFrame(I))
        /\ New \in SUBSET Item /\ \A x \in New : next[x] \in I /\ x # NULL
    BY <1>1, SortingNow DEF SortStack
  <1>3. Len(sorting) = 1 /\ f.at = "test" /\ f.result = before.first
    BY <1>1 DEF LeftAlone
  <1>4. S!TestSorted
    BY <1>2, <1>3 DEF S!SortStep, S!WalkTwo, S!Split, S!Merge, S!AppendRest, S!Running
  <1>5. /\ next' = next
        /\ IF f.current = NULL \/ next[f.current] = NULL THEN S!Returning(f.result)
           ELSE S!Less(f.current, next[f.current], f.sensitive) =>
                   sorting' = <<g>> \o Tail(sorting)
    BY <1>2, <1>4 DEF S!TestSorted, S!Continue
  <1>6. CASE f.current = NULL \/ next[f.current] = NULL
    <2>1. sorting' = <<>> /\ sorted' = f.result
      BY <1>3, <1>5, <1>6 DEF S!Returning
    <2>2. QED BY <1>3, <1>5, <2>1
  <1>7. CASE f.current # NULL /\ next[f.current] # NULL
    <2>1. M \in SUBSET Item
      BY DEF SharesMembers
    <2>2. PICK O : Held(sorting, b, next, prev, Weight, M, O)
      BY DEF SharesMembers, Shared
    <2>3. O[1] \in SUBSET M /\ Holds(f, next, prev, Weight, O[1]) /\ f.sensitive = b
      BY <1>1, <2>1, <2>2, InnermostHolds
    <2>4. f.current \in O[1]
      BY <1>3, <1>7, <2>3 DEF Holds
    <2>5. f.current \in M /\ next[f.current] = before.next[f.current]
      BY <2>3, <2>4 DEF LeftAlone
    <2>6. S!Less(f.current, next[f.current], f.sensitive)
      BY <1>7, <2>3, <2>5 DEF WasInOrder
    <2>7. sorting' = <<g>> \o Tail(sorting)
      BY <1>5, <1>7, <2>6
    <2>8. next[f.current] \in I
      BY <1>2, <1>7 DEF SortFrame
    <2>9. g \in SortFrame(I) /\ g.at = "test" /\ g.result = f.result
      BY <1>2, <1>3, <2>8 DEF SortFrame
    <2> HIDE DEF g, f
    <2>10. Len(sorting') = Len(sorting) /\ sorting'[1] = g
      BY <1>1, <1>2, <2>7, <2>9, Replaced
    <2>11. sorting' # <<>>
      BY <1>3, <2>10
    <2>12. QED BY <1>3, <1>5, <2>9, <2>10, <2>11
  <1>8. QED BY <1>6, <1>7

LEMMA SortingSorted ==
    ASSUME CopyInv, CopyInv', SortedInv, Sorting
    PROVE  SortedInv'
  <1>1. /\ S!SortStep
        /\ child' = IF sorting' = <<>> THEN [child EXCEPT ![call.object] = sorted'] ELSE child
        /\ UNCHANGED <<string, call, before>>
    BY DEF Sorting, names
  <1>2. sorting # <<>>
    BY <1>1 DEF S!SortStep, S!TestSorted, S!WalkTwo, S!Split, S!Merge, S!AppendRest, S!Running
  <1>3. call.name = "sort" /\ call.object \in Item
    BY <1>2 DEF CopyInv, CallInv, TypesInv, TypeOK, New
  <1>4. SharesMembers /\ before.members \in SUBSET Item
    BY <1>2, <1>3 DEF SortedInv
  <1>5. SharesThen
    BY <1>1, <1>4, TestSortedShares, WalkTwoShares, SplitShares, MergeShares, AppendRestShares
       DEF S!SortStep
  <1>6. Weight' = Weight
    BY <1>1 DEF Weight
  <1>7. sorting' = <<>> => child'[call.object] = sorted'
    BY <1>1, <1>3 DEF CopyInv, TypesInv, TypeOK
  <1>8. sorting' # <<>> => SharesMembers'
    BY <1>1, <1>4, <1>5, <1>6 DEF SharesThen, SharedThen, SharesMembers
  <1>9. sorting' = <<>> => SortedList(next', prev', Weight', child'[call'.object], before'.members)
    BY <1>1, <1>5, <1>6, <1>7 DEF SharesThen, SharedThen
  <1>10. WasInOrder' => LeftAlone'
    <2> SUFFICES ASSUME WasInOrder' PROVE LeftAlone'
      OBVIOUS
    <2>1. WasInOrder
      BY <1>1 DEF WasInOrder, S!Less
    <2>2. LeftAlone
      BY <1>3, <2>1 DEF SortedInv
    <2>3. /\ next' = next
          /\ sorting' # <<>> =>
                /\ Len(sorting') = 1 /\ sorting'[1].at = "test"
                /\ sorting'[1].result = before.first
          /\ sorting' = <<>> => sorted' = before.first
      BY <1>1, <1>4, <2>1, <2>2, SortingLeavesAlone
    <2>4. QED BY <1>1, <1>7, <2>2, <2>3 DEF LeftAlone
  <1>11. QED BY <1>1, <1>4, <1>8, <1>9, <1>10 DEF SortedInv

LEMMA NextSortedInv ==
    ASSUME CopyInv, CopyInv', BackInv, SortedInv, [CopySortNext]_allVars
    PROVE  SortedInv'
  <1>1. ASSUME NEW count \in Count, MakeArray(count) PROVE SortedInv'
    <2>1. call' = [name |-> "array", count |-> count]
      BY <1>1 DEF MakeArray
    <2>2. QED BY <2>1 DEF SortedInv
  <1>2. ASSUME NEW item \in Item, NEW recurse \in BOOLEAN, Copying(item, recurse)
        PROVE  SortedInv'
    <2>1. call' = [name |-> "copy", item |-> item, recurse |-> recurse]
      BY <1>2 DEF Copying
    <2>2. QED BY <2>1 DEF SortedInv
  <1>3. CASE Making
    <2>1. MakeStep /\ call' = call
      BY <1>3 DEF Making
    <2>2. building # NULL \/ copying # <<>>
      BY <2>1 DEF MakeStep, AddElement, AddElementFails, ArrayDone, NewItem, CopyText, CopyName,
                  AllocationFails, NextKid, LinkKid, KidFails, DuplicateDone, At
    <2>3. call.name # "sort"
      BY <2>2 DEF CopyInv, CallInv
    <2>4. QED BY <2>1, <2>3 DEF SortedInv
  <1>4. CASE \E object \in Item, sensitive \in BOOLEAN : SortObject(object, sensitive)
    BY <1>4, SortObjectSorted
  <1>5. CASE Sorting
    BY <1>5, SortingSorted
  <1>6. CASE UNCHANGED allVars
    <2>1. UNCHANGED <<next, prev, child, string, sorting, call, before>>
      BY <1>6 DEF allVars, dupVars, vars
    <2>2. /\ Weight' = Weight /\ (WasInOrder' <=> WasInOrder) /\ (LeftAlone' <=> LeftAlone)
      BY <2>1 DEF Weight, WasInOrder, LeftAlone, S!Less
    <2>3. SharesMembers' <=> SharesMembers
      BY <2>1, <2>2 DEF SharesMembers
    <2>4. QED BY <2>1, <2>2, <2>3 DEF SortedInv
  <1>7. QED BY <1>1, <1>2, <1>3, <1>4, <1>5, <1>6 DEF CopySortNext

LEMMA AlwaysSortedInv == CopySortSpec => []SortedInv
  <1>1. CopySortInit => SortedInv
    BY DEF CopySortInit, SortedInv
  <1>2. CopyInv /\ CopyInv' /\ BackInv /\ SortedInv /\ [CopySortNext]_allVars => SortedInv'
    BY NextSortedInv
  <1>3. QED BY <1>1, <1>2, AlwaysCopyInv, LinkedBothWays, PTL DEF CopySortSpec

-----------------------------------------------------------------------------
(* What follows.                                                            *)

LEMMA ListIsChain ==
    ASSUME TypeOK, NEW p, NEW first \in Item \cup {NULL}, NEW A \in SUBSET Item,
           List(next, p, first, A)
    PROVE  A = IF first = NULL THEN {} ELSE Chain(first)
  <1>1. CASE first = NULL
    BY <1>1 DEF List
  <1>2. CASE first # NULL
    <2>1. first \in Item /\ first \in A /\ NextClosed(A)
      BY <1>2 DEF List, NextClosed
    <2>2. Chain(first) \subseteq A
      BY <2>1, ChainLeast
    <2>3. first \in Chain(first) /\ Chain(first) \in SUBSET A /\ Goes(next, Chain(first))
      BY <2>1, <2>2, ChainClosed DEF NextClosed, Goes
    <2>4. A \subseteq Chain(first)
      BY <2>3 DEF List
    <2>5. QED BY <1>2, <2>2, <2>4
  <1>3. QED BY <1>1, <1>2

LEMMA SortedInvRight ==
    ASSUME CopyInv, SortedInv
    PROVE  SortedRight
  <1> DEFINE first == child[call.object]
             list == before.members
             Code(x) == string[x].key
             BothNamed(x, y) == string[x] # NULL /\ string[y] # NULL
             Strictly(x, y) == BothNamed(x, y) /\
                 IF call.sensitive THEN Code(x) < Code(y) ELSE Lower[Code(x)] < Lower[Code(y)]
             Folded(x, y) == Lower[Code(x)] =< Lower[Code(y)]
  <1> SUFFICES ASSUME sorting = <<>>, call.name = "sort"
               PROVE  /\ Kids(call.object) = list
                      /\ \A x \in list : next[x] # NULL => next[x] # first /\ prev[next[x]] = x
                      /\ InOrder(list, before.next, Strictly) =>
                            first = before.first /\ \A x \in list : next[x] = before.next[x]
                      /\ ~call.sensitive /\ (\A x \in list : string[x] # NULL) =>
                            InOrder(list, next, Folded)
    BY DEF SortedRight, Idle
  <1>1. /\ TypeOK /\ list \in SUBSET Item /\ before \in Snapshot
        /\ SortedList(next, prev, Weight, first, list) /\ (WasInOrder => LeftAlone)
    BY DEF SortedInv, CopyInv, TypesInv
  <1>2. List(next, prev, first, list) /\ Ascends(next, Weight, list)
    BY <1>1 DEF SortedList
  <1>3. Kids(call.object) = list
    <2>1. first \in Item \cup {NULL}
      BY <1>1, <1>2 DEF List
    <2>2. QED BY <1>1, <1>2, <2>1, ListIsChain DEF Kids
  <1>4. \A x \in list : next[x] # NULL => next[x] # first /\ prev[next[x]] = x
    BY <1>2 DEF List
  <1>5. ASSUME InOrder(list, before.next, Strictly)
        PROVE  first = before.first /\ \A x \in list : next[x] = before.next[x]
    <2>1. ASSUME NEW x \in list, before.next[x] # NULL
          PROVE  S!Less(x, before.next[x], call.sensitive)
      <3> DEFINE y == before.next[x]
      <3>1. x \in Item /\ y \in Item
        BY <1>1, <2>1 DEF Snapshot, Pointers
      <3>2. Strictly(x, y)
        BY <1>5, <2>1 DEF InOrder
      <3> HIDE DEF y
      <3>3. /\ S!ToLower(string[x].key) = Lower[string[x].key]
            /\ S!ToLower(string[y].key) = Lower[string[y].key]
        BY <1>1, <3>1, <3>2, LowerIsToLower
      <3>4. S!Less(x, y, call.sensitive)
        BY <3>2, <3>3 DEF S!Less
      <3>5. QED BY <3>4 DEF y
    <2>2. LeftAlone
      BY <1>1, <2>1 DEF WasInOrder
    <2>3. QED BY <2>2 DEF LeftAlone
  <1>6. ASSUME ~call.sensitive, \A x \in list : string[x] # NULL
        PROVE  InOrder(list, next, Folded)
    <2> SUFFICES ASSUME NEW x \in list, next[x] # NULL PROVE Folded(x, next[x])
      BY DEF InOrder
    <2> DEFINE y == next[x]
    <2>1. y \in list /\ Weight[x] =< Weight[y]
      BY <1>2 DEF List, Ascends
    <2> HIDE DEF y
    <2>2. \A z \in list : Weight[z] = Lower[Code(z)]
      <3>1. \A z \in list : z \in Item /\ string[z] # NULL
        BY <1>1, <1>6
      <3>2. \A z \in list : Weight[z] = S!ToLower(string[z].key)
        BY <1>6, <3>1 DEF Weight
      <3>3. \A z \in list : S!ToLower(string[z].key) = Lower[string[z].key]
        BY <1>1, <3>1, LowerIsToLower
      <3>4. QED BY <3>2, <3>3
    <2>3. Folded(x, y)
      BY <2>1, <2>2
    <2>4. QED BY <2>3 DEF y
  <1>7. QED BY <1>3, <1>4, <1>5, <1>6

-----------------------------------------------------------------------------
(* What follows.                                                            *)

(* When cJSONUtils_SortObject returns, the members of the object are those  *)
(* it had, in one list that ends and is linked both ways but for the first  *)
(* member's prev; a list that was in order is left alone, and without       *)
(* regard to case the names are in order (sort_list, cJSON_Utils.c:460-577).*)
THEOREM SortSorts == CopySortSpec => []SortedRight
  <1>1. CopyInv /\ SortedInv => SortedRight
    BY SortedInvRight
  <1>2. QED BY <1>1, AlwaysCopyInv, AlwaysSortedInv, PTL
=============================================================================
