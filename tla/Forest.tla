------------------------------- MODULE Forest -------------------------------
(***************************************************************************)
(* What the item functions of cJSON promise, without pointers: a forest of *)
(* named nodes whose kids are ordered.  README.md:221-235 describes it     *)
(* ("formally, an N-tree").                                                *)
(*                                                                         *)
(* The order of kids is the set of siblings that come after each: there is *)
(* no first pointer, no last one, and nothing to walk along.               *)
(***************************************************************************)
CONSTANTS Node, Key, NoKey

VARIABLES nodes,    \* the nodes that exist
          tops,     \* the nodes the program holds
          kids,     \* the kids of every node
          after,    \* the siblings after every node
          label     \* the name of every node, or NoKey

forest == <<nodes, tops, kids, after, label>>

(* A node and everything under it. *)
Under(x) ==
    LET Closed == {T \in SUBSET Node : x \in T /\ \A y \in T : kids[y] \subseteq T}
    IN  {y \in Node : \A T \in Closed : y \in T}

(* What may come after a new kid of p: nothing, or one kid and what comes   *)
(* after that one.                                                          *)
Places(p) == {{}} \cup {{y} \cup after[y] : y \in kids[p]}

(* The nodes N disappear; k, a and l say what is left of the others. *)
Prune(N, k, a, l) ==
    /\ nodes' = nodes \ N
    /\ kids' = [x \in Node |-> IF x \in N THEN {} ELSE k[x]]
    /\ after' = [x \in Node |-> IF x \in N THEN {} ELSE a[x]]
    /\ label' = [x \in Node |-> IF x \in N THEN NoKey ELSE l[x]]

(* Kid x of p is there no more. *)
KidsWithout(p, x) == [kids EXCEPT ![p] = @ \ {x}]
AfterWithout(x) == [y \in Node |-> IF y = x THEN {} ELSE after[y] \ {x}]

(* y takes the place of kid x of p. *)
KidsWith(p, x, y) == [kids EXCEPT ![p] = (@ \ {x}) \cup {y}]
AfterWith(x, y) ==
    [z \in Node |-> IF z = y THEN after[x]
                    ELSE IF x \in after[z] THEN (after[z] \ {x}) \cup {y} ELSE after[z]]

FInit ==
    /\ nodes = {} /\ tops = {}
    /\ kids = [x \in Node |-> {}]
    /\ after = [x \in Node |-> {}]
    /\ label = [x \in Node |-> NoKey]

New(x) ==
    /\ x \in Node \ nodes
    /\ nodes' = nodes \cup {x}
    /\ tops' = tops \cup {x}
    /\ UNCHANGED <<kids, after, label>>

(* Nobody is renamed but the node that is attached. *)
Named(x) == \E name \in Key \cup {NoKey} : label' = [label EXCEPT ![x] = name]

(* x becomes a kid of p, before the kids in `later'. *)
Link(p, x, later) ==
    /\ kids' = [kids EXCEPT ![p] = @ \cup {x}]
    /\ after' = [y \in Node |-> IF y = x THEN later
                                ELSE IF y \in kids[p] \ later THEN after[y] \cup {x}
                                ELSE after[y]]

Attach(p, x) ==
    /\ p \in nodes /\ x \in tops
    /\ nodes' = nodes
    /\ tops' = tops \ {x}
    /\ Named(x)
    /\ \E later \in Places(p) : Link(p, x, later)
    /\ p \notin Under(x)

AttachNew(p, x) ==
    /\ p \in nodes /\ x \in Node \ nodes
    /\ nodes' = nodes \cup {x}
    /\ tops' = tops
    /\ Named(x)
    /\ Link(p, x, {})

Detach(p, x) ==
    /\ nodes' = nodes
    /\ tops' = tops \cup {x}
    /\ label' = label
    /\ x \in kids[p]
    /\ kids' = KidsWithout(p, x)
    /\ after' = AfterWithout(x)

Erase(p, x) ==
    /\ tops' = tops
    /\ x \notin nodes'
    /\ x \in kids[p]
    /\ Prune(Under(x), KidsWithout(p, x), AfterWithout(x), label)

Exchange(p, x, y, name) ==
    /\ y \in tops
    /\ tops' = tops \ {y}
    /\ x \notin nodes' /\ label'[y] = name
    /\ x \in kids[p]
    /\ Prune(Under(x), KidsWith(p, x, y), AfterWith(x, y), [label EXCEPT ![y] = name])
    /\ p \notin Under(y)

Rename(x, name) ==
    /\ x \in tops
    /\ UNCHANGED <<nodes, tops>>
    /\ label' = [label EXCEPT ![x] = name]
    /\ UNCHANGED <<kids, after>>

Destroy(x) ==
    /\ x \in tops
    /\ tops' = tops \ {x}
    /\ x \notin nodes'
    /\ Prune(Under(x), kids, after, label)

FNext ==
    \/ \E x \in Node : New(x) \/ Destroy(x)
    \/ \E p, x \in Node : Attach(p, x) \/ AttachNew(p, x)
    \/ \E p \in nodes, x \in Node : Detach(p, x) \/ Erase(p, x)
    \/ \E p \in nodes, x, y \in Node, name \in Key \cup {NoKey} : Exchange(p, x, y, name)
    \/ \E x \in Node, name \in Key : Rename(x, name)

Forest == FInit /\ [][FNext]_forest
=============================================================================
