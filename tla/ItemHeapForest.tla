--------------------------- MODULE ItemHeapForest ---------------------------
(***************************************************************************)
(* The linked items implement a forest.  The kids of an item are what a    *)
(* walk along `next' from its child meets; a reference is a leaf, because  *)
(* what it shows belongs to another item.                                  *)
(***************************************************************************)
EXTENDS ItemHeap

KidsOf == [p \in Item |-> IF p \in isReference THEN {} ELSE Kids(p)]

AfterOf == [x \in Item |-> IF next[x] = NULL THEN {} ELSE Chain(next[x])]

NameOf == [x \in Item |-> IF string[x] = NULL THEN NULL ELSE string[x].key]

F == INSTANCE Forest WITH
        Node <- Item, NoKey <- NULL, nodes <- live, tops <- roots,
        kids <- KidsOf, after <- AfterOf, label <- NameOf

(* Every call changes the forest as its description says: one node is       *)
(* attached, detached, erased or exchanged at one place among its siblings, *)
(* all others keep their kids, their order and their names, and a list read *)
(* after any sequence of calls is the list the calls describe.              *)
ImplementsForest == F!Forest
=============================================================================
