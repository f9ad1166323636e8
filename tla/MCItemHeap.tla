----------------------------- MODULE MCItemHeap -----------------------------
(***************************************************************************)
(* Instances of ItemHeap for TLC.  The addresses are interchangeable, the  *)
(* names are not: "a" and "A" are the same name to a lookup that ignores   *)
(* case.                                                                   *)
(***************************************************************************)
EXTENDS ItemHeapForest, FiniteSets, TLC

Addresses == Permutations(Item)

(* A bound on the run with four addresses: every name and any reference     *)
(* among three items, four items with copies of one name and no reference.  *)
FewerChoices ==
    Cardinality(live) > 3 =>
        /\ isReference = {}
        /\ \A x \in live : string[x] # NULL => string[x].key = "a" /\ ~string[x].literal

TwoCases == [k \in {"a", "A"} |-> "a"]
=============================================================================
