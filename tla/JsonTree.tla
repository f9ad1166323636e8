------------------------------ MODULE JsonTree ------------------------------
(***************************************************************************)
(* JSON values as the functions of cJSON_Utils.c see them once the links   *)
(* are abstracted from: an item has a kind, a value, and kids in an order. *)
(* Of the links one thing is kept: whether the prev of the first kid is    *)
(* stale, that is not NULL, as sort_list may leave it (SortList,           *)
(* FirstHasNoPrev).  A name is the sequence of its bytes; the elements of  *)
(* arrays have none that anything reads.  How cJSON_Compare and            *)
(* compare_json compare them, and sort_list's effect on a list as a whole. *)
(***************************************************************************)
EXTENDS Naturals, Sequences, FiniteSets

CONSTANT NULL

Item(kind, value, kids) == [kind |-> kind, value |-> value, kids |-> kids, stale |-> FALSE]
Member(name, item) == [name |-> name, item |-> item]

Scalar(kind, value) == Item(kind, value, <<>>)
Array(items)    == Item("array", 0, [i \in DOMAIN items |-> Member(NULL, items[i])])
Object(members) == Item("object", 0, members)

IsArray(item)  == item # NULL /\ item.kind = "array"
IsObject(item) == item # NULL /\ item.kind = "object"
IsNull(item)   == item # NULL /\ item.kind = "null"

-----------------------------------------------------------------------------
(* Names. *)

ToLower(c) == IF c \in 65..90 THEN c + 32 ELSE c
Fold(name) == [i \in DOMAIN name |-> ToLower(name[i])]

(* strcmp(x, y) < 0 *)
StrLess(x, y) ==
    \E i \in DOMAIN y : /\ \A j \in 1..i - 1 : j \in DOMAIN x /\ x[j] = y[j]
                        /\ i \in DOMAIN x => x[i] < y[i]

(* compare_strings(x, y, sensitive), below zero and zero. *)
Below(x, y, sensitive) ==
    IF sensitive THEN StrLess(x, y) ELSE StrLess(Fold(x), Fold(y))
Same(x, y, sensitive) == IF sensitive THEN x = y ELSE Fold(x) = Fold(y)

(* get_object_item: the position of the first member of that name, or 0. *)
FirstNamed(object, name, sensitive) ==
    LET found == {i \in DOMAIN object.kids : Same(object.kids[i].name, name, sensitive)}
    IN  IF found = {} THEN 0 ELSE CHOOSE i \in found : \A j \in found : i =< j

Named(object, name, sensitive) ==
    LET i == FirstNamed(object, name, sensitive)
    IN  IF i = 0 THEN NULL ELSE object.kids[i].item

-----------------------------------------------------------------------------
(* sort_list on a whole list, given as positions in kids; module SortList   *)
(* has its steps.                                                           *)
RECURSIVE MergeLists(_, _, _)
MergeLists(kids, first, second) ==
    IF first = <<>> THEN second
    ELSE IF second = <<>> THEN first
    ELSE IF Below(kids[first[1]].name, kids[second[1]].name, FALSE)
    THEN <<first[1]>> \o MergeLists(kids, Tail(first), second)
    ELSE <<second[1]>> \o MergeLists(kids, first, Tail(second))

RECURSIVE SortList(_, _, _)
SortList(kids, list, sensitive) ==
    LET half == (Len(list) + 1) \div 2
    IN  IF \A i \in 1..Len(list) - 1 :
                Below(kids[list[i]].name, kids[list[i + 1]].name, sensitive)
        THEN list
        ELSE MergeLists(kids, SortList(kids, SubSeq(list, 1, half), sensitive),
                        SortList(kids, SubSeq(list, half + 1, Len(list)), sensitive))

(* Mutant: compare_json takes the members as they come. *)
Unsorted(item, sensitive) == item

(* sort_object: a first kid that was not the first before keeps the prev it *)
(* had.                                                                     *)
SortObject(item, sensitive) ==
    LET list == SortList(item.kids, [i \in DOMAIN item.kids |-> i], sensitive)
    IN  [item EXCEPT !.kids = [i \in DOMAIN @ |-> item.kids[list[i]]],
                     !.stale = @ \/ (list # <<>> /\ list[1] # 1)]

(* cJSON_Duplicate links the copy anew. *)
RECURSIVE Copied(_)
Copied(item) ==
    [item EXCEPT !.stale = FALSE,
                 !.kids = [i \in DOMAIN @ |-> Member(@[i].name, Copied(@[i].item))]]

(* compare_json(a, b, sensitive) and what it leaves of a and b: the objects *)
(* it came by are sorted.                                                   *)
RECURSIVE CompareJson(_, _, _)
RECURSIVE ComparePairs(_, _, _, _)
ComparePairs(as, bs, named, sensitive) ==
    IF as = <<>> \/ bs = <<>>
    THEN [same |-> as = bs, a |-> as, b |-> bs]
    ELSE IF named /\ ~Same(as[1].name, bs[1].name, sensitive)
    THEN [same |-> FALSE, a |-> as, b |-> bs]
    ELSE LET one  == CompareJson(as[1].item, bs[1].item, sensitive)
             rest == IF one.same THEN ComparePairs(Tail(as), Tail(bs), named, sensitive)
                     ELSE [same |-> FALSE, a |-> Tail(as), b |-> Tail(bs)]
         IN  [same |-> rest.same,
              a |-> <<Member(as[1].name, one.a)>> \o rest.a,
              b |-> <<Member(bs[1].name, one.b)>> \o rest.b]

CompareJson(a, b, sensitive) ==
    IF a = NULL \/ b = NULL \/ a.kind # b.kind
    THEN [same |-> FALSE, a |-> a, b |-> b]
    ELSE IF a.kind \in {"array", "object"}
    THEN LET named == a.kind = "object"
             x == IF named THEN SortObject(a, sensitive) ELSE a
             y == IF named THEN SortObject(b, sensitive) ELSE b
             r == ComparePairs(x.kids, y.kids, named, sensitive)
         IN  [same |-> r.same, a |-> [x EXCEPT !.kids = r.a], b |-> [y EXCEPT !.kids = r.b]]
    ELSE [same |-> a.value = b.value, a |-> a, b |-> b]

(* Every member of one has its like in the other, and back. *)
BothWays(a, b, sensitive, Equal(_, _)) ==
    /\ \A i \in DOMAIN a.kids :
        LET other == Named(b, a.kids[i].name, sensitive)
        IN  other # NULL /\ Equal(a.kids[i].item, other)
    /\ \A i \in DOMAIN b.kids :
        LET other == Named(a, b.kids[i].name, sensitive)
        IN  other # NULL /\ Equal(b.kids[i].item, other)

(* cJSON_Compare *)
RECURSIVE Compare(_, _, _)
Compare(a, b, sensitive) ==
    LET Equal(x, y) == Compare(x, y, sensitive)
    IN  /\ a # NULL /\ b # NULL
        /\ a.kind = b.kind /\ a.kind # "invalid"
        /\ CASE a.kind = "array" ->
                    /\ Len(a.kids) = Len(b.kids)
                    /\ \A i \in DOMAIN a.kids : Equal(a.kids[i].item, b.kids[i].item)
             [] a.kind = "object" -> BothWays(a, b, sensitive, Equal)
             [] OTHER -> a.value = b.value

-----------------------------------------------------------------------------
(* What a value means: an object is a function on the names it has, so that *)
(* order and, where case is ignored, spelling do not count.                 *)
RECURSIVE Meaning(_, _)
Meaning(item, sensitive) ==
    CASE item.kind = "array" ->
            [kind |-> "array",
             elements |-> [i \in DOMAIN item.kids |-> Meaning(item.kids[i].item, sensitive)]]
      [] item.kind = "object" ->
            LET Norm(name) == IF sensitive THEN name ELSE Fold(name)
            IN  [kind |-> "object",
                 members |-> [name \in {Norm(item.kids[i].name) : i \in DOMAIN item.kids} |->
                                Meaning(Named(item, name, sensitive), sensitive)]]
      [] OTHER -> [kind |-> item.kind, value |-> item.value]

(* The names that occur anywhere in an item. *)
RECURSIVE AllNames(_)
AllNames(item) ==
    UNION {AllNames(item.kids[i].item) \cup
           (IF item.kind = "object" THEN {item.kids[i].name} ELSE {}) : i \in DOMAIN item.kids}

(* No object has two members of one name. *)
RECURSIVE Distinct(_, _)
Distinct(item, sensitive) ==
    /\ item.kind = "object" =>
         \A i, j \in DOMAIN item.kids :
            i # j => ~Same(item.kids[i].name, item.kids[j].name, sensitive)
    /\ \A i \in DOMAIN item.kids : Distinct(item.kids[i].item, sensitive)

(* The two orders agree on the names, and so do the two notions of equality.*)
CaseAgrees(names) ==
    \A x, y \in names : /\ StrLess(x, y) <=> StrLess(Fold(x), Fold(y))
                        /\ Fold(x) = Fold(y) => x = y
=============================================================================
