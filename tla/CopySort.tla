------------------------------ MODULE CopySort ------------------------------
(***************************************************************************)
(* A program that makes an array or copies a structure it was given, and   *)
(* then sorts an object of the copy: what cJSON_Utils.h:40-57 advises the  *)
(* users of ApplyPatches to do, which sorts the objects it compares.       *)
(***************************************************************************)
EXTENDS Duplicate, FiniteSets

CONSTANTS
    Sources,    \* the structures the program may have: a set of records with
                \* items, kids, reference, string, texts and roots
    Count       \* the lengths of arrays to make

ASSUME CountsAreLengths == Count \subseteq Nat
ASSUME SourcesAreStructures ==
    \A s \in Sources :
        /\ s.items \subseteq Item /\ s.roots \subseteq s.items
        /\ s.kids \in [Item -> Seq(s.items)]
        /\ \A x \in Item \ s.items : s.kids[x] = <<>>
        /\ DOMAIN s.reference \subseteq s.items
        /\ \A x \in DOMAIN s.reference :
              s.reference[x] \in s.items /\ s.kids[s.reference[x]] # <<>>
        /\ \A x \in s.items : s.string[x] \in Name \cup {NULL}

VARIABLES
    sorting, sorted,    \* of SortList
    call,       \* the call that is under way or was the last one
    before,     \* the items before the call and, for a sort, the members in
                \* their order: the first one, all, and who was next of whom
    copied      \* the item that each item made by cJSON_Duplicate is a copy of

allVars == <<dupVars, sorting, sorted, call, before, copied>>

S == INSTANCE SortList

(* Names are their codes, and tolower() is that of SortList. *)
ASSUME KeysAreCodes == Key \subseteq Nat /\ \A k \in Key : Lower[k] = S!ToLower(k)

Idle == building = NULL /\ copying = <<>> /\ sorting = <<>>

(* The links of lists in which the kids of every item are as given. *)
Link(kids) ==
    LET Sibling(x, d) ==
            {y \in Item : \E p \in Item : \E i \in DOMAIN kids[p] :
                i + d \in DOMAIN kids[p] /\ kids[p][i] = x /\ kids[p][i + d] = y}
        One(s) == IF s = {} THEN NULL ELSE CHOOSE y \in s : TRUE
    IN  /\ next  = [x \in Item |-> One(Sibling(x, 1))]
        /\ prev  = [x \in Item |-> One({y \in Item : x \in Sibling(y, 1)})]

CopySortInit ==
    /\ \E s \in Sources :
        /\ live = s.items
        /\ Link(s.kids)
        /\ child = [x \in Item |-> IF x \in DOMAIN s.reference
                                   THEN s.kids[s.reference[x]][1]
                                   ELSE IF s.kids[x] = <<>> THEN NULL ELSE s.kids[x][1]]
        /\ string = [x \in Item |-> IF x \in s.items THEN s.string[x] ELSE NULL]
        /\ isReference = DOMAIN s.reference
        /\ stringIsConst = {x \in s.items : s.string[x] # NULL /\ s.string[x].literal}
        /\ isObject = {x \in s.items : s.kids[x] # <<>>} \cup isReference
        /\ roots = s.roots
        /\ valuestring = [x \in Item |-> IF x \in s.texts THEN x ELSE NULL]
    /\ crashed = FALSE
    /\ valueint = [x \in Item |-> IF x \in live THEN x ELSE 0]
    /\ building = NULL /\ copying = <<>> /\ made = NULL
    /\ S!SortInit
    /\ call = [name |-> "none"]
    /\ before = [items |-> live, first |-> NULL, members |-> {}, next |-> next]
    /\ copied = [x \in Item |-> NULL]

-----------------------------------------------------------------------------
MakeArray(count) ==
    /\ call.name = "none" /\ live = {}
    /\ CreateArrayOf(count)
    /\ call' = [name |-> "array", count |-> count]
    /\ UNCHANGED <<sorting, sorted, before, copied>>

(* The program copies what it holds, with or without what lies under it; or *)
(* the array that was just made.                                            *)
Copying(item, recurse) ==
    /\ Idle
    /\ \/ call.name = "none"
       \/ call.name = "array" /\ made = item
    /\ item \in roots
    /\ Duplicate(item, recurse)
    /\ call' = [name |-> "copy", item |-> item, recurse |-> recurse]
    /\ before' = [before EXCEPT !.items = live]
    /\ UNCHANGED <<sorting, sorted, copied>>

Making ==
    /\ MakeStep
    /\ copied' = [x \in Item |->
                     IF x \in live' \ live /\ copying # <<>> THEN Locals.item
                     ELSE IF x \in live' THEN copied[x] ELSE NULL]
    /\ UNCHANGED <<sorting, sorted, call, before>>

(* cJSONUtils_SortObject(object), or its case sensitive twin, for an object *)
(* of the copy.                                                             *)
SortObject(object, sensitive) ==
    /\ Idle /\ call.name = "copy" /\ made # NULL
    /\ object \in isObject \ before.items
    /\ S!Sort(child[object], sensitive)
    /\ call' = [name |-> "sort", object |-> object, sensitive |-> sensitive]
    /\ before' = [before EXCEPT !.first = child[object], !.members = Kids(object),
                                !.next = next]
    /\ UNCHANGED <<live, child, names, isReference, isObject, roots, crashed, values,
                   building, copying, made, copied>>

(* object->child = sort_list(...), when that returns. *)
Sorting ==
    /\ S!SortStep
    /\ child' = IF sorting' = <<>> THEN [child EXCEPT ![call.object] = sorted'] ELSE child
    /\ UNCHANGED <<live, names, isReference, isObject, roots, crashed, values,
                   building, copying, made, call, before, copied>>

CopySortNext ==
    \/ \E count \in Count : MakeArray(count)
    \/ \E item \in Item, recurse \in BOOLEAN : Copying(item, recurse)
    \/ Making
    \/ \E object \in Item, sensitive \in BOOLEAN : SortObject(object, sensitive)
    \/ Sorting

(* A call that was begun goes on: nothing else runs.  The program need not  *)
(* make another one.                                                        *)
CopySortSpec == CopySortInit /\ [][CopySortNext]_allVars
                             /\ WF_allVars(Making) /\ WF_allVars(Sorting)

-----------------------------------------------------------------------------
(* What must hold. *)

(* What was made is in no list yet, and owns all that was allocated for it  *)
(* and nothing else.                                                        *)
MadeWhole ==
    Idle /\ made # NULL /\ call.name \in {"array", "copy"} =>
        /\ made \notin before.items /\ Reach(made) = live \ before.items
        /\ prev[made] = NULL

(* An array of the numbers in their order.                                 *)
Numbered(array, count) ==
    IF count = 0 THEN child[array] = NULL
    ELSE /\ child[array] # NULL /\ valueint[child[array]] = 1
         /\ \A x \in Kids(array) :
               IF next[x] = NULL THEN valueint[x] = count
               ELSE valueint[next[x]] = valueint[x] + 1

Alike(x, y) ==
    /\ valueint[x] = valueint[y] /\ valuestring[x] = valuestring[y]
    /\ x \in isObject <=> y \in isObject
    /\ IF string[y] = NULL THEN string[x] = NULL
       ELSE string[x] # NULL /\ string[x].key = string[y].key

IsCopy(x, y) == IF y = NULL THEN x = NULL ELSE x # NULL /\ copied[x] = y

(* Every item that was made has the content of the one it is a copy of, and *)
(* has copies of that one's next and child where that one has them.  The    *)
(* top is nobody's next; it stays without children if they are not wanted.  *)
Mirrors(item, recurse) ==
    /\ copied[made] = item /\ next[made] = NULL
    /\ \A x \in live \ before.items :
          /\ Alike(x, copied[x])
          /\ x # made => IsCopy(next[x], next[copied[x]])
          /\ IF x = made /\ ~recurse THEN child[x] = NULL
             ELSE IsCopy(child[x], child[copied[x]])

(* A call that succeeds has made what was asked for (cJSON.h:225-229): an   *)
(* array of the numbers in their order, or a copy that reads like the       *)
(* original, a reference's members included, owns all that lies under it,   *)
(* is in no list, is linked both ways and says rightly whose its names are. *)
MadeRight ==
    Idle /\ made # NULL /\ call.name \in {"array", "copy"} =>
        /\ MadeWhole
        /\ \A x \in live \ before.items :
              /\ next[x] # NULL => prev[next[x]] = x
              /\ child[x] # NULL => prev[child[x]] = NULL
        /\ NameFlagsAgree
        /\ call.name = "array" => Numbered(made, call.count)
        /\ call.name = "copy" => Mirrors(call.item, call.recurse)

(* Memory runs out in the middle of a nested copy or of an array: every     *)
(* block that was allocated is released (cJSON.c:2428-2433, 2238).          *)
FailureKeepsNothing ==
    Idle /\ made = NULL /\ call.name \in {"array", "copy"} => live = before.items

(* Nothing that is done to the copy, the release of half a copy and the     *)
(* relinking of its members included, reaches the original.                 *)
KeepsSource ==
    \A x \in before.items :
        /\ next'[x] = next[x] /\ prev'[x] = prev[x] /\ child'[x] = child[x]
        /\ string'[x] = string[x] /\ valuestring'[x] = valuestring[x]
        /\ x \in live' /\ (x \in stringIsConst <=> x \in stringIsConst')

SourceKept == [][KeepsSource]_allVars

InOrder(list, following, Below(_, _)) ==
    \A x \in list : following[x] # NULL => Below(x, following[x])

(* cJSON_Utils.h:72: a sort loses no member and adds none, leaves a list    *)
(* alone that was sorted, makes one list of them that ends and is linked    *)
(* both ways, and orders names without regard to case.  Two exceptions: the *)
(* first member's prev (see FirstHasNoPrev), and the order of the case      *)
(* sensitive sort, which tests with one order and merges with the other.    *)
SortedRight ==
    Idle /\ call.name = "sort" =>
        LET first == child[call.object]
            list  == before.members
            Code(x) == string[x].key
            Named(x, y) == string[x] # NULL /\ string[y] # NULL
            Strictly(x, y) == Named(x, y) /\
                IF call.sensitive THEN Code(x) < Code(y) ELSE Lower[Code(x)] < Lower[Code(y)]
            Folded(x, y) == Lower[Code(x)] =< Lower[Code(y)]
        IN  /\ Kids(call.object) = list
            /\ \A x \in list : next[x] # NULL => next[x] # first /\ prev[next[x]] = x
            /\ InOrder(list, before.next, Strictly) =>
                  first = before.first /\ \A x \in list : next[x] = before.next[x]
            /\ ~call.sensitive /\ (\A x \in list : string[x] # NULL) =>
                  InOrder(list, next, Folded)

(* Copying, building and sorting end. *)
Returns == []<>Idle

(* README.md:227: a child entry has prev == 0. *)
FirstHasNoPrev ==
    Idle => \A p \in live : child[p] # NULL => prev[child[p]] = NULL
=============================================================================
