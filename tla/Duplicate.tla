------------------------------ MODULE Duplicate ------------------------------
(***************************************************************************)
(* The two functions that make a whole structure or nothing: the array     *)
(* constructors (cJSON.c:2215-2356) and cJSON_Duplicate (cJSON.c:2359-2436)*)
(* over the items of ItemHeap.  Every allocation may fail; the recursion   *)
(* of cJSON_Duplicate is an explicit stack.                                *)
(***************************************************************************)
EXTENDS ItemHeap, Sequences

(* The locals of an array constructor. *)
Builder == [array : Item, last : Item \cup {NULL}, left : Nat, done : Nat]

ASSUME NullIsNoBuilder == NULL \notin Builder

VARIABLES
    valuestring,    \* item->valuestring, NULL for items without a text
    valueint,       \* item->valueint
    building,       \* the Builder of the array that is made, or NULL
    copying,        \* the activations of cJSON_Duplicate, the innermost first
    made            \* what the last of these calls returned

values  == <<valuestring, valueint>>
dupVars == <<vars, values, building, copying, made>>

(* The address the allocator returns; the others are as good. *)
Fresh == CHOOSE x \in Item : x \notin live

(* There is one.  Otherwise the allocation can only fail. *)
MemoryLeft == Item \ live # {}

(* Mutant: create_reference's way, the whole block is copied. *)
BlockCopied(x, item) == child' = [child EXCEPT ![x] = child[item]]

(* The new block is zeroed. *)
Blank(x, item) == UNCHANGED child

(* Mutant: cJSON_Delete is forgotten. *)
KeepBlocks(x) ==
    UNCHANGED <<live, links, string, isReference, isObject, stringIsConst, values>>

(* cJSON_Delete(x) of what has been made so far.  F is bound by \E so that   *)
(* TLC works it out only once.                                              *)
Discard(x) ==
    \E F \in {Reach(x)} :
        /\ Free(F, next, prev, child, string)
        /\ stringIsConst' = stringIsConst \ F
        /\ valuestring' = [y \in Item |-> IF y \in F THEN NULL ELSE valuestring[y]]
        /\ valueint' = [y \in Item |-> IF y \in F THEN 0 ELSE valueint[y]]

-----------------------------------------------------------------------------
(* cJSON_CreateIntArray, ...FloatArray, ...DoubleArray, ...StringArray.      *)

(* The array of count elements has been allocated. *)
CreateArrayOf(count) ==
    /\ building = NULL /\ MemoryLeft
    /\ building' = [array |-> Fresh, last |-> NULL, left |-> count, done |-> 0]
    /\ live' = live \cup {Fresh}
    /\ UNCHANGED <<links, names, isReference, isObject, roots, crashed, values,
                   copying, made>>

(* Mutant: p is not set to the element just linked. *)
LastKept(x) == IF building.last = NULL THEN x ELSE building.last

(* p = n *)
LastElement(x) == x

(* The next element is allocated, given its number and linked. *)
AddElement ==
    /\ building # NULL /\ building.left > 0 /\ MemoryLeft
    /\ LET x == Fresh
       IN  /\ live' = live \cup {x}
           /\ valueint' = [valueint EXCEPT ![x] = building.done + 1]
           /\ IF building.last = NULL
              THEN /\ child' = [child EXCEPT ![building.array] = x]
                   /\ UNCHANGED <<next, prev>>
              ELSE /\ next' = [next EXCEPT ![building.last] = x]
                   /\ prev' = [prev EXCEPT ![x] = building.last]
                   /\ UNCHANGED child
           /\ building' = [building EXCEPT !.last = LastElement(x),
                              !.left = @ - 1, !.done = @ + 1]
    /\ UNCHANGED <<names, isReference, isObject, roots, crashed, valuestring,
                   copying, made>>

(* Its block, or for a string its text, cannot be allocated. *)
AddElementFails ==
    /\ building # NULL /\ building.left > 0
    /\ Discard(building.array)
    /\ made' = NULL /\ building' = NULL
    /\ UNCHANGED <<roots, crashed, copying>>

ArrayDone ==
    /\ building # NULL /\ building.left = 0
    /\ made' = building.array /\ building' = NULL
    /\ roots' = roots \cup {building.array}
    /\ UNCHANGED <<live, links, names, isReference, isObject, crashed, values, copying>>

-----------------------------------------------------------------------------
(* cJSON_Duplicate. *)

Call(item, recurse) ==
    [at |-> "new", item |-> item, new |-> NULL, child |-> NULL, last |-> NULL,
     recurse |-> recurse]

At(step) == copying # <<>> /\ Head(copying).at = step
Locals   == Head(copying)
Goto(f)  == copying' = <<f>> \o Tail(copying)

Duplicate(item, recurse) ==
    /\ copying = <<>>
    /\ copying' = <<Call(item, recurse)>>
    /\ UNCHANGED <<vars, values, building, made>>

(* The name of an item with cJSON_StringIsConst is shared, not copied. *)
SharesName(item) == item \in stringIsConst

(* newitem->type = item->type & ~cJSON_IsReference *)
FlagCopied(x, item) ==
    IF item \in stringIsConst THEN stringIsConst \cup {x} ELSE stringIsConst

(* The block, with the kind, the flags and the number of the original. *)
NewItem ==
    /\ At("new") /\ MemoryLeft
    /\ LET item == Locals.item
           x == Fresh
       IN  /\ live' = live \cup {x}
           /\ Blank(x, item)
           /\ valueint' = [valueint EXCEPT ![x] = valueint[item]]
           /\ stringIsConst' = FlagCopied(x, item)
           /\ isObject' = IF item \in isObject THEN isObject \cup {x} ELSE isObject
           /\ Goto([Locals EXCEPT !.at = "text", !.new = x])
    /\ UNCHANGED <<next, prev, string, isReference, roots, crashed, valuestring,
                   building, made>>

CopyText ==
    /\ At("text")
    /\ valuestring' = [valuestring EXCEPT ![Locals.new] = valuestring[Locals.item]]
    /\ Goto([Locals EXCEPT !.at = "name"])
    /\ UNCHANGED <<vars, valueint, building, made>>

CopyName ==
    /\ At("name")
    /\ LET item == Locals.item
       IN  string' = [string EXCEPT ![Locals.new] =
                        IF string[item] = NULL \/ SharesName(item)
                        THEN string[item] ELSE Copy(string[item].key)]
    /\ Goto([Locals EXCEPT !.at = IF Locals.recurse THEN "kids" ELSE "return",
                           !.child = child[Locals.item]])
    /\ UNCHANGED <<live, links, stringIsConst, isReference, isObject, roots, crashed,
                   values, building, made>>

(* A step that allocates fails: what the item has so far is deleted. *)
AllocationFails ==
    /\ \/ At("new") /\ UNCHANGED <<live, links, string, isReference, isObject,
                                   stringIsConst, values>>
       \/ At("text") /\ valuestring[Locals.item] # NULL /\ Discard(Locals.new)
       \/ At("name") /\ string[Locals.item] # NULL /\ ~SharesName(Locals.item)
                     /\ Discard(Locals.new)
    /\ Goto([Locals EXCEPT !.at = "return", !.new = NULL])
    /\ UNCHANGED <<roots, crashed, building, made>>

NextKid ==
    /\ At("kids")
    /\ copying' = IF Locals.child = NULL
                  THEN <<[Locals EXCEPT !.at = "return"]>> \o Tail(copying)
                  ELSE <<Call(Locals.child, TRUE)>> \o copying
    /\ UNCHANGED <<vars, values, building, made>>

(* The copy of a kid arrives and is linked behind the last one. *)
LinkKid ==
    /\ At("return") /\ Len(copying) > 1 /\ Locals.new # NULL
    /\ LET f == copying[2]
           x == Locals.new
       IN  /\ IF f.last = NULL
              THEN /\ child' = [child EXCEPT ![f.new] = x]
                   /\ UNCHANGED <<next, prev>>
              ELSE /\ next' = [next EXCEPT ![f.last] = x]
                   /\ prev' = [prev EXCEPT ![x] = f.last]
                   /\ UNCHANGED child
           /\ copying' = <<[f EXCEPT !.last = x, !.child = next[f.child]]>>
                             \o SubSeq(copying, 3, Len(copying))
    /\ UNCHANGED <<live, names, isReference, isObject, roots, crashed, values,
                   building, made>>

(* A kid that could not be copied: its parent's copy is deleted too. *)
KidFails ==
    /\ At("return") /\ Len(copying) > 1 /\ Locals.new = NULL
    /\ Discard(copying[2].new)
    /\ copying' = <<[copying[2] EXCEPT !.at = "return", !.new = NULL]>>
                      \o SubSeq(copying, 3, Len(copying))
    /\ UNCHANGED <<roots, crashed, building, made>>

DuplicateDone ==
    /\ At("return") /\ Len(copying) = 1
    /\ copying' = <<>>
    /\ made' = Locals.new
    /\ roots' = IF Locals.new = NULL THEN roots ELSE roots \cup {Locals.new}
    /\ UNCHANGED <<live, links, names, isReference, isObject, crashed, values, building>>

MakeStep == \/ AddElement \/ AddElementFails \/ ArrayDone
            \/ NewItem \/ CopyText \/ CopyName \/ AllocationFails
            \/ NextKid \/ LinkKid \/ KidFails \/ DuplicateDone
=============================================================================
