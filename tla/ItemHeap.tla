------------------------------ MODULE ItemHeap ------------------------------
(***************************************************************************)
(* The cJSON items of a program and the functions of cJSON.c that link,    *)
(* unlink, name and free them (cJSON.c:192-226 and cJSON.c:1701-2251).     *)
(*                                                                         *)
(* An item is a heap block with the pointers `next', `prev' and `child',   *)
(* the name `string', and the flags of `type'.  The value of an item       *)
(* (valuestring, valuedouble, ...) is not modelled: valuestring is owned   *)
(* or shared under the very flag that `child' is.                          *)
(*                                                                         *)
(* Lists are read through closed sets (Chain, Reach) and not by recursion, *)
(* so that the provers can reason about them.  Containers and names that   *)
(* the program passes are not NULL; a call with an item that is NULL and   *)
(* ignored, or one whose allocation of an item fails, is a stuttering step.*)
(***************************************************************************)
EXTENDS Naturals

CONSTANTS
    Item,       \* the addresses an item can be allocated at
    NULL,       \* the null pointer
    Key,        \* the names that members of an object can have
    Lower,      \* what tolower() makes of a name, as a function on Key
    Faults      \* which unfriendly circumstances occur:
                \*   "strdup"  the allocation of a name may fail
                \*   "null"    the program may pass a newitem that is NULL
                \*   "arrayop" the program may append to an object with the
                \*             array functions, as cJSON.h:197 permits

ASSUME NullIsNoItem   == NULL \notin Item
ASSUME NullIsNoName   == NULL \notin [key : Key, literal : BOOLEAN]
ASSUME LowerIsFolding == /\ Lower \in [Key -> Key]
                         /\ \A k \in Key : Lower[Lower[k]] = Lower[k]
ASSUME FaultsAreKnown == Faults \subseteq {"strdup", "null", "arrayop"}

VARIABLES
    live,           \* the items that are allocated
    next,           \* item->next
    prev,           \* item->prev
    child,          \* item->child
    string,         \* item->string: the name, and whether it is a literal of
                    \* the program (never to be freed) or a copy on the heap
    isReference,    \* items with cJSON_IsReference in their type
    stringIsConst,  \* items with cJSON_StringIsConst in their type
    isObject,       \* items whose type is cJSON_Object
    roots,          \* items the program holds and has to delete
    crashed         \* the program dereferenced NULL

links == <<next, prev, child>>
names == <<string, stringIsConst>>
vars  == <<live, next, prev, child, string,
           isReference, stringIsConst, isObject, roots, crashed>>

Name == [key : Key, literal : BOOLEAN]
Copy(k)    == [key |-> k, literal |-> FALSE]
Literal(k) == [key |-> k, literal |-> TRUE]

-----------------------------------------------------------------------------
(* Reading the structure.                                                  *)

(* T is closed under what cJSON_ArrayForEach follows. *)
NextClosed(T) == \A y \in T : next[y] # NULL => next[y] \in T

(* T is closed under what cJSON_Delete follows. *)
OwnClosed(T) == /\ NextClosed(T)
                /\ \A y \in T \ isReference : child[y] # NULL => child[y] \in T

(* The items a loop over `next' meets from x on. *)
Chain(x) ==
    LET Closed == {T \in SUBSET Item : x \in T /\ NextClosed(T)}
    IN  {y \in Item : \A T \in Closed : y \in T}

(* The items cJSON_Delete(x) frees. *)
Reach(x) ==
    LET Closed == {T \in SUBSET Item : x \in T /\ OwnClosed(T)}
    IN  {y \in Item : \A T \in Closed : y \in T}

(* The elements of an array, the members of an object. *)
Kids(p) == IF child[p] = NULL THEN {} ELSE Chain(child[p])

(* Mutant: cJSON_Delete forgets the flag cJSON_IsReference. *)
SubtreeFlagIgnored(x) ==
    {x} \cup IF child[x] = NULL THEN {} ELSE Reach(child[x])

(* Mutant: cJSON_Delete forgets the children. *)
SubtreeShallow(x) == {x}

(* What cJSON_Delete(x) frees once x->next is NULL. *)
Subtree(x) ==
    {x} \cup IF x \in isReference \/ child[x] = NULL THEN {} ELSE Reach(child[x])

(* y comes before x in a list that both are in. *)
Before(y, x) == x # y /\ x \in Chain(y)

Matches(x, k, sensitive) ==
    /\ string[x] # NULL
    /\ IF sensitive THEN string[x].key = k
                    ELSE Lower[string[x].key] = Lower[k]

(* get_object_item(o, k, sensitive) returns x. *)
Finds(o, k, sensitive, x) ==
    /\ x \in Kids(o)
    /\ Matches(x, k, sensitive)
    /\ \A y \in Kids(o) : Before(y, x) => ~Matches(y, k, sensitive)

(* get_object_item(o, k, TRUE) calls strcmp(k, NULL): a member that has no  *)
(* name comes before every match.  The comparison that ignores case accepts *)
(* NULL (cJSON.c:89).                                                      *)
StrcmpNull(o, k, sensitive) ==
    /\ sensitive
    /\ \E x \in Kids(o) :
          /\ string[x] = NULL
          /\ \A y \in Kids(o) : Before(y, x) => ~Matches(y, k, TRUE)

Missing(o, k, sensitive) == \A x \in Kids(o) : ~Matches(x, k, sensitive)

-----------------------------------------------------------------------------
(* What the functions do, piece by piece.                                   *)

(* The program may hand item to container: it owns item, and item is not    *)
(* a list the container is part of.                                         *)
MayAdd(container, item) ==
    /\ ~crashed
    /\ container \in live \ isReference
    /\ item \in roots
    /\ container \notin Subtree(item)

(* The program frees nothing that a reference it keeps still looks at. *)
MayFree(F) == \A r \in isReference \ F : child[r] \notin F

(* The program puts an item without a name into arrays only. *)
ArrayOp(container, name) ==
    container \in isObject /\ name = NULL => "arrayop" \in Faults

(* Mutant: the loop to the end of the list is missing. *)
AppendSecond(container, item) ==
    IF child[container] = NULL
    THEN /\ child' = [child EXCEPT ![container] = item]
         /\ UNCHANGED <<next, prev>>
    ELSE /\ next' = [next EXCEPT ![child[container]] = item]
         /\ prev' = [prev EXCEPT ![item] = child[container]]
         /\ UNCHANGED child

(* cJSON_AddItemToArray(container, item): to the end of the list. *)
AppendItem(container, item) ==
    IF child[container] = NULL
    THEN /\ child' = [child EXCEPT ![container] = item]
         /\ UNCHANGED <<next, prev>>
    ELSE \E last \in Kids(container) :
         /\ next[last] = NULL
         /\ next' = [next EXCEPT ![last] = item]
         /\ prev' = [prev EXCEPT ![item] = last]
         /\ UNCHANGED child

(* The same for x, a new reference to item. *)
AppendReference(container, item, x) ==
    IF child[container] = NULL
    THEN /\ child' = [child EXCEPT ![x] = child[item], ![container] = x]
         /\ UNCHANGED <<next, prev>>
    ELSE \E last \in Kids(container) :
         /\ next[last] = NULL
         /\ next' = [next EXCEPT ![last] = x]
         /\ prev' = [prev EXCEPT ![x] = last]
         /\ child' = [child EXCEPT ![x] = child[item]]

(* Mutants: each of the three unlinking assignments is missing. *)
NextKept(item) == [next EXCEPT ![item] = NULL]
PrevKept(item) == [prev EXCEPT ![item] = NULL]
ChildKept(parent, item) == child

(* cJSON_DetachItemViaPointer's assignments, in a form that covers an item  *)
(* at either end of the list.                                               *)
NextWithout(item) ==
    [x \in Item |-> IF x = item THEN NULL
                    ELSE IF x = prev[item] THEN next[item] ELSE next[x]]
PrevWithout(item) ==
    [x \in Item |-> IF x = item THEN NULL
                    ELSE IF x = next[item] THEN prev[item] ELSE prev[x]]
ChildWithout(parent, item) ==
    IF child[parent] = item THEN [child EXCEPT ![parent] = next[item]] ELSE child

(* cJSON_Delete of the items F, after the links became n, p and c and the   *)
(* names s: the blocks are gone and what they held is cleared.              *)
Free(F, n, p, c, s) ==
    /\ live' = live \ F
    /\ next'   = [x \in Item |-> IF x \in F THEN NULL ELSE n[x]]
    /\ prev'   = [x \in Item |-> IF x \in F THEN NULL ELSE p[x]]
    /\ child'  = [x \in Item |-> IF x \in F THEN NULL ELSE c[x]]
    /\ string' = [x \in Item |-> IF x \in F THEN NULL ELSE s[x]]
    /\ isReference' = isReference \ F
    /\ isObject' = isObject \ F

(* cJSON_ReplaceItemViaPointer(parent, item, replacement) once the          *)
(* replacement has the names s.                                             *)
Exchange(parent, item, replacement, s) ==
    LET n == [x \in Item |-> IF x = replacement THEN next[item]
                             ELSE IF x = prev[item] THEN replacement ELSE next[x]]
        p == [x \in Item |-> IF x = replacement THEN prev[item]
                             ELSE IF x = next[item] THEN replacement ELSE prev[x]]
        c == IF child[parent] = item
             THEN [child EXCEPT ![parent] = replacement] ELSE child
    IN  /\ Free(Subtree(item), n, p, c, s)
        /\ roots' = roots \ {replacement}

(* Mutant: the flag of the old name survives. *)
ConstKept(item) == stringIsConst

(* item->type &= ~cJSON_StringIsConst *)
NotConst(item) == stringIsConst \ {item}

(* Mutant: the name is not kept, the defect fixed in 1.5.3 (CHANGELOG.md:29). *)
NameKept(item, name) == string

(* item->string = name *)
Renamed(item, name) == [string EXCEPT ![item] = name]

-----------------------------------------------------------------------------
(* One action per function of the API that changes the structure.           *)

Init ==
    /\ live = {}
    /\ next  = [x \in Item |-> NULL]
    /\ prev  = [x \in Item |-> NULL]
    /\ child = [x \in Item |-> NULL]
    /\ string = [x \in Item |-> NULL]
    /\ isReference = {} /\ stringIsConst = {} /\ isObject = {}
    /\ roots = {}
    /\ crashed = FALSE

(* cJSON_CreateArray, cJSON_CreateObject and their likes for scalars. *)
Create(x, object) ==
    /\ ~crashed
    /\ x \in Item \ live
    /\ live' = live \cup {x}
    /\ roots' = roots \cup {x}
    /\ isObject' = IF object THEN isObject \cup {x} ELSE isObject
    /\ UNCHANGED <<links, names, isReference, crashed>>

AddItemToArray(array, item) ==
    /\ MayAdd(array, item)
    /\ ArrayOp(array, string[item])
    /\ AppendItem(array, item)
    /\ roots' = roots \ {item}
    /\ UNCHANGED <<live, names, isReference, isObject, crashed>>

(* On success AddItemToObjectCS takes the copy of the name and the flag it  *)
(* sets is cleared again.  When the copy cannot be made AddItemToObjectCS   *)
(* returns at once, the item is not added, and the flag is cleared all the  *)
(* same; the function returns nothing, so the program still owns the item.  *)
AddItemToObject(object, k, item) ==
    /\ MayAdd(object, item)
    /\ object \in isObject
    /\ \/ /\ AppendItem(object, item)
          /\ string' = Renamed(item, Copy(k))
          /\ roots' = roots \ {item}
       \/ /\ "strdup" \in Faults
          /\ UNCHANGED <<links, string, roots>>
    /\ stringIsConst' = NotConst(item)
    /\ UNCHANGED <<live, isReference, isObject, crashed>>

(* cJSON_AddNullToObject and the other macros of cJSON.h:238-244: nobody    *)
(* keeps the new item when it was not added.                                *)
AddNewToObject(object, k, x) ==
    /\ ~crashed
    /\ object \in isObject \ isReference
    /\ x \in Item \ live
    /\ live' = live \cup {x}
    /\ \/ /\ AppendItem(object, x)
          /\ string' = Renamed(x, Copy(k))
       \/ /\ "strdup" \in Faults
          /\ UNCHANGED <<links, string>>
    /\ UNCHANGED <<isReference, stringIsConst, isObject, roots, crashed>>

AddItemToObjectCS(object, k, item) ==
    /\ MayAdd(object, item)
    /\ object \in isObject
    /\ AppendItem(object, item)
    /\ string' = Renamed(item, Literal(k))
    /\ stringIsConst' = stringIsConst \cup {item}
    /\ roots' = roots \ {item}
    /\ UNCHANGED <<live, isReference, isObject, crashed>>

(* create_reference copies the block of the item, its flags included, and   *)
(* drops the name.  The list is appended to after that.                     *)
AddItemReferenceToArray(array, item, x) ==
    /\ ~crashed
    /\ array \in live \ isReference
    /\ item \in live
    /\ x \in Item \ live
    /\ ArrayOp(array, NULL)
    /\ live' = live \cup {x}
    /\ AppendReference(array, item, x)
    /\ isReference' = isReference \cup {x}
    /\ stringIsConst' = IF item \in stringIsConst THEN stringIsConst \cup {x} ELSE stringIsConst
    /\ isObject' = IF item \in isObject THEN isObject \cup {x} ELSE isObject
    /\ UNCHANGED <<string, roots, crashed>>

(* When the name cannot be copied the new reference is neither added nor    *)
(* returned.                                                                *)
AddItemReferenceToObject(object, k, item, x) ==
    /\ ~crashed
    /\ object \in isObject \ isReference
    /\ item \in live
    /\ x \in Item \ live
    /\ live' = live \cup {x}
    /\ \/ /\ AppendReference(object, item, x)
          /\ string' = Renamed(x, Copy(k))
       \/ /\ "strdup" \in Faults
          /\ child' = [child EXCEPT ![x] = child[item]]
          /\ UNCHANGED <<next, prev, string>>
    /\ isReference' = isReference \cup {x}
    /\ isObject' = IF item \in isObject THEN isObject \cup {x} ELSE isObject
    /\ UNCHANGED <<stringIsConst, roots, crashed>>

(* cJSON_DetachItemViaPointer, and cJSON_DetachItemFromArray at an index    *)
(* that exists. *)
DetachItem(parent, item) ==
    /\ ~crashed
    /\ parent \in live \ isReference
    /\ item \in Kids(parent)
    /\ next' = NextWithout(item)
    /\ prev' = PrevWithout(item)
    /\ child' = ChildWithout(parent, item)
    /\ roots' = roots \cup {item}
    /\ UNCHANGED <<live, names, isReference, isObject, crashed>>

DeleteItem(parent, item) ==
    /\ ~crashed
    /\ parent \in live \ isReference
    /\ item \in Kids(parent)
    /\ MayFree(Subtree(item))
    /\ Free(Subtree(item), NextWithout(item), PrevWithout(item),
            ChildWithout(parent, item), string)
    /\ stringIsConst' = stringIsConst \ Subtree(item)
    /\ UNCHANGED <<roots, crashed>>

(* A lookup that compares with a missing name. *)
Crash(object, k, sensitive) ==
    /\ ~crashed
    /\ object \in isObject \ isReference
    /\ StrcmpNull(object, k, sensitive)
    /\ crashed' = TRUE
    /\ UNCHANGED <<live, links, names, isReference, isObject, roots>>

DetachItemFromObject(object, k, sensitive) ==
    \/ /\ object \in isObject
       /\ \E item \in Kids(object) :
             Finds(object, k, sensitive, item) /\ DetachItem(object, item)
    \/ Crash(object, k, sensitive)

DeleteItemFromObject(object, k, sensitive) ==
    \/ /\ object \in isObject
       /\ \E item \in Kids(object) :
             Finds(object, k, sensitive, item) /\ DeleteItem(object, item)
    \/ Crash(object, k, sensitive)

Delete(root) ==
    /\ ~crashed
    /\ root \in roots
    /\ MayFree(Reach(root))
    /\ Free(Reach(root), next, prev, child, string)
    /\ stringIsConst' = stringIsConst \ Reach(root)
    /\ roots' = roots \ Reach(root)
    /\ UNCHANGED crashed

(* Before the element at the index; at an index past the end it appends.    *)
InsertItemInArray(array, newitem) ==
    \/ /\ MayAdd(array, newitem)
       /\ ArrayOp(array, string[newitem])
       /\ \E after \in Kids(array) :
             /\ next' = [x \in Item |-> IF x = newitem THEN after
                                        ELSE IF x = prev[after] THEN newitem ELSE next[x]]
             /\ prev' = [prev EXCEPT ![newitem] = prev[after], ![after] = newitem]
             /\ child' = IF after = child[array]
                         THEN [child EXCEPT ![array] = newitem] ELSE child
       /\ roots' = roots \ {newitem}
       /\ UNCHANGED <<live, names, isReference, isObject, crashed>>
    \/ AddItemToArray(array, newitem)

(* The same call with NULL for the new item writes to newitem->next.        *)
InsertNullInArray(array) ==
    /\ ~crashed
    /\ "null" \in Faults
    /\ array \in live \ isReference
    /\ Kids(array) # {}
    /\ crashed' = TRUE
    /\ UNCHANGED <<live, links, names, isReference, isObject, roots>>

(* cJSON_ReplaceItemViaPointer, and cJSON_ReplaceItemInArray at an index    *)
(* that exists. *)
ReplaceItem(parent, item, replacement) ==
    /\ MayAdd(parent, replacement)
    /\ item \in Kids(parent)
    /\ ArrayOp(parent, string[replacement])
    /\ MayFree(Subtree(item))
    /\ Exchange(parent, item, replacement, string)
    /\ stringIsConst' = stringIsConst \ Subtree(item)
    /\ UNCHANGED crashed

(* The replacement is renamed first, whether or not there is a member to    *)
(* replace; when the name cannot be copied it has none.                     *)
ReplaceItemInObject(object, k, sensitive, replacement) ==
    /\ MayAdd(object, replacement)
    /\ object \in isObject
    /\ \E name \in {Copy(k)} \cup IF "strdup" \in Faults THEN {NULL} ELSE {} :
       LET renamed == Renamed(replacement, name)
       IN  \/ \E item \in Kids(object) :
                 /\ Finds(object, k, sensitive, item)
                 /\ MayFree(Subtree(item))
                 /\ Exchange(object, item, replacement, renamed)
                 /\ stringIsConst' = NotConst(replacement) \ Subtree(item)
                 /\ UNCHANGED crashed
           \/ /\ Missing(object, k, sensitive) \/ StrcmpNull(object, k, sensitive)
              /\ crashed' = StrcmpNull(object, k, sensitive)
              /\ string' = renamed
              /\ stringIsConst' = NotConst(replacement)
              /\ UNCHANGED <<live, links, isReference, isObject, roots>>

Next ==
    \/ \E x \in Item, object \in BOOLEAN : Create(x, object)
    \/ \E array, item \in Item : AddItemToArray(array, item)
    \/ \E object, item \in Item, k \in Key : AddItemToObject(object, k, item)
    \/ \E object, x \in Item, k \in Key : AddNewToObject(object, k, x)
    \/ \E object, item \in Item, k \in Key : AddItemToObjectCS(object, k, item)
    \/ \E array, item, x \in Item : AddItemReferenceToArray(array, item, x)
    \/ \E object, item, x \in Item, k \in Key :
          AddItemReferenceToObject(object, k, item, x)
    \/ \E parent, item \in Item : DetachItem(parent, item)
    \/ \E parent, item \in Item : DeleteItem(parent, item)
    \/ \E object \in Item, k \in Key, sensitive \in BOOLEAN :
          DetachItemFromObject(object, k, sensitive)
    \/ \E object \in Item, k \in Key, sensitive \in BOOLEAN :
          DeleteItemFromObject(object, k, sensitive)
    \/ \E root \in Item : Delete(root)
    \/ \E array, newitem \in Item : InsertItemInArray(array, newitem)
    \/ \E array \in Item : InsertNullInArray(array)
    \/ \E parent, item, replacement \in Item : ReplaceItem(parent, item, replacement)
    \/ \E object, replacement \in Item, k \in Key, sensitive \in BOOLEAN :
          ReplaceItemInObject(object, k, sensitive, replacement)

Spec == Init /\ [][Next]_vars

-----------------------------------------------------------------------------
(* What must hold. *)

(* Every field holds an item, NULL or a name, and only allocated items have *)
(* anything in them: a freed block is never marked or owned.                *)
TypeOK ==
    /\ live \subseteq Item
    /\ next  \in [Item -> Item \cup {NULL}]
    /\ prev  \in [Item -> Item \cup {NULL}]
    /\ child \in [Item -> Item \cup {NULL}]
    /\ string \in [Item -> Name \cup {NULL}]
    /\ isReference \subseteq live /\ stringIsConst \subseteq live
    /\ isObject \subseteq live /\ roots \subseteq live
    /\ crashed \in BOOLEAN

(* README.md:224-227: `next' and `prev' undo each other, the child entry of *)
(* the item that owns a list has prev = 0, and an item the program holds    *)
(* has no siblings.                                                         *)
DoublyLinked ==
    /\ \A x, y \in Item : next[x] = y <=> prev[y] = x
    /\ \A p \in live \ isReference : child[p] # NULL => prev[child[p]] = NULL
    /\ \A r \in roots : prev[r] = NULL /\ next[r] = NULL

(* No item has two holders: it is the child of at most one item that is not *)
(* a reference, and then neither held by the program nor linked after a     *)
(* sibling.  cJSON_Delete would free an item with two holders twice.        *)
OwnedOnce ==
    /\ \A p, q \in live \ isReference :
          child[p] = child[q] /\ child[p] # NULL => p = q
    /\ \A p \in live \ isReference :
          child[p] # NULL => child[p] \notin roots

(* Every loop over `next' and every cJSON_Delete ends: no item comes after  *)
(* itself in a list or owns itself, so every set of items has one that none *)
(* of them leads to.  What a reference shows is another's and not followed  *)
(* here, as cJSON_Delete does not follow it.  print_array, cJSON_Duplicate  *)
(* and the others that descend by `child' alone do (cJSON.c:1421, 2402):    *)
(* when a reference to an array was put inside that array they never end.   *)
Leads(y, z) == next[y] = z \/ (y \notin isReference /\ child[y] = z)
Acyclic ==
    \A T \in SUBSET live : T # {} => \E z \in T : \A y \in T : ~Leads(y, z)

(* No pointer of an allocated item, a reference included, leads to a freed  *)
(* item, and a freed item is on no list.                                    *)
NoDangling ==
    \A x \in Item : \A y \in {next[x], prev[x], child[x]} \ {NULL} :
        x \in live /\ y \in live

(* README.md:165: deleting what the program holds frees everything.  Every  *)
(* set that holds the roots and is closed under what cJSON_Delete follows   *)
(* holds all allocated items.                                               *)
NoLeak ==
    \A T \in SUBSET Item : roots \subseteq T /\ OwnClosed(T) => live \subseteq T

(* No call loses an item, whatever fails: one that the program or another   *)
(* item holds is still held after the call, unless the call freed it.  What *)
(* can be lost is an item that the call itself allocated, when there is no  *)
(* memory for its name (cJSON.c:1910, cJSON.h:238-244).                     *)
HasHolder(x) == x \in roots \/ \E y \in live : Leads(y, x)
KeepsHold == [][\A x \in live \cap live' : HasHolder(x) => HasHolder(x)']_vars

(* cJSON_Delete frees a name exactly when it is a copy: the flag            *)
(* cJSON_StringIsConst says what the name is (cJSON.h:199-202).             *)
NameFlagsAgree ==
    \A x \in live : string[x] # NULL => (x \in stringIsConst <=> string[x].literal)

(* README.md:233: every entry in the list of an object has a name.          *)
MembersNamed ==
    \A o \in isObject \ isReference : \A x \in Kids(o) : string[x] # NULL

(* CHANGELOG.md:5: no call of the API dereferences NULL.                    *)
NoNullDereference == ~crashed
=============================================================================
