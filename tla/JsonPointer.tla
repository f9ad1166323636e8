----------------------------- MODULE JsonPointer -----------------------------
(***************************************************************************)
(* JSON pointers in cJSON_Utils.c:101-458.  A pointer is the sequence of   *)
(* what stands between its slashes: "" is << <<>> >>, "/a/0" has the parts *)
(* "", "a" and "0".  Indices are small enough not to overflow size_t.      *)
(***************************************************************************)
EXTENDS JsonTree, SequencesExt

CONSTANT Unset      \* the byte that encode_string_as_pointer leaves unwritten

Slash == 47     Zero == 48      One == 49       Nine == 57      Tilde == 126

RootPointer == << <<>> >>

(* compare_pointers(name, token, sensitive) *)
RECURSIVE ComparePointers(_, _, _)
ComparePointers(name, token, sensitive) ==
    IF name = <<>> \/ token = <<>> THEN name = token
    ELSE IF token[1] = Tilde
    THEN /\ Len(token) > 1
         /\ \/ token[2] = Zero /\ name[1] = Tilde
            \/ token[2] = One  /\ name[1] = Slash
         /\ ComparePointers(Tail(name), SubSeq(token, 3, Len(token)), sensitive)
    ELSE /\ Same(<<name[1]>>, <<token[1]>>, sensitive)
         /\ ComparePointers(Tail(name), Tail(token), sensitive)

(* encode_string_as_pointer: a tilde becomes ~1, of a slash only the second *)
(* byte is written.                                                         *)
Encode(name) ==
    FlattenSeq([i \in DOMAIN name |->
        CASE name[i] = Slash -> <<Unset, One>>
          [] name[i] = Tilde -> <<Tilde, One>>
          [] OTHER           -> <<name[i]>>])

(* decode_pointer_inplace at reading position s and writing position d:     *)
(* only the bytes of an escape are written, what follows it is not moved.   *)
RECURSIVE DecodeFrom(_, _, _)
DecodeFrom(bytes, s, d) ==
    IF s > Len(bytes) THEN SubSeq(bytes, 1, d - 1)
    ELSE IF bytes[s] # Tilde THEN DecodeFrom(bytes, s + 1, d + 1)
    ELSE IF s < Len(bytes) /\ bytes[s + 1] = Zero
    THEN DecodeFrom([bytes EXCEPT ![d] = Tilde], s + 2, d + 1)
    ELSE IF s < Len(bytes) /\ bytes[s + 1] = One
    THEN DecodeFrom([bytes EXCEPT ![d + 1] = Slash], s + 2, d + 1)
    ELSE bytes

DecodeInPlace(token) == DecodeFrom(token, 1, 1)

(* decode_array_index_from_pointer, or NULL.  A digit in front lets every   *)
(* byte from '0' on pass, and no byte at all reads as 0.                    *)
RECURSIVE IndexOf(_, _)
IndexOf(token, index) ==
    IF token = <<>> THEN index
    ELSE IF token[1] < Zero THEN NULL
    ELSE IndexOf(Tail(token), 10 * index + token[1] - Zero)

DecodeIndex(token) ==
    IF token = <<>> THEN 0
    ELSE IF (token[1] = Zero /\ Len(token) > 1) \/ token[1] > Nine THEN NULL
    ELSE IndexOf(token, 0)

(* The index in decimal, for indices of one digit. *)
Digits(index) == <<Zero + index>>

-----------------------------------------------------------------------------
(* Places in a tree: the positions on the way down to an item. *)

RECURSIVE At(_, _)
At(item, place) ==
    IF place = <<>> THEN item ELSE At(item.kids[place[1]].item, Tail(place))

RECURSIVE Put(_, _, _)
Put(item, place, new) ==
    IF place = <<>> THEN new
    ELSE [item EXCEPT !.kids[place[1]].item = Put(@, Tail(place), new)]

RECURSIVE Places(_)
Places(item) ==
    {<<>>} \cup UNION {{<<i>> \o p : p \in Places(item.kids[i].item)} : i \in DOMAIN item.kids}

(* The position of the element with that index, or 0. *)
ElementAt(array, index) ==
    IF index = NULL THEN 0 ELSE IF index < Len(array.kids) THEN index + 1 ELSE 0

(* The kid that a token of a pointer names, or 0. *)
KidAt(item, token, sensitive) ==
    IF IsArray(item) THEN ElementAt(item, DecodeIndex(token))
    ELSE IF IsObject(item)
    THEN LET found == {i \in DOMAIN item.kids :
                            ComparePointers(item.kids[i].name, token, sensitive)}
         IN  IF found = {} THEN 0 ELSE CHOOSE i \in found : \A j \in found : i =< j
    ELSE 0

RECURSIVE Follow(_, _, _)
Follow(item, tokens, sensitive) ==
    IF tokens = <<>> THEN <<>>
    ELSE LET i == KidAt(item, tokens[1], sensitive)
             rest == IF i = 0 THEN NULL
                     ELSE Follow(item.kids[i].item, Tail(tokens), sensitive)
         IN  IF rest = NULL THEN NULL ELSE <<i>> \o rest

(* get_item_from_pointer: the place of the item, or NULL.  A pointer that   *)
(* does not begin with a slash is not followed.                             *)
ItemFromPointer(object, pointer, sensitive) ==
    IF pointer = NULL THEN NULL
    ELSE IF pointer[1] # <<>> THEN <<>> ELSE Follow(object, Tail(pointer), sensitive)

(* Mutant: elements are counted from one. *)
FromOne(i) == i

(* child_index of the kid at position i. *)
ChildIndex(i) == i - 1

(* cJSONUtils_FindPointerFromObjectTo, for the item at a place. *)
RECURSIVE TokensTo(_, _)
TokensTo(object, place) ==
    IF place = <<>> THEN <<>>
    ELSE LET kid == object.kids[place[1]]
         IN  <<IF IsArray(object) THEN Digits(ChildIndex(place[1])) ELSE Encode(kid.name)>>
                \o TokensTo(kid.item, Tail(place))

FindPointer(object, place) == RootPointer \o TokensTo(object, place)

-----------------------------------------------------------------------------
(* What cJSON_DetachItemViaPointer leaves of a list without its i-th kid.   *)
(* If that is the first and its prev is stale, the kid that points to is    *)
(* linked to the second one: the list never ends any more, or, if that kid  *)
(* was deleted, freed memory is written.  What becomes of such an item is   *)
(* not followed.                                                            *)
Cyclic == Scalar("cyclic", 0)

Detach(parent, i) ==
    IF i = 1 /\ parent.stale THEN Cyclic ELSE [parent EXCEPT !.kids = RemoveAt(@, i)]

(* Which kid detach_path detaches, or 0: of an object the first member of   *)
(* that name without regard to case, in either mode.                        *)
KidToDetach(parent, token) ==
    CASE IsArray(parent)  -> ElementAt(parent, DecodeIndex(token))
      [] IsObject(parent) -> FirstNamed(parent, token, FALSE)
      [] OTHER -> 0

(* The i-th kid of the parent that is at place, and what is left. *)
DetachKid(object, place, parent, i) ==
    IF i = 0 THEN NULL
    ELSE [item |-> parent.kids[i].item, left |-> Put(object, place, Detach(parent, i))]

DetachFrom(object, place, token) ==
    LET parent == At(object, place)
    IN  IF place = NULL THEN NULL
        ELSE DetachKid(object, place, parent, KidToDetach(parent, token))

(* detach_path: the item and what is left, or NULL. *)
DetachPath(object, path, sensitive) ==
    IF Len(path) = 1 THEN NULL
    ELSE DetachFrom(object, ItemFromPointer(object, Front(path), sensitive),
                    DecodeInPlace(Last(path)))
=============================================================================
