------------------------------ MODULE JsonPatch ------------------------------
(***************************************************************************)
(* JSON patches and merge patches, cJSON_Utils.c:578-1443: a program that  *)
(* compares, patches and merges one document, patch by patch.  The patches *)
(* are its own or made by cJSONUtils_GeneratePatches.                      *)
(*                                                                         *)
(* A patch has the fields op, path, from and value; NULL is a field that   *)
(* is missing.  A path or from that is there is a string.  The copy of a   *)
(* value may fail, all other memory is enough.                             *)
(***************************************************************************)
EXTENDS JsonPointer

CONSTANTS
    Pairs,          \* the documents to begin with, and those to compare with
    PatchLists      \* the lists of patches a program may apply

VARIABLES
    doc, other,     \* two documents
    sensitive,      \* whether the case sensitive functions are used
    phase,          \* what the program does
    patches,        \* the patches that are still to be applied
    status,         \* what the last call of apply_patch returned
    last,           \* how doc was before that call, and the call's patch
    begun,          \* how doc was at first
    copied          \* whether what was generated is applied to a copy of doc

vars == <<doc, other, sensitive, phase, patches, status, last, begun, copied>>

Patch(op, path, from, value) == [op |-> op, path |-> path, from |-> from, value |-> value]

-----------------------------------------------------------------------------
(* apply_patch.  An outcome is the document and the status. *)

Outcome(document, code) == [doc |-> document, status |-> code]

(* Mutant: an index just past the end is refused. *)
InsertInside(index, kids) == index < Len(kids)

(* insert_item_in_array takes an index up to the length of the array. *)
MayInsert(index, kids) == index =< Len(kids)

(* The member of that name is deleted and the new one comes last. *)
SetMember(object, name, item, caseSensitive) ==
    LET i == FirstNamed(object, name, caseSensitive)
        rest == IF i = 0 THEN object ELSE Detach(object, i)
    IN  [rest EXCEPT !.kids = Append(@, Member(name, item))]

AddElement(array, index, value) ==
    IF index = NULL THEN Outcome(array, 11)
    ELSE IF ~MayInsert(index, array.kids) THEN Outcome(array, 10)
    ELSE Outcome([array EXCEPT !.kids = InsertAt(@, index + 1, Member(NULL, value))], 0)

(* A parent that is neither array nor object takes nothing, and that is no  *)
(* error.                                                                   *)
AddTo(parent, token, value, caseSensitive) ==
    CASE IsArray(parent) /\ token = <<45>> ->
            Outcome([parent EXCEPT !.kids = Append(@, Member(NULL, value))], 0)
      [] IsArray(parent) /\ token # <<45>> -> AddElement(parent, DecodeIndex(token), value)
      [] IsObject(parent) -> Outcome(SetMember(parent, token, value, caseSensitive), 0)
      [] OTHER -> Outcome(parent, 0)

(* What has become of the item at a place has become of the document. *)
InPlace(document, place, outcome) ==
    Outcome(Put(document, place, outcome.doc), outcome.status)

AddBelow(document, place, token, value, caseSensitive) ==
    IF place = NULL THEN Outcome(document, 9)
    ELSE InPlace(document, place, AddTo(At(document, place), token, value, caseSensitive))

(* Just add value to path. *)
AddAt(document, path, value, caseSensitive) ==
    IF Len(path) = 1 THEN Outcome(document, 9)
    ELSE AddBelow(document, ItemFromPointer(document, Front(path), caseSensitive),
                  DecodeInPlace(Last(path)), value, caseSensitive)

(* The operations that put a copy of patch.value somewhere. *)
AddCopy(document, patch, caseSensitive, memory) ==
    IF patch.value = NULL THEN Outcome(document, 7)
    ELSE IF ~memory THEN Outcome(document, 8)
    ELSE IF patch.path = RootPointer THEN Outcome(Copied(patch.value), 0)
    ELSE AddAt(document, patch.path, Copied(patch.value), caseSensitive)

(* Get rid of old. *)
Rid(document, detached) ==
    IF detached = NULL THEN Outcome(document, 13) ELSE Outcome(detached.left, 0)

RemoveItem(document, patch, caseSensitive) ==
    IF patch.path = RootPointer THEN Outcome(Scalar("invalid", 0), 0)
    ELSE Rid(document, DetachPath(document, patch.path, caseSensitive))

(* The old item is gone before it is known whether there is a new one. *)
AddAfter(removed, patch, caseSensitive, memory) ==
    IF removed.status # 0 THEN removed
    ELSE AddCopy(removed.doc, patch, caseSensitive, memory)

ReplaceItem(document, patch, caseSensitive, memory) ==
    IF patch.path = RootPointer THEN AddCopy(document, patch, caseSensitive, memory)
    ELSE AddAfter(RemoveItem(document, patch, caseSensitive), patch, caseSensitive, memory)

(* An item that is moved is detached first, and lost when it cannot be added.*)
AddDetached(document, detached, path, caseSensitive) ==
    IF detached = NULL THEN Outcome(document, 5)
    ELSE AddAt(detached.left, path, detached.item, caseSensitive)

MoveItem(document, patch, caseSensitive) ==
    IF patch.from = NULL THEN Outcome(document, 4)
    ELSE AddDetached(document, DetachPath(document, patch.from, caseSensitive),
                     patch.path, caseSensitive)

(* Mutant: what is copied is detached, as in a move. *)
DetachedSource(document, from, caseSensitive) == DetachPath(document, from, caseSensitive)

(* The item that from leads to stays where it is. *)
Source(document, from, caseSensitive) ==
    LET place == ItemFromPointer(document, from, caseSensitive)
    IN  IF place = NULL THEN NULL
        ELSE [item |-> At(document, place), left |-> document]

AddSource(document, source, path, caseSensitive, memory) ==
    IF source = NULL THEN Outcome(document, 5)
    ELSE IF ~memory THEN Outcome(document, 6)
    ELSE AddAt(source.left, path, Copied(source.item), caseSensitive)

CopyItem(document, patch, caseSensitive, memory) ==
    IF patch.from = NULL THEN Outcome(document, 4)
    ELSE AddSource(document, Source(document, patch.from, caseSensitive), patch.path,
                   caseSensitive, memory)

(* compare_json sorts the objects of the document that it comes by. *)
Test(document, patch, caseSensitive) ==
    LET place == ItemFromPointer(document, patch.path, caseSensitive)
        r == CompareJson(At(document, place), patch.value, caseSensitive)
    IN  IF place = NULL THEN Outcome(document, 1)
        ELSE Outcome(Put(document, place, r.a), IF r.same THEN 0 ELSE 1)

ApplyPatch(document, patch, caseSensitive, memory) ==
    IF patch.path = NULL THEN Outcome(document, 2)
    ELSE CASE patch.op = "test"    -> Test(document, patch, caseSensitive)
           [] patch.op = "add"     -> AddCopy(document, patch, caseSensitive, memory)
           [] patch.op = "remove"  -> RemoveItem(document, patch, caseSensitive)
           [] patch.op = "replace" -> ReplaceItem(document, patch, caseSensitive, memory)
           [] patch.op = "move"    -> MoveItem(document, patch, caseSensitive)
           [] patch.op = "copy"    -> CopyItem(document, patch, caseSensitive, memory)
           [] OTHER                -> Outcome(document, 3)

-----------------------------------------------------------------------------
(* create_patches(patches, path, from, to): the patches, and from and to    *)
(* with the objects that it came by sorted.                                 *)

Made(list, from, to) == [patches |-> list, from |-> from, to |-> to]
Compose(op, path, suffix, value) ==
    Patch(op, Append(path, suffix), NULL, IF value = NULL THEN NULL ELSE Copied(value))
Replace(path, value) == <<Patch("replace", path, NULL, Copied(value))>>

(* Mutant: the index goes on with every element that is removed. *)
NextRemoved(index) == index + 1

(* All elements that are too many are removed at the same index. *)
SameIndex(index) == index

RECURSIVE RemoveElements(_, _, _)
RemoveElements(path, index, count) ==
    IF count = 0 THEN <<>>
    ELSE <<Compose("remove", path, Encode(Digits(index)), NULL)>>
            \o RemoveElements(path, SameIndex(index), count - 1)

RECURSIVE CreatePatches(_, _, _, _)
RECURSIVE WalkElements(_, _, _, _, _)
RECURSIVE WalkMembers(_, _, _, _)

WalkElements(path, index, from, to, caseSensitive) ==
    IF from = <<>>
    THEN Made([i \in DOMAIN to |-> Compose("add", path, <<45>>, to[i].item)], from, to)
    ELSE IF to = <<>>
    THEN Made(RemoveElements(path, index, Len(from)), from, to)
    ELSE LET one  == CreatePatches(Append(path, Digits(index)), from[1].item, to[1].item,
                                   caseSensitive)
             rest == WalkElements(path, index + 1, Tail(from), Tail(to), caseSensitive)
         IN  Made(one.patches \o rest.patches,
                  <<Member(NULL, one.from)>> \o rest.from,
                  <<Member(NULL, one.to)>> \o rest.to)

WalkMembers(path, from, to, caseSensitive) ==
    IF from = <<>> /\ to = <<>> THEN Made(<<>>, from, to)
    ELSE IF to = <<>> \/ (from # <<>> /\ Below(from[1].name, to[1].name, caseSensitive))
    THEN LET rest == WalkMembers(path, Tail(from), to, caseSensitive)
         IN  Made(<<Compose("remove", path, Encode(from[1].name), NULL)>> \o rest.patches,
                  <<from[1]>> \o rest.from, rest.to)
    ELSE IF from # <<>> /\ Same(from[1].name, to[1].name, caseSensitive)
    THEN LET one  == CreatePatches(Append(path, Encode(from[1].name)), from[1].item,
                                   to[1].item, caseSensitive)
             rest == WalkMembers(path, Tail(from), Tail(to), caseSensitive)
         IN  Made(one.patches \o rest.patches,
                  <<Member(from[1].name, one.from)>> \o rest.from,
                  <<Member(to[1].name, one.to)>> \o rest.to)
    ELSE LET rest == WalkMembers(path, from, Tail(to), caseSensitive)
         IN  Made(<<Compose("add", path, Encode(to[1].name), to[1].item)>> \o rest.patches,
                  rest.from, <<to[1]>> \o rest.to)

CreatePatches(path, from, to, caseSensitive) ==
    IF from.kind # to.kind
    THEN Made(Replace(path, to), from, to)
    ELSE CASE from.kind \in {"number", "string"} ->
                Made(IF from.value = to.value THEN <<>>
                     ELSE Replace(path, to), from, to)
           [] from.kind \in {"array", "object"} ->
                LET x == IF IsObject(from) THEN SortObject(from, caseSensitive) ELSE from
                    y == IF IsObject(to) THEN SortObject(to, caseSensitive) ELSE to
                    r == IF IsObject(from)
                         THEN WalkMembers(path, x.kids, y.kids, caseSensitive)
                         ELSE WalkElements(path, 0, x.kids, y.kids, caseSensitive)
                IN  Made(r.patches, [x EXCEPT !.kids = r.from], [y EXCEPT !.kids = r.to])
           [] OTHER -> Made(<<>>, from, to)

-----------------------------------------------------------------------------
(* Merge patches. *)

RemoveNamed(object, name, caseSensitive) ==
    LET i == FirstNamed(object, name, caseSensitive)
    IN  IF i = 0 THEN object ELSE Detach(object, i)

(* Mutant: a scalar is merged into as it is. *)
KeepScalar(target) == IF target = NULL \/ IsArray(target) THEN Object(<<>>) ELSE target

(* A target that is no object is replaced by an empty one. *)
ObjectTarget(target) == IF IsObject(target) THEN target ELSE Object(<<>>)

RECURSIVE Merged(_, _, _)
RECURSIVE MergeMembers(_, _, _)
MergeMembers(target, kids, caseSensitive) ==
    IF kids = <<>> THEN target
    ELSE LET name == kids[1].name
             old  == Named(target, name, caseSensitive)
             rest == RemoveNamed(target, name, caseSensitive)
             new  == IF IsNull(kids[1].item) THEN rest
                     ELSE [rest EXCEPT !.kids =
                            Append(@, Member(name, Merged(old, kids[1].item, caseSensitive)))]
         IN  MergeMembers(new, Tail(kids), caseSensitive)

(* merge_patch *)
Merged(target, patch, caseSensitive) ==
    IF ~IsObject(patch) THEN Copied(patch)
    ELSE MergeMembers(ObjectTarget(target), patch.kids, caseSensitive)

(* Mutant: what is only in from is passed over. *)
NoRemoval(name) == <<>>

(* A null asks for the removal. *)
Removal(name) == <<Member(name, Scalar("null", 0))>>

(* generate_merge_patch: the patch, NULL when there is nothing to change,   *)
(* and from and to as it leaves them.  It walks with strcmp whatever the    *)
(* mode, and goes down without regard to case.                              *)
Generated(patch, from, to) == [patch |-> patch, from |-> from, to |-> to]
Joined(one, rest) ==
    Generated(one.patch \o rest.patch, one.from \o rest.from, one.to \o rest.to)

MemberGenerated(name, one) ==
    Generated(IF one.patch = NULL THEN <<>> ELSE <<Member(name, one.patch)>>,
              <<Member(name, one.from)>>, <<Member(name, one.to)>>)

(* No patch when there is nothing in it. *)
ObjectGenerated(from, to, r) ==
    Generated(IF r.patch = <<>> THEN NULL ELSE Object(r.patch),
              [from EXCEPT !.kids = r.from], [to EXCEPT !.kids = r.to])

RECURSIVE GenerateMergePatch(_, _, _)
RECURSIVE WalkMerge(_, _, _)

(* Two members of one name, as compare_json found and left them. *)
Unlike(compared) ==
    IF compared.same THEN Generated(NULL, compared.a, compared.b)
    ELSE GenerateMergePatch(compared.a, compared.b, FALSE)

WalkMerge(from, to, caseSensitive) ==
    IF from = <<>> /\ to = <<>> THEN Generated(<<>>, from, to)
    ELSE IF to = <<>> \/ (from # <<>> /\ StrLess(from[1].name, to[1].name))
    THEN Joined(Generated(Removal(from[1].name), <<from[1]>>, <<>>),
                WalkMerge(Tail(from), to, caseSensitive))
    ELSE IF from = <<>> \/ from[1].name # to[1].name
    THEN Joined(Generated(<<Member(to[1].name, Copied(to[1].item))>>, <<>>, <<to[1]>>),
                WalkMerge(from, Tail(to), caseSensitive))
    ELSE Joined(MemberGenerated(to[1].name,
                    Unlike(CompareJson(from[1].item, to[1].item, caseSensitive))),
                WalkMerge(Tail(from), Tail(to), caseSensitive))

GenerateMergePatch(from, to, caseSensitive) ==
    IF to = NULL THEN Generated(Scalar("null", 0), from, to)
    ELSE IF ~IsObject(to) \/ ~IsObject(from) THEN Generated(Copied(to), from, to)
    ELSE LET x == SortObject(from, caseSensitive)
             y == SortObject(to, caseSensitive)
         IN  ObjectGenerated(x, y, WalkMerge(x.kids, y.kids, caseSensitive))

-----------------------------------------------------------------------------
(* A list somewhere in the document never ends. *)
RECURSIVE Corrupt(_)
Corrupt(item) ==
    item.kind = "cyclic" \/ \E i \in DOMAIN item.kids : Corrupt(item.kids[i].item)

Init ==
    /\ \E pair \in Pairs : doc = pair[1] /\ other = pair[2]
    /\ sensitive \in BOOLEAN
    /\ phase = "ready"
    /\ patches = <<>>
    /\ status = 0
    /\ last = NULL
    /\ begun = doc
    /\ copied = FALSE

(* cJSONUtils_GeneratePatches(doc, other), to be applied to doc, or to a    *)
(* duplicate of it as in cJSON_Utils.h:40-56.                               *)
GeneratePatches(copy) ==
    /\ phase = "ready" /\ other # NULL
    /\ LET r == CreatePatches(RootPointer, doc, other, sensitive)
       IN  /\ doc' = IF copy THEN Copied(r.from) ELSE r.from
           /\ other' = r.to /\ patches' = r.patches
    /\ copied' = copy
    /\ phase' = "reaching"
    /\ UNCHANGED <<sensitive, status, last, begun>>

(* The program has patches of its own. *)
GivePatches(list) ==
    /\ phase = "ready" /\ other = NULL
    /\ patches' = list
    /\ phase' = "applying"
    /\ UNCHANGED <<doc, other, sensitive, status, last, begun, copied>>

(* One turn of the loop in cJSONUtils_ApplyPatches, which ends at the first *)
(* patch that fails.                                                        *)
ApplyNext(memory) ==
    /\ phase \in {"reaching", "applying"}
    /\ patches # <<>> /\ status = 0 /\ ~Corrupt(doc)
    /\ phase = "reaching" => memory
    /\ LET r == ApplyPatch(doc, Head(patches), sensitive, memory)
       IN  doc' = r.doc /\ status' = r.status
    /\ patches' = Tail(patches)
    /\ last' = [doc |-> doc, patch |-> Head(patches), memory |-> memory]
    /\ UNCHANGED <<other, sensitive, phase, begun, copied>>

(* cJSONUtils_MergePatch(doc, other) *)
MergePatch ==
    /\ phase = "ready" /\ other # NULL
    /\ doc' = Merged(doc, other, sensitive)
    /\ phase' = "merged"
    /\ UNCHANGED <<other, sensitive, patches, status, last, begun, copied>>

(* cJSONUtils_GenerateMergePatch(doc, other), and doc or a copy of it       *)
(* merged with that when there is one.  Without another document the patch  *)
(* is to delete everything.                                                 *)
MergeGenerated(copy) ==
    /\ phase = "ready"
    /\ LET r == GenerateMergePatch(doc, other, sensitive)
           from == IF copy THEN Copied(r.from) ELSE r.from
       IN  /\ doc' = IF r.patch = NULL THEN from ELSE Merged(from, r.patch, sensitive)
           /\ other' = r.to
    /\ copied' = copy
    /\ phase' = "mergeReached"
    /\ UNCHANGED <<sensitive, patches, status, last, begun>>

Next ==
    \/ \E copy \in BOOLEAN : GeneratePatches(copy) \/ MergeGenerated(copy)
    \/ \E list \in PatchLists : GivePatches(list)
    \/ \E memory \in BOOLEAN : ApplyNext(memory)
    \/ MergePatch

Spec == Init /\ [][Next]_vars
=============================================================================
