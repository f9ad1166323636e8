---------------------------- MODULE JsonPatchRFC ----------------------------
(***************************************************************************)
(* What the patch functions promise: RFC 6901, 6902 and 7396                *)
(* (cJSON_Utils.h:25-69), written down here on the meaning of a document   *)
(* and not on its lists, and where the code keeps to them.  The departures *)
(* that are known are named, and everything else is covered.               *)
(***************************************************************************)
EXTENDS JsonPatch

(* RFC 6901: ~1 is a slash, ~0 a tilde, any other tilde an error. *)
RECURSIVE RfcDecode(_)
RfcDecode(token) ==
    IF token = <<>> THEN <<>>
    ELSE LET byte == CASE token[1] # Tilde -> token[1]
                       [] token[1] = Tilde /\ Len(token) > 1 /\ token[2] = One -> Slash
                       [] token[1] = Tilde /\ Len(token) > 1 /\ token[2] = Zero -> Tilde
                       [] OTHER -> NULL
             rest == RfcDecode(SubSeq(token, IF token[1] = Tilde THEN 3 ELSE 2, Len(token)))
         IN  IF byte = NULL \/ rest = NULL THEN NULL ELSE <<byte>> \o rest

(* The names on the way, or NULL for what is no JSON pointer. *)
RfcTokens(pointer, caseSensitive) ==
    LET names == [i \in 1..Len(pointer) - 1 |-> RfcDecode(pointer[i + 1])]
    IN  IF pointer[1] # <<>> \/ \E i \in DOMAIN names : names[i] = NULL THEN NULL
        ELSE [i \in DOMAIN names |-> IF caseSensitive THEN names[i] ELSE Fold(names[i])]

(* One digit; no array here has ten elements. *)
RfcIndex(name) ==
    IF Len(name) = 1 /\ name[1] \in Zero..Nine THEN name[1] - Zero ELSE NULL

RfcHas(value, name) ==
    \/ /\ value.kind = "array" /\ RfcIndex(name) # NULL
       /\ RfcIndex(name) < Len(value.elements)
    \/ value.kind = "object" /\ name \in DOMAIN value.members

RfcKid(value, name) ==
    IF value.kind = "array" THEN value.elements[RfcIndex(name) + 1] ELSE value.members[name]

RECURSIVE RfcGet(_, _)
RfcGet(value, names) ==
    IF names = <<>> THEN value
    ELSE IF RfcHas(value, names[1]) THEN RfcGet(RfcKid(value, names[1]), Tail(names))
    ELSE NULL

RfcSet(value, name, x) ==
    IF value.kind = "array"
    THEN [value EXCEPT !.elements[RfcIndex(name) + 1] = x]
    ELSE [value EXCEPT !.members = [n \in DOMAIN @ \cup {name} |-> IF n = name THEN x ELSE @[n]]]

RfcRemoveKid(value, name) ==
    IF value.kind = "array"
    THEN [value EXCEPT !.elements = RemoveAt(@, RfcIndex(name) + 1)]
    ELSE [value EXCEPT !.members = [n \in DOMAIN @ \ {name} |-> @[n]]]

RfcAddKid(value, name, x) ==
    CASE value.kind = "object" -> RfcSet(value, name, x)
      [] value.kind = "array" /\ name = <<45>> -> [value EXCEPT !.elements = Append(@, x)]
      [] value.kind = "array" /\ RfcIndex(name) # NULL /\ RfcIndex(name) =< Len(value.elements)
            -> [value EXCEPT !.elements = InsertAt(@, RfcIndex(name) + 1, x)]
      [] OTHER -> NULL

(* The value with x added at, put at, or the kid removed from names. *)
RECURSIVE RfcEdit(_, _, _, _)
RfcEdit(value, names, do, x) ==
    IF names = <<>> THEN IF do = "remove" THEN [kind |-> "invalid", value |-> 0] ELSE x
    ELSE IF Len(names) = 1 /\ do = "add" THEN RfcAddKid(value, names[1], x)
    ELSE IF ~RfcHas(value, names[1]) THEN NULL
    ELSE IF Len(names) = 1 /\ do = "remove" THEN RfcRemoveKid(value, names[1])
    ELSE LET kid == RfcEdit(RfcKid(value, names[1]), Tail(names), do, x)
         IN  IF kid = NULL THEN NULL ELSE RfcSet(value, names[1], kid)

(* RFC 6902: the value a patch makes of a value, or NULL for an error. *)
RfcApply(value, patch, caseSensitive) ==
    LET Names(p) == IF p = NULL THEN NULL ELSE RfcTokens(p, caseSensitive)
        path == Names(patch.path)
        from == Names(patch.from)
        new  == IF patch.value = NULL THEN NULL ELSE Meaning(patch.value, caseSensitive)
        it   == RfcGet(value, from)
    IN  IF path = NULL THEN NULL
        ELSE IF patch.op \in {"move", "copy"} /\ (from = NULL \/ it = NULL) THEN NULL
        ELSE IF patch.op \in {"add", "replace", "test"} /\ new = NULL THEN NULL
        ELSE CASE patch.op \in {"add", "replace"} -> RfcEdit(value, path, patch.op, new)
               [] patch.op = "remove" -> RfcEdit(value, path, "remove", NULL)
               [] patch.op = "copy"   -> RfcEdit(value, path, "add", it)
               [] patch.op = "test"   -> IF RfcGet(value, path) = new THEN value ELSE NULL
               [] patch.op = "move" ->
                    IF path = from THEN value
                    ELSE IF IsPrefix(from, path) THEN NULL
                    ELSE RfcEdit(RfcEdit(value, from, "remove", NULL), path, "add", it)
               [] OTHER -> NULL

(* RFC 7396 *)
RECURSIVE RfcMerge(_, _)
RfcMerge(target, patch) ==
    IF patch.kind # "object" THEN patch
    ELSE LET old == IF target # NULL /\ target.kind = "object" THEN target.members ELSE <<>>
             Old(n) == IF n \in DOMAIN old THEN old[n] ELSE NULL
             gone == {n \in DOMAIN patch.members : patch.members[n].kind = "null"}
         IN  [kind |-> "object",
              members |-> [n \in (DOMAIN old \cup DOMAIN patch.members) \ gone |->
                             IF n \in DOMAIN patch.members
                             THEN RfcMerge(Old(n), patch.members[n]) ELSE old[n]]]

-----------------------------------------------------------------------------
(* Where the code is known to depart. *)

Tokens(pointer) == IF pointer = NULL THEN {} ELSE {pointer[i] : i \in 2..Len(pointer)}

(* A pointer without a slash in front is not refused. *)
SlashInFront(pointer) == pointer # NULL => pointer[1] = <<>>

(* decode_pointer_inplace does not move what follows an escape. *)
EndsPlain(pointer) ==
    pointer # NULL => \A i \in DOMAIN Last(pointer) : Last(pointer)[i] # Tilde

(* An index may be empty or end in letters. *)
ProperIndex(token) == token # <<>> /\ (token[1] \in Zero..Nine =>
                                         \A i \in DOMAIN token : token[i] =< Nine)

(* Something is added below a number, say. *)
BelowScalar(document, patch) ==
    LET place == ItemFromPointer(document, Front(patch.path), sensitive)
    IN  /\ patch.op \in {"add", "copy", "move"} /\ Len(patch.path) > 1 /\ place # NULL
        /\ ~IsArray(At(document, place)) /\ ~IsObject(At(document, place))

(* The root is moved or copied to. *)
ToRoot(patch) == patch.op \in {"move", "copy"} /\ patch.path = RootPointer

Regular(document, patch) ==
    patch.path # NULL =>
    /\ SlashInFront(patch.path) /\ SlashInFront(patch.from)
    /\ EndsPlain(patch.path) /\ EndsPlain(patch.from)
    /\ \A token \in Tokens(patch.path) \cup Tokens(patch.from) : ProperIndex(token)
    /\ ~BelowScalar(document, patch) /\ ~ToRoot(patch)
    /\ Distinct(document, sensitive)
    /\ patch.value # NULL => Distinct(patch.value, sensitive)
    /\ sensitive => CaseAgrees(AllNames(document) \cup Tokens(patch.path) \cup
                               Tokens(patch.from) \cup
                               IF patch.value = NULL THEN {} ELSE AllNames(patch.value))

Plain(names) == \A n \in names : \A i \in DOMAIN n : n[i] \notin {Tilde, Slash}

RECURSIVE NullMember(_)
NullMember(item) ==
    \E i \in DOMAIN item.kids : \/ IsObject(item) /\ IsNull(item.kids[i].item)
                                \/ NullMember(item.kids[i].item)

Applied == phase \in {"reaching", "applying"} /\ last # NULL /\ ~Corrupt(doc)

-----------------------------------------------------------------------------
(* What must hold. *)

(* cJSON_Utils.h:31: a patch that is applied makes of the document what     *)
(* RFC 6902 says, and one that fails is one that the RFC calls an error, or *)
(* there was no memory.  Not so when a list was sorted before, by a test,   *)
(* say, and its first member is detached.                                   *)
AppliesAsRFC ==
    Applied /\ Regular(last.doc, last.patch) =>
        LET result == RfcApply(Meaning(last.doc, sensitive), last.patch, sensitive)
        IN  IF status = 0 THEN Meaning(doc, sensitive) = result
                          ELSE result = NULL \/ ~last.memory

(* A patch that fails leaves the document as it was, up to the order of     *)
(* members; but a replace without a value or memory has removed the old     *)
(* item, and a move that cannot be completed has lost the item it moved.    *)
FailureKeepsRest ==
    Applied /\ status # 0 =>
        LET Lost(path) == DetachPath(last.doc, path, sensitive).left
        IN  CASE last.patch.op = "replace" /\ status \in {7, 8}
                        /\ last.patch.path # RootPointer -> doc = Lost(last.patch.path)
              [] last.patch.op = "move" /\ status \in {9, 10, 11} -> doc = Lost(last.patch.from)
              [] OTHER -> Meaning(doc, TRUE) = Meaning(last.doc, TRUE)

(* cJSON_Utils.h:30-31: the patches generated from one document to another  *)
(* lead there when they are applied one after the other: indices are right  *)
(* after each removal, sorted lists are walked in step.  Not for names with *)
(* a tilde or a slash, nor, where case counts, when the order that          *)
(* sort_list merges by is not that of strcmp.  A copy of the document is    *)
(* never damaged; the document itself, which has been sorted, may be.       *)
PatchesReachTarget ==
    LET names == AllNames(begun) \cup AllNames(other)
    IN  phase = "reaching" /\ (patches = <<>> \/ status # 0 \/ Corrupt(doc))
        /\ Plain(names) /\ Distinct(begun, sensitive) /\ Distinct(other, sensitive)
        /\ (sensitive => CaseAgrees(names))
          => \/ status = 0 /\ Meaning(doc, sensitive) = Meaning(other, sensitive)
             \/ ~copied /\ Corrupt(doc)

(* cJSON_Utils.h:60-63: a merge makes of the target what RFC 7396 says.     *)
MergesAsRFC ==
    phase = "merged" /\ Distinct(begun, sensitive) /\ Distinct(other, sensitive) =>
        Meaning(doc, sensitive)
            = RfcMerge(Meaning(begun, sensitive), Meaning(other, sensitive))

(* cJSON_Utils.h:64: a generated merge patch moves from -> to, and there is *)
(* none when they are the same.  Null members of the target cannot be       *)
(* reached; names whose orders differ are walked out of step.  The same     *)
(* goes for copies as with PatchesReachTarget.  When there is no document   *)
(* to lead to, null is what is left (cJSON_Utils.c:1364).                   *)
MergeReachesTarget ==
    LET Reachable == /\ Distinct(begun, sensitive) /\ Distinct(other, sensitive)
                     /\ CaseAgrees(AllNames(begun) \cup AllNames(other))
                     /\ ~NullMember(other)
        Reached == Meaning(doc, sensitive) = Meaning(other, sensitive)
    IN  phase = "mergeReached" =>
            IF other = NULL THEN IsNull(doc)
            ELSE Reachable => Reached \/ (~copied /\ Corrupt(doc))

(* cJSON_Utils.h:69: the pointer that cJSONUtils_FindPointerFromObjectTo    *)
(* makes for an item leads cJSONUtils_GetPointer to that very item.         *)
PointersLead ==
    phase = "ready" /\ Plain(AllNames(doc)) /\ Distinct(doc, sensitive) =>
        \A place \in Places(doc) :
            ItemFromPointer(doc, FindPointer(doc, place), sensitive) = place

(* cJSON.h:230: cJSON_Compare and compare_json, which go through members in *)
(* quite different ways, both tell whether two documents mean the same.     *)
ComparesRight ==
    phase = "ready" /\ other # NULL /\ Distinct(doc, sensitive) /\ Distinct(other, sensitive) =>
        LET same == Meaning(doc, sensitive) = Meaning(other, sensitive)
        IN  /\ Compare(doc, other, sensitive) <=> same
            /\ (sensitive => CaseAgrees(AllNames(doc) \cup AllNames(other))) =>
                  (CompareJson(doc, other, sensitive).same <=> same)
=============================================================================
