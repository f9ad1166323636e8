------------------------------- MODULE Parser -------------------------------
(***************************************************************************)
(* One call of cJSON_ParseWithOpts (cJSON.c:978-1063) and the recursive    *)
(* descent below it: parse_value, parse_array, parse_object, parse_string, *)
(* with the blocks they allocate and the pointers that hold them.          *)
(*                                                                         *)
(* The C stack is the variable `stack', one frame per active parse_array   *)
(* or parse_object.  Any allocation may fail.  The text is a sequence of *)
(* byte classes; offsets count from 0 as in the code.                      *)
(***************************************************************************)
EXTENDS Integers, Sequences

CONSTANTS
    Texts,          \* the texts a caller may pass; <<>> is the NULL pointer
    NestingLimit,   \* CJSON_NESTING_LIMIT
    NumberLimit,    \* how many bytes of a number are looked at: 63
    None            \* no position

(* The classes of bytes that the parser tells apart:                        *)
(*   nul, blank     the terminator, and every other byte up to 32           *)
(*   t              each of the two bytes that stand for null, true, false  *)
(*   digit, minus   what numbers are made of                                *)
(*   quote, escape  the double quote and the backslash                      *)
(*   letter         a byte that may follow a backslash                      *)
(*   other          a byte that starts no value and follows no backslash    *)
(*   bom            the byte order mark                                     *)
(* and the punctuation, under its name.                                     *)
Byte == {"nul", "blank", "t", "digit", "minus", "quote", "escape", "letter",
         "other", "bom", "lbracket", "rbracket", "lbrace", "rbrace", "comma", "colon"}

ASSUME TextsAreStrings ==
    \A t \in Texts : /\ t \in Seq(Byte)
                     /\ t # <<>> => /\ t[Len(t)] = "nul"
                                    /\ \A i \in 1 .. Len(t) - 1 : t[i] # "nul"
ASSUME LimitsAreNumbers == NestingLimit \in Nat /\ NumberLimit \in Nat \ {0}
ASSUME NoneIsNoPosition == None \notin Int

VARIABLES
    text,           \* value
    requireNul,     \* require_null_terminated
    wantEnd,        \* return_parse_end is not NULL
    pc,             \* what happens next
    offset,         \* buffer.offset
    depth,          \* buffer.depth
    stack,          \* the frames: what is parsed, and the item it goes into
    item,           \* the item parse_value or parse_string fills
    ending,         \* input_end, once parse_string found it
    heap,           \* the blocks that are allocated
    holds,          \* which pointer holds which block
    fresh,          \* the next block
    starved,        \* an allocation returned NULL
    globalError,    \* global_error.position, None when json is NULL
    parseEnd        \* *return_parse_end

vars == <<text, requireNul, wantEnd, pc, offset, depth, stack, item, ending,
          heap, holds, fresh, starved, globalError, parseEnd>>
call == <<text, requireNul, wantEnd>>
results == <<globalError, parseEnd>>
blocks == <<heap, holds, fresh, starved>>

length == Len(text)
At(i) == text[i + 1]
Can(i) == i < length         \* can_access_at_index(buffer, i - offset)

-----------------------------------------------------------------------------
(* Reading.                                                                 *)

Least(S) == CHOOSE i \in S : \A j \in S : i =< j

(* Mutant: no step back from the end of the buffer. *)
SkipOver(o) ==
    LET Dark == {i \in o .. length - 1 : At(i) \notin {"blank", "nul"}}
    IN  IF Dark = {} THEN length ELSE Least(Dark)

(* buffer_skip_whitespace: the terminator is blank too, and the skip steps  *)
(* back onto it. *)
Skip(o) ==
    LET Dark == {i \in o .. length - 1 : At(i) \notin {"blank", "nul"}}
    IN  IF Dark # {} THEN Least(Dark) ELSE IF o =< length THEN length - 1 ELSE o

(* skip_utf8_bom: only before at least one byte of text. *)
SkipBom == IF Can(2) /\ At(0) = "bom" THEN 1 ELSE 0

(* parse_number: the number characters that are looked at, those strtod     *)
(* takes, and where they end: at o when they hold no digit.                 *)
NumberBytes(o) ==
    {i \in o .. length - 1 : /\ i - o < NumberLimit
                             /\ \A j \in o .. i : At(j) \in {"digit", "minus"}}
Taken(o) ==
    {i \in NumberBytes(o) : \A j \in o .. i : At(j) = "minus" => j = o}
NumberEnd(o) ==
    IF \E i \in Taken(o) : At(i) = "digit"
    THEN 1 + CHOOSE i \in Taken(o) : \A j \in Taken(o) : j =< i
    ELSE o

(* Mutant: the backslash before byte i may itself be escaped. *)
AfterEscape(o, i) == i > o + 1 /\ At(i - 1) = "escape"

(* Byte i of the string whose opening quote is at o follows an odd number   *)
(* of backslashes. *)
Escaped(o, i) ==
    \E s \in o + 1 .. i :
       /\ \A j \in s .. i - 1 : At(j) = "escape"
       /\ s = o + 1 \/ At(s - 1) # "escape"
       /\ (i - s) % 2 = 1

(* The quotes that end the string, and the backslashes that start an escape *)
(* sequence there is none of. *)
Closing(o) == {i \in o + 1 .. length - 1 : At(i) = "quote" /\ ~Escaped(o, i)}
BadEscapes(o, end) ==
    {i \in o + 1 .. end - 1 : /\ At(i) = "escape" /\ ~Escaped(o, i)
                              /\ At(i + 1) \notin {"quote", "escape", "letter"}}

-----------------------------------------------------------------------------
(* Blocks.                                                                  *)

(* Pointers: the local `head' of a frame, the local `output' of             *)
(* parse_string, the result, and the fields of an item.                     *)
Slot == [at : {"head", "output", "root", "child", "string", "valuestring"}, of : Nat]
Local(name, n) == [at |-> name, of |-> n]
Field(i, name) == [at |-> name, of |-> i]
Held(slot) == {h.block : h \in {g \in holds : g.slot = slot}}

(* What freeing the blocks that a pointer holds frees: cJSON_Delete. *)
Owned(slot) ==
    LET owned[b \in heap] ==       \* what holds a block is older than the block
            \E h \in holds :
               /\ h.block = b
               /\ \/ h.slot = slot
                  \/ /\ h.slot.at \in {"child", "string", "valuestring"}
                     /\ h.slot.of \in {a \in heap : a < b}
                     /\ owned[h.slot.of]
    IN  {b \in heap : owned[b]}

(* Mutant: the list of a frame that failed is forgotten. *)
ReleaseNothing(slot) ==
    /\ holds' = {h \in holds : h.slot # slot}
    /\ UNCHANGED heap

Release(slot) ==
    /\ heap' = heap \ Owned(slot)
    /\ holds' = {h \in holds : h.block \notin Owned(slot)}

Allocate(slot) ==
    /\ heap' = heap \cup {fresh}
    /\ holds' = holds \cup {[slot |-> slot, block |-> fresh]}
    /\ fresh' = fresh + 1
    /\ UNCHANGED starved

AllocateFails ==
    /\ starved' = TRUE
    /\ UNCHANGED <<heap, holds, fresh>>

(* Mutant: both pointers hold the block afterwards. *)
Share(from, to) ==
    holds' = holds \cup {[slot |-> to, block |-> b] : b \in Held(from)}

Move(from, to) ==
    holds' = {h \in holds : h.slot # from} \cup {[slot |-> to, block |-> b] : b \in Held(from)}

-----------------------------------------------------------------------------
(* The call.                                                                *)

Init ==
    /\ text \in Texts
    /\ requireNul \in BOOLEAN /\ wantEnd \in BOOLEAN
    /\ pc = "start"
    /\ offset = 0 /\ depth = 0
    /\ stack = <<>>
    /\ item = 0 /\ ending = 0
    /\ heap = {} /\ holds = {} /\ fresh = 1 /\ starved = FALSE
    /\ globalError \in {None, 0}    \* an earlier call may have left an error
    /\ parseEnd = None

(* NULL fails at once; otherwise the result is allocated.                   *)
Start ==
    /\ pc = "start"
    /\ globalError' = None
    /\ \/ /\ text = <<>>
          /\ pc' = "no"
          /\ UNCHANGED <<offset, item, blocks>>
       \/ /\ text # <<>>
          /\ AllocateFails
          /\ pc' = "no"
          /\ UNCHANGED <<offset, item>>
       \/ /\ text # <<>>
          /\ Allocate(Local("root", 0))
          /\ item' = fresh
          /\ offset' = Skip(SkipBom)
          /\ pc' = "value"
    /\ UNCHANGED <<call, depth, stack, ending, parseEnd>>

(* parse_value, for what has no parts. *)
Scalar ==
    /\ pc = "value"
    /\ \/ /\ Can(offset + 1) /\ At(offset) = "t" /\ At(offset + 1) = "t"
          /\ offset' = offset + 2
          /\ pc' = "ok"
       \/ /\ At(offset) \in {"minus", "digit"}
          /\ offset' = NumberEnd(offset)
          /\ pc' = IF NumberEnd(offset) = offset THEN "no" ELSE "ok"
       \/ /\ At(offset) \notin {"minus", "digit", "quote", "lbracket", "lbrace"}
          /\ ~(Can(offset + 1) /\ At(offset) = "t" /\ At(offset + 1) = "t")
          /\ pc' = "no"
          /\ UNCHANGED offset
    /\ UNCHANGED <<call, depth, stack, item, ending, blocks, results>>

(* parse_string, first pass: find the end and allocate the output. *)
ScanString(decode) ==
    \/ /\ Closing(offset) # {}
       /\ ending' = Least(Closing(offset))
       /\ Allocate(Local("output", 0))
       /\ pc' = decode
       /\ UNCHANGED offset
    \/ /\ IF Closing(offset) = {} THEN UNCHANGED blocks ELSE AllocateFails
       /\ pc' = "no"
       /\ offset' = offset + 1
       /\ UNCHANGED ending

StringValue ==
    /\ pc = "value"
    /\ At(offset) = "quote"
    /\ ScanString("decodeValue")
    /\ UNCHANGED <<call, depth, stack, item, results>>

(* Second pass: a bad escape sequence gives the output back. *)
BadString ==
    /\ pc \in {"decodeValue", "decodeName"}
    /\ BadEscapes(offset, ending) # {}
    /\ offset' = Least(BadEscapes(offset, ending))
    /\ Release(Local("output", 0))
    /\ pc' = "no"
    /\ UNCHANGED <<call, depth, stack, item, ending, fresh, starved, results>>

DecodeValue ==
    /\ pc = "decodeValue"
    /\ BadEscapes(offset, ending) = {}
    /\ Move(Local("output", 0), Field(item, "valuestring"))
    /\ offset' = ending + 1
    /\ pc' = "ok"
    /\ UNCHANGED <<call, depth, stack, item, ending, heap, fresh, starved, results>>

Closer(kind) == IF kind = "array" THEN "rbracket" ELSE "rbrace"
Top == stack[Len(stack)]

(* Mutants: the depth grows with every list, not with their nesting; a list *)
(* that ends is left twice.                                                 *)
DepthKept == depth
DepthTwice == depth - 2

DepthLeft == depth - 1

(* Mutant: one level more than the limit. *)
OverLimit == depth > NestingLimit

TooDeep == depth >= NestingLimit

Past(o) == o + 1

(* Mutant: the frame is not left. *)
StackKept == stack

Popped == SubSeq(stack, 1, Len(stack) - 1)

(* parse_array and parse_object up to the loop. *)
Open(kind) ==
    /\ pc = "value"
    /\ At(offset) = IF kind = "array" THEN "lbracket" ELSE "lbrace"
    /\ \/ /\ TooDeep
          /\ pc' = "no"
          /\ UNCHANGED <<offset, depth, stack>>
       \/ /\ ~TooDeep
          /\ LET o == Skip(offset + 1)
             IN  \/ /\ Can(o) /\ At(o) = Closer(kind)
                    /\ offset' = Past(o)
                    /\ pc' = "ok"
                    /\ UNCHANGED <<depth, stack>>
                 \/ /\ Can(o) => At(o) # Closer(kind)
                    /\ offset' = o - 1
                    /\ depth' = depth + 1
                    /\ stack' = Append(stack, [kind |-> kind, item |-> item])
                    /\ pc' = IF Can(o) THEN "element" ELSE "no"
    /\ UNCHANGED <<call, item, ending, blocks, results>>

(* The head of the loop: one more item at the end of the list. *)
NewItem ==
    /\ pc = "element"
    /\ \/ /\ AllocateFails
          /\ pc' = "no"
          /\ UNCHANGED <<offset, item>>
       \/ /\ Allocate(Local("head", Len(stack)))
          /\ item' = fresh
          /\ offset' = Skip(offset + 1)
          /\ pc' = IF Top.kind = "array" THEN "value" ELSE "name"
    /\ UNCHANGED <<call, depth, stack, ending, results>>

(* parse_object reads the name with parse_string, too. *)
MemberName ==
    /\ pc = "name"
    /\ \/ At(offset) = "quote" /\ ScanString("decodeName")
       \/ /\ At(offset) # "quote"
          /\ offset' = offset + 1
          /\ pc' = "no"
          /\ UNCHANGED <<ending, blocks>>
    /\ UNCHANGED <<call, depth, stack, item, results>>

(* The name moves from valuestring to string; then a colon must follow. *)
DecodeName ==
    /\ pc = "decodeName"
    /\ BadEscapes(offset, ending) = {}
    /\ Move(Local("output", 0), Field(item, "valuestring"))
    /\ offset' = Skip(ending + 1)
    /\ pc' = "swap"
    /\ UNCHANGED <<call, depth, stack, item, ending, heap, fresh, starved, results>>

SwapName ==
    /\ pc = "swap"
    /\ Move(Field(item, "valuestring"), Field(item, "string"))
    /\ \/ /\ Can(offset) /\ At(offset) = "colon"
          /\ offset' = Skip(offset + 1)
          /\ pc' = "value"
       \/ /\ ~(Can(offset) /\ At(offset) = "colon")
          /\ pc' = "no"
          /\ UNCHANGED offset
    /\ UNCHANGED <<call, depth, stack, item, ending, heap, fresh, starved, results>>

(* parse_value returned true to the loop of the top frame. *)
AfterElement ==
    /\ pc = "ok" /\ stack # <<>>
    /\ LET o == Skip(offset)
       IN  \/ /\ Can(o) /\ At(o) = "comma"
              /\ offset' = o
              /\ pc' = "element"
              /\ UNCHANGED <<depth, stack, holds>>
           \/ /\ Can(o) /\ At(o) = Closer(Top.kind)
              /\ Move(Local("head", Len(stack)), Field(Top.item, "child"))
              /\ depth' = DepthLeft
              /\ stack' = Popped
              /\ offset' = Past(o)
              /\ pc' = "ok"
           \/ /\ Can(o) => At(o) \notin {"comma", Closer(Top.kind)}
              /\ offset' = o
              /\ pc' = "no"
              /\ UNCHANGED <<depth, stack, holds>>
    /\ UNCHANGED <<call, item, ending, heap, fresh, starved, results>>

(* Something in the top frame failed: the list so far is deleted and the    *)
(* frame returns false. *)
FailFrame ==
    /\ pc = "no" /\ stack # <<>>
    /\ Release(Local("head", Len(stack)))
    /\ stack' = Popped
    /\ UNCHANGED <<call, pc, offset, depth, item, ending, fresh, starved, results>>

(* parse_value returned true to cJSON_ParseWithOpts. *)
Finish ==
    /\ pc = "ok" /\ stack = <<>>
    /\ LET o == IF requireNul THEN Skip(offset) ELSE offset
       IN  /\ offset' = o
           /\ \/ /\ requireNul /\ (~Can(o) \/ At(o) # "nul")
                 /\ pc' = "no"
                 /\ UNCHANGED parseEnd
              \/ /\ ~requireNul \/ (Can(o) /\ At(o) = "nul")
                 /\ pc' = "parsed"
                 /\ parseEnd' = IF wantEnd THEN o ELSE parseEnd
    /\ UNCHANGED <<call, depth, stack, item, ending, blocks, globalError>>

(* Mutant: the position is not brought back into the text. *)
PositionAsIs == offset

(* local_error.position *)
ErrorPosition == IF offset < length THEN offset ELSE length - 1

(* The label `fail': the result is deleted, and the position of the error   *)
(* goes where the caller will look. *)
Fail ==
    /\ pc = "no" /\ stack = <<>>
    /\ Release(Local("root", 0))
    /\ pc' = "failed"
    /\ IF text = <<>> THEN UNCHANGED results
       ELSE IF wantEnd THEN parseEnd' = ErrorPosition /\ UNCHANGED globalError
       ELSE globalError' = ErrorPosition /\ UNCHANGED parseEnd
    /\ UNCHANGED <<call, offset, depth, stack, item, ending, fresh, starved>>

Next ==
    \/ Start \/ Scalar \/ StringValue \/ BadString \/ DecodeValue
    \/ Open("array") \/ Open("object")
    \/ NewItem \/ MemberName \/ DecodeName \/ SwapName \/ AfterElement
    \/ FailFrame \/ Finish \/ Fail

Spec == Init /\ [][Next]_vars

(* The call runs on one thread and nothing in it blocks. *)
FairSpec == Spec /\ WF_vars(Next)

-----------------------------------------------------------------------------
(* What must hold. *)

TypeOK ==
    /\ text \in Seq(Byte)
    /\ requireNul \in BOOLEAN /\ wantEnd \in BOOLEAN
    /\ pc \in {"start", "value", "decodeValue", "element", "name", "decodeName",
               "swap", "ok", "no", "parsed", "failed"}
    /\ offset \in Int /\ depth \in Nat /\ item \in Nat /\ ending \in Nat
    /\ stack \in Seq([kind : {"array", "object"}, item : Nat])
    /\ heap \subseteq Nat /\ fresh \in Nat /\ starved \in BOOLEAN
    /\ holds \subseteq [slot : Slot, block : Nat]
    /\ globalError \in Int \cup {None} /\ parseEnd \in Int \cup {None}

(* Wherever the code reads the byte at the offset without asking first, the *)
(* offset is inside the text or on its terminator.                          *)
ReadsInside ==
    /\ pc \in {"value", "name", "decodeValue", "decodeName", "swap"} =>
          offset \in 0 .. length - 1
    /\ pc = "element" => offset \in 0 .. length - 2
    /\ pc \in {"ok", "parsed"} => offset \in 1 .. length - 1
    /\ pc = "no" /\ text # <<>> => offset \in 0 .. length

(* The nesting limit bounds the C stack: depth counts the active frames     *)
(* until the parse fails, and never exceeds the limit.                      *)
DepthBounded ==
    /\ Len(stack) =< depth /\ depth =< NestingLimit
    /\ pc \notin {"no", "failed"} => depth = Len(stack)

(* Every block has exactly one pointer to it, and that is a local of an     *)
(* active frame or a field of an item that is still allocated: nothing      *)
(* leaks when any step fails, and nothing is freed twice.                   *)
HeldOnce ==
    /\ \A b \in heap : \E h \in holds : h.block = b /\ \A g \in holds : g.block = b => g = h
    /\ \A h \in holds :
          /\ h.block \in heap
          /\ h.slot.at \in {"child", "string", "valuestring"} => h.slot.of \in heap
          /\ h.slot.at = "head" => h.slot.of \in 1 .. Len(stack)
          /\ h.slot.at = "output" => pc \in {"decodeValue", "decodeName"}

(* A call that returns NULL has given back all it allocated.                *)
FailureKeepsNothing == pc = "failed" => heap = {}

(* cJSON.h:141-143: a failed parse of a text reports a position in the      *)
(* text, to the pointer the caller passed or else to cJSON_GetErrorPtr; a   *)
(* parse that succeeds clears cJSON_GetErrorPtr.                            *)
ErrorReported ==
    /\ pc = "failed" /\ text # <<>> =>
          /\ (IF wantEnd THEN parseEnd ELSE globalError) \in 0 .. length - 1
          /\ (IF wantEnd THEN globalError ELSE parseEnd) = None
    /\ pc = "parsed" => globalError = None /\ (wantEnd => parseEnd \in 1 .. length - 1)

(* cJSON.h:165: cJSON_GetErrorPtr is defined when cJSON_Parse returns 0.    *)
ErrorPointerDefined ==
    pc = "failed" /\ ~wantEnd /\ ~requireNul => globalError # None

(* Every call returns. *)
Returns == <>(pc \in {"parsed", "failed"})
=============================================================================
