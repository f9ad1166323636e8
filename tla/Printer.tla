------------------------------ MODULE Printer ------------------------------
(***************************************************************************)
(* One call of cJSON_Print, cJSON_PrintUnformatted, cJSON_PrintBuffered or *)
(* cJSON_PrintPreallocated (cJSON.c:1067-1187), and print_value with all   *)
(* below it, writing into a print buffer that `ensure' grows.              *)
(*                                                                         *)
(* Blocks of memory are sequences of bytes, so what is copied, terminated  *)
(* and measured with strlen is really there.  A byte is its own name if it *)
(* is punctuation, "nul", "x" for text, and "?" if nobody wrote it.        *)
(***************************************************************************)
EXTENDS Integers, Sequences

CONSTANTS
    Roots,          \* the trees to print
    Items,          \* the items these trees are made of
    Sizes,          \* prebuffer, or the length of the caller's buffer
    FirstSize,      \* what print() allocates to begin with: 256
    IntMax,         \* INT_MAX
    ReallocKnown,   \* whether hooks->reallocate is not NULL: a set of Booleans
    None            \* no block

(* A tree is a record [kind, size, name, kids].  Literals, numbers, strings *)
(* and raw JSON have `size' bytes of text, escapes included; `name' is how  *)
(* many the name has.  "invalid" is the NULL pointer or an unknown type.    *)
Kind == {"null", "false", "number", "string", "raw", "rawNull", "invalid", "array", "object"}

ASSUME RootsAreTrees ==
    /\ Roots \subseteq Items
    /\ \A i \in Items : /\ i.kind \in Kind /\ i.size \in Nat /\ i.name \in Nat
                         /\ i.kids \in Seq(Items)
ASSUME SizesAreInts == Sizes \subseteq Nat /\ \A s \in Sizes : s =< IntMax
ASSUME FirstSizeIsInt == IntMax \in Nat /\ FirstSize \in 1 .. IntMax
ASSUME SwitchIsBoolean == ReallocKnown \subseteq BOOLEAN
ASSUME NoneIsNoBlock == None \notin Nat

VARIABLES
    mode,           \* "print", "buffered" or "preallocated": who owns the buffer
    format,         \* p->format
    realloc,        \* hooks.reallocate is known
    root,           \* the argument of the call
    size,           \* its prebuffer or len
    pc,             \* what happens next
    item,           \* the item that print_value prints
    stack,          \* the arrays and objects around it, with the kids printed
    memory,         \* the blocks that are allocated, and what is in them
    buffer,         \* p->buffer, None when it is NULL
    length,         \* p->length
    offset,         \* p->offset
    depth,          \* p->depth
    starved,        \* an allocation returned NULL
    result          \* the block the call returned

call == <<mode, format, realloc, root, size>>
print == <<memory, buffer, length, offset, depth, starved>>
vars == <<call, pc, item, stack, print, result>>

Blank(n) == [i \in 1 .. n |-> "?"]
Times(n, byte) == [i \in 1 .. n |-> byte]

Fresh == CHOOSE b \in 1 .. 3 : b \notin DOMAIN memory
With(b, bytes) == [c \in DOMAIN memory \cup {b} |-> IF c = b THEN bytes ELSE memory[c]]
Without(b) == [c \in DOMAIN memory \ {b} |-> memory[c]]

(* All blocks but the caller's own buffer.                                  *)
Allocated == IF mode = "preallocated" THEN DOMAIN memory \ {1} ELSE DOMAIN memory

-----------------------------------------------------------------------------
(* The print buffer.                                                        *)

Last(s) == s[Len(s)]
Noalloc == mode = "preallocated"
Overlay(bytes, at, text) ==
    [i \in 1 .. Len(bytes) |-> IF i - at \in 1 .. Len(text) THEN text[i - at] ELSE bytes[i]]

(* Mutant: one byte more than the text and its terminator. *)
TotalLoose(needed) == needed + offset + 2

Total(needed) == needed + offset + 1

(* Mutant: the size that no longer fits an int is used as it is. *)
DoubledPast(needed) == 2 * Total(needed)

Doubled(needed) == IF Total(needed) > IntMax \div 2 THEN IntMax ELSE 2 * Total(needed)

(* Mutant: the text so far is not copied. *)
CopiedNothing(bytes, n) == Blank(n)

(* realloc keeps what fits; the manual way copies the text and one byte.    *)
Copied(bytes, n) ==
    [i \in 1 .. n |-> IF i =< Len(bytes) /\ (realloc \/ i =< offset + 1) THEN bytes[i] ELSE "?"]

(* `ensure': the block has room (1), it cannot be had (2), or it has to     *)
(* grow (3), in vain perhaps (4).                                           *)
Valid(needed) == buffer # None /\ (length > 0 => offset < length) /\ needed =< IntMax
Fits(needed) == Valid(needed) /\ Total(needed) =< length
Refused(needed) ==
    \/ ~Valid(needed)
    \/ Total(needed) > length /\ (Noalloc \/ Total(needed) > IntMax)

(* Write the text into block b, which holds `bytes', at the offset.         *)
Put(b, bytes, others, text, advance, next, deeper) ==
    IF offset + Len(text) > Len(bytes)
    THEN /\ pc' = "overrun"
         /\ UNCHANGED <<memory, buffer, offset, depth>>
    ELSE /\ memory' = [c \in others \cup {b} |->
                          IF c = b THEN Overlay(bytes, offset, text) ELSE memory[c]]
         /\ buffer' = b
         /\ offset' = offset + advance
         /\ depth' = depth + deeper
         /\ pc' = next

Grow(needed, text, advance, next, deeper) ==
    /\ ~Fits(needed) /\ ~Refused(needed)
    /\ IF realloc \/ offset + 1 =< Len(memory[buffer])
       THEN /\ length' = Doubled(needed)
            /\ Put(Fresh, Copied(memory[buffer], Doubled(needed)), DOMAIN memory \ {buffer},
                   text, advance, next, deeper)
            /\ UNCHANGED starved
       ELSE /\ pc' = "overread"
            /\ UNCHANGED print

(* Without realloc the old block is freed.  With realloc nobody looks: the  *)
(* address written to is the offset, and the old block is lost.             *)
CannotGrow(needed) ==
    /\ ~Fits(needed) /\ ~Refused(needed)
    /\ starved' = TRUE
    /\ buffer' = None
    /\ \/ /\ realloc
          /\ pc' = IF offset = 0 THEN "no" ELSE "wildWrite"
          /\ length' = Doubled(needed)
          /\ UNCHANGED memory
       \/ /\ ~realloc
          /\ pc' = "no"
          /\ length' = 0
          /\ memory' = Without(buffer)
    /\ UNCHANGED <<offset, depth>>

(* Ask for `needed' bytes, write the text, move the offset and the depth.   *)
Emit(needed, text, advance, next, deeper) ==
    \/ /\ Fits(needed)
       /\ Put(buffer, memory[buffer], DOMAIN memory, text, advance, next, deeper)
       /\ UNCHANGED <<length, starved>>
    \/ /\ Refused(needed)
       /\ pc' = "no"
       /\ UNCHANGED print
    \/ Grow(needed, text, advance, next, deeper)
    \/ CannotGrow(needed)

-----------------------------------------------------------------------------
(* The items.                                                               *)

Scalar == {"null", "false", "number", "string", "raw"}
Top == Last(stack)
Kids == Top.item.kids
Kid == Kids[Top.done]
More == Top.done < Len(Kids)
Spaced(bytes, byte) == IF format THEN bytes \o <<byte>> ELSE bytes

Quoted(n) == <<"quote">> \o Times(n, "x") \o <<"quote", "nul">>
ScalarText(i) ==
    IF i.kind = "string" THEN Quoted(i.size) ELSE Append(Times(i.size, "x"), "nul")

(* The room that is asked for; one byte more than the text but for numbers. *)
Needed(i) ==
    CASE i.kind = "number" -> i.size
      [] i.kind = "string" -> i.size + 3
      [] OTHER             -> i.size + 1

(* Where strlen stops, counting from the offset.                            *)
Nuls == {i \in offset + 1 .. Len(memory[buffer]) : memory[buffer][i] = "nul"}
TextEnd == (CHOOSE i \in Nuls : \A j \in Nuls : i =< j) - 1

Init ==
    /\ mode \in {"print", "buffered", "preallocated"}
    /\ format \in BOOLEAN /\ realloc \in ReallocKnown
    /\ root \in Roots
    /\ size \in IF mode = "print" THEN {FirstSize} ELSE Sizes
    /\ pc = "start" /\ item = root /\ stack = <<>>
    /\ memory = IF Noalloc THEN [b \in {1} |-> Blank(size)] ELSE <<>>
    /\ buffer = IF Noalloc THEN 1 ELSE None
    /\ length = IF Noalloc THEN size ELSE 0
    /\ offset = 0 /\ depth = 0 /\ starved = FALSE
    /\ result = None

(* print() leaves p->length at 0, so that the first `ensure' grows.         *)
Start ==
    /\ pc = "start"
    /\ \/ /\ Noalloc
          /\ pc' = "value"
          /\ UNCHANGED <<memory, buffer, length, starved>>
       \/ /\ ~Noalloc
          /\ buffer' = Fresh
          /\ memory' = With(Fresh, Blank(size))
          /\ length' = IF mode = "print" THEN 0 ELSE size
          /\ pc' = "value"
          /\ UNCHANGED starved
       \/ /\ ~Noalloc
          /\ starved' = TRUE
          /\ pc' = "failed"
          /\ UNCHANGED <<memory, buffer, length>>
    /\ UNCHANGED <<call, item, stack, offset, depth, result>>

(* print_value, for what has no kids.  Only numbers move the offset.        *)
PrintScalar ==
    /\ pc = "value" /\ item.kind \in Scalar
    /\ Emit(Needed(item), ScalarText(item), IF item.kind = "number" THEN item.size ELSE 0,
            "printed", 0)
    /\ UNCHANGED <<call, item, stack, result>>

PrintInvalid ==
    /\ pc = "value" /\ item.kind = "invalid"
    /\ pc' = "no"
    /\ UNCHANGED <<call, item, stack, print, result>>

(* Raw JSON without text: the buffer is freed, and still p->buffer.         *)
PrintRawNull ==
    /\ pc = "value" /\ item.kind = "rawNull"
    /\ memory' = IF Noalloc THEN memory ELSE Without(buffer)
    /\ pc' = "no"
    /\ UNCHANGED <<call, item, stack, buffer, length, offset, depth, starved, result>>

(* Mutant: the level is not counted. *)
Flat == 0

Deeper == 1

Entered == Append(stack, [item |-> item, done |-> 0])

OpenArray ==
    /\ pc = "value" /\ item.kind = "array"
    /\ Emit(1, <<"lbracket">>, 1, "kids", Deeper)
    /\ stack' = Entered
    /\ UNCHANGED <<call, item, result>>

OpenObject ==
    /\ pc = "value" /\ item.kind = "object"
    /\ LET text == Spaced(<<"lbrace">>, "newline")
       IN  Emit(Len(text) + 1, text, Len(text), "kids", Deeper)
    /\ stack' = Entered
    /\ UNCHANGED <<call, item, result>>

(* The head of both loops.                                                  *)
NextKid ==
    /\ pc = "kids" /\ More
    /\ stack' = [stack EXCEPT ![Len(stack)].done = @ + 1]
    /\ item' = Kids[Top.done + 1]
    /\ pc' = IF Top.item.kind = "array" THEN "value" ELSE IF format THEN "indent" ELSE "name"
    /\ UNCHANGED <<call, print, result>>

(* Tabs without a terminator: the name follows at once.                     *)
Indent ==
    /\ pc = "indent"
    /\ Emit(depth, Times(depth, "tab"), depth, "name", 0)
    /\ UNCHANGED <<call, item, stack, result>>

PrintName ==
    /\ pc = "name"
    /\ Emit(item.name + 3, Quoted(item.name), 0, "named", 0)
    /\ UNCHANGED <<call, item, stack, result>>

(* update_offset; print() alone does it for the root, too.                  *)
UpdateOffset ==
    /\ \/ pc = "named"
       \/ pc = "printed" /\ (stack # <<>> \/ mode = "print")
    /\ offset' = IF Nuls = {} THEN offset ELSE TextEnd
    /\ pc' = IF Nuls = {} THEN "overread"
             ELSE IF pc = "named" THEN "colon"
             ELSE IF stack = <<>> THEN "done" ELSE "separate"
    /\ UNCHANGED <<call, item, stack, memory, buffer, length, depth, starved, result>>

Colon ==
    /\ pc = "colon"
    /\ LET text == Spaced(<<"colon">>, "tab")
       IN  Emit(Len(text), text, Len(text), "value", 0)
    /\ UNCHANGED <<call, item, stack, result>>

(* After a kid of an array, a comma if there is another one ...             *)
SeparateElements ==
    /\ pc = "separate" /\ Top.item.kind = "array"
    /\ \/ /\ More
          /\ LET text == Spaced(<<"comma">>, "blank")
             IN  Emit(Len(text) + 1, Append(text, "nul"), Len(text), "kids", 0)
       \/ /\ ~More
          /\ pc' = "kids"
          /\ UNCHANGED print
    /\ UNCHANGED <<call, item, stack, result>>

(* ... and of an object, a comma, a newline, or nothing but a terminator.   *)
SeparateMembers ==
    /\ pc = "separate" /\ Top.item.kind = "object"
    /\ LET text == Spaced(IF More THEN <<"comma">> ELSE <<>>, "newline")
       IN  Emit(Len(text) + 1, Append(text, "nul"), Len(text), "kids", 0)
    /\ UNCHANGED <<call, item, stack, result>>

Left == SubSeq(stack, 1, Len(stack) - 1)

CloseArray ==
    /\ pc = "kids" /\ ~More /\ Top.item.kind = "array"
    /\ Emit(2, <<"rbracket", "nul">>, 0, "printed", -1)
    /\ stack' = Left
    /\ UNCHANGED <<call, item, result>>

(* Mutant: the tabs before the closing bracket are not counted. *)
BracketOnly == 2

CloseNeeds == IF format THEN depth + 1 ELSE 2

CloseObject ==
    /\ pc = "kids" /\ ~More /\ Top.item.kind = "object"
    /\ Emit(CloseNeeds, (IF format THEN Times(depth - 1, "tab") ELSE <<>>) \o <<"rbrace", "nul">>,
            0, "printed", -1)
    /\ stack' = Left
    /\ UNCHANGED <<call, item, result>>

(* The end of print(): the text goes into a block of its own size.          *)
Deliver ==
    /\ pc = "done"
    /\ \/ /\ realloc
          /\ memory' = [b \in {Fresh} |-> SubSeq(memory[buffer], 1, length)]
          /\ result' = Fresh /\ buffer' = None
          /\ pc' = "returned"
          /\ UNCHANGED starved
       \/ /\ ~realloc
          /\ memory' = [b \in {Fresh} |-> Append(SubSeq(memory[buffer], 1, offset), "nul")]
          /\ result' = Fresh
          /\ pc' = "returned"
          /\ UNCHANGED <<buffer, starved>>
       \/ /\ starved' = TRUE
          /\ buffer' = IF realloc THEN None ELSE buffer
          /\ pc' = "no"
          /\ UNCHANGED <<memory, result>>
    /\ UNCHANGED <<call, item, stack, length, offset, depth>>

(* cJSON_PrintBuffered and cJSON_PrintPreallocated return the buffer.       *)
Return ==
    /\ pc = "printed" /\ stack = <<>> /\ mode # "print"
    /\ result' = buffer
    /\ pc' = "returned"
    /\ UNCHANGED <<call, item, stack, print>>

(* Mutant: a call that fails does not free its buffer. *)
KeepBuffer == FALSE

FreesBuffer == ~Noalloc /\ buffer # None

(* print_value returned false: the buffer is freed, unless it is the        *)
(* caller's or p->buffer is NULL.                                           *)
Fail ==
    /\ pc = "no"
    /\ memory' = IF FreesBuffer THEN Without(buffer) ELSE memory
    /\ pc' = IF FreesBuffer /\ buffer \notin DOMAIN memory THEN "doubleFree" ELSE "failed"
    /\ UNCHANGED <<call, item, stack, buffer, length, offset, depth, starved, result>>

Next ==
    \/ Start
    \/ PrintScalar \/ PrintInvalid \/ PrintRawNull
    \/ OpenArray \/ OpenObject \/ NextKid \/ Indent \/ PrintName \/ UpdateOffset \/ Colon
    \/ SeparateElements \/ SeparateMembers \/ CloseArray \/ CloseObject
    \/ Deliver \/ Return \/ Fail

Spec == Init /\ [][Next]_vars

-----------------------------------------------------------------------------
(* What must hold. *)

TypeOK ==
    /\ format \in BOOLEAN /\ realloc \in BOOLEAN /\ size \in Nat
    /\ pc \in {"start", "value", "kids", "indent", "name", "named", "colon", "printed",
               "separate", "done", "no", "returned", "failed",
               "overrun", "overread", "wildWrite", "doubleFree"}
    /\ DOMAIN memory \subseteq 1 .. 3
    /\ buffer \in 1 .. 3 \cup {None} /\ result \in 1 .. 3 \cup {None}
    /\ length \in Nat /\ offset \in Nat /\ depth \in Nat /\ starved \in BOOLEAN

(* Whatever is asked of `ensure' covers what is then written, and what      *)
(* update_offset measures is terminated.  Memory that is not the buffer's   *)
(* is touched in two cases and no other: after a realloc that failed, where *)
(* the code does write outside (cJSON.c:412, NoWildWrite), and when         *)
(* cJSON_PrintBuffered without realloc moves on from the empty buffer that  *)
(* a guess of 0 made, of which it copies one byte (cJSON.c:428).            *)
StaysInside ==
    pc \in {"overrun", "overread", "wildWrite"} =>
        \/ pc = "wildWrite" /\ realloc /\ starved
        \/ pc = "overread" /\ ~realloc /\ mode = "buffered" /\ size = 0

(* Between two writes, p->length is the size of the block that p->buffer    *)
(* points to (or still 0), and the offset is inside: `ensure' never finds   *)
(* its offset invalid.                                                      *)
BufferSound ==
    pc \in {"value", "kids", "indent", "name", "named", "colon", "printed", "separate", "done"} =>
        /\ buffer \in DOMAIN memory
        /\ length \in {0, Len(memory[buffer])}
        /\ length > 0 => offset < length
        /\ depth = Len(stack)

(* A call owns one block at most, and whoever gets the text gets that one:  *)
(* a call that fails leaves nothing allocated and has freed nothing twice.  *)
(* A realloc that fails is excepted: neither `ensure' nor print() frees the *)
(* block it leaves.  So is raw JSON without text, a cJSON_Raw item that was *)
(* built by hand: there the buffer is freed twice (cJSON.c:1293).           *)
NothingLeft ==
    /\ pc = "returned" => result \in DOMAIN memory /\ Allocated \subseteq {result}
    /\ pc = "failed" /\ ~(realloc /\ starved) => Allocated = {}
    /\ pc = "doubleFree" => item.kind = "rawNull"

(* No block is larger than an int can say. *)
FitsInt == \A b \in DOMAIN memory : Len(memory[b]) =< IntMax

(* CHANGELOG.md:132: printing aborts with a failure when memory is out.     *)
NoWildWrite == pc # "wildWrite"
=============================================================================
