---------------------------- MODULE PrinterProofs ----------------------------
(***************************************************************************)
(* What holds of a call of the printer for every tree, every size of the   *)
(* buffer and every allocation that fails, proved of module Printer.       *)
(***************************************************************************)
EXTENDS Printer, WellFoundedInduction, TLAPS

Char ==
    {"?", "x", "nul", "quote", "lbracket", "rbracket", "lbrace", "rbrace", "comma", "colon",
     "newline", "blank", "tab"}

Frame == [item : Items, done : Nat]

(* The phases in which the call has a buffer to write to, and those in      *)
(* which a text was just written that update_offset has not measured.       *)
Active ==
    {"value", "kids", "indent", "name", "named", "colon", "printed", "separate", "done"}
Unmeasured == {"named", "printed"}

(* The phases inside an array or an object.                                 *)
Within == {"kids", "indent", "name", "named", "colon", "separate"}

(* Blocks are short enough for an int.                                      *)
MemoryInv ==
    /\ DOMAIN memory \subseteq 1 .. 3
    /\ \A b \in DOMAIN memory : memory[b] \in Seq(Char) /\ Len(memory[b]) =< IntMax

(* The call's variables but for the memory.                                 *)
CallInv ==
    /\ mode \in {"print", "buffered", "preallocated"}
    /\ format \in BOOLEAN /\ realloc \in BOOLEAN /\ size \in Nat /\ size =< IntMax
    /\ mode = "print" => size > 0
    /\ pc \in {"start", "no", "returned", "failed", "overrun", "overread", "wildWrite",
               "doubleFree"} \cup Active
    /\ buffer \in 1 .. 3 \cup {None} /\ result \in 1 .. 3 \cup {None}
    /\ length \in Nat /\ offset \in Nat /\ depth \in Nat /\ starved \in BOOLEAN
    /\ item \in Items /\ stack \in Seq(Frame)

(* The buffer is the only block, and it is known how long it is, unless     *)
(* nothing was written yet.  An empty one is the caller's wish.             *)
BufferInv ==
    /\ DOMAIN memory = {buffer} /\ buffer \in 1 .. 3
    /\ Noalloc => buffer = 1
    /\ length \in {0, Len(memory[buffer])}
    /\ length > 0 => offset < length
    /\ length = 0 => offset = 0
    /\ Len(memory[buffer]) = 0 => mode = "preallocated" \/ (mode = "buffered" /\ size = 0)

(* What is left when print_value has returned false.                        *)
LeftInv ==
    \/ DOMAIN memory = {} /\ (buffer = None \/ item.kind = "rawNull")
    \/ DOMAIN memory = {buffer} /\ buffer \in 1 .. 3 /\ (Noalloc => buffer = 1)
    \/ realloc /\ starved /\ buffer = None

PhaseInv ==
    /\ pc = "start" => /\ DOMAIN memory = IF Noalloc THEN {1} ELSE {}
                       /\ Noalloc => buffer = 1 /\ length = Len(memory[1])
                       /\ offset = 0 /\ depth = 0 /\ stack = <<>>
    /\ pc \in Active => BufferInv /\ depth = Len(stack)
    /\ pc \in Within => stack # <<>>
    /\ pc \in Unmeasured => length > 0 /\ Nuls # {}
    /\ pc = "done" => length > 0 /\ mode = "print"
    /\ pc = "no" => LeftInv
    /\ StaysInside
    /\ NothingLeft

Inv == MemoryInv /\ CallInv /\ PhaseInv

-----------------------------------------------------------------------------
(* Texts.                                                                   *)

LEMMA TextOf ==
    ASSUME NEW n \in Nat, NEW S, NEW f \in [1 .. n -> S]
    PROVE  f \in Seq(S) /\ Len(f) = n
  OBVIOUS

LEMMA Concatenated ==
    ASSUME NEW a \in Seq(Char), NEW b \in Seq(Char)
    PROVE  /\ a \o b \in Seq(Char) /\ Len(a \o b) = Len(a) + Len(b)
           /\ \A k \in 1 .. Len(b) : (a \o b)[Len(a) + k] = b[k]
  <1>1. a \o b \in Seq(Char) /\ Len(a \o b) = Len(a) + Len(b)
    OBVIOUS
  <1>2. \A k \in 1 .. Len(b) : (a \o b)[Len(a) + k] = b[k]
    OBVIOUS
  <1>3. QED BY <1>1, <1>2

LEMMA LengthIsNat ==
    ASSUME NEW S, NEW s \in Seq(S) PROVE Len(s) \in Nat
  OBVIOUS

LEMMA TimesText ==
    ASSUME NEW n \in Nat, NEW byte \in Char
    PROVE  Times(n, byte) \in Seq(Char) /\ Len(Times(n, byte)) = n
  <1>1. Times(n, byte) \in [1 .. n -> Char]
    BY DEF Times
  <1>2. QED BY <1>1, TextOf

LEMMA BlankText ==
    ASSUME NEW n \in Nat
    PROVE  Blank(n) \in Seq(Char) /\ Len(Blank(n)) = n
  <1>1. Blank(n) \in [1 .. n -> Char]
    BY DEF Blank, Char
  <1>2. QED BY <1>1, TextOf

(* Writing keeps the length of a block, and the text is there afterwards.   *)
LEMMA Written ==
    ASSUME NEW bytes \in Seq(Char), NEW text \in Seq(Char), NEW at \in Nat,
           at + Len(text) =< Len(bytes)
    PROVE  /\ Overlay(bytes, at, text) \in Seq(Char)
           /\ Len(Overlay(bytes, at, text)) = Len(bytes)
           /\ \A k \in 1 .. Len(text) : Overlay(bytes, at, text)[at + k] = text[k]
  <1>1. Len(bytes) \in Nat /\ Len(text) \in Nat
    BY LengthIsNat
  <1>2. Overlay(bytes, at, text) \in [1 .. Len(bytes) -> Char]
    BY <1>1 DEF Overlay
  <1>3. Overlay(bytes, at, text) \in Seq(Char) /\ Len(Overlay(bytes, at, text)) = Len(bytes)
    BY <1>1, <1>2, TextOf
  <1>4. ASSUME NEW k \in 1 .. Len(text) PROVE Overlay(bytes, at, text)[at + k] = text[k]
    <2>1. at + k \in 1 .. Len(bytes) /\ at + k - at = k
      BY <1>1
    <2>2. QED BY <2>1 DEF Overlay
  <1>5. QED BY <1>3, <1>4

LEMMA CopiedText ==
    ASSUME NEW bytes \in Seq(Char), NEW n \in Nat
    PROVE  Copied(bytes, n) \in Seq(Char) /\ Len(Copied(bytes, n)) = n
  <1>1. "?" \in Char /\ \A i \in 1 .. n : i =< Len(bytes) => bytes[i] \in Char
    BY LengthIsNat DEF Char
  <1>2. Copied(bytes, n) \in [1 .. n -> Char]
    BY <1>1 DEF Copied
  <1>3. QED BY <1>2, TextOf

-----------------------------------------------------------------------------
(* The print buffer.                                                        *)

(* There is always a free block beside the one buffer.                      *)
LEMMA FreshBlock ==
    ASSUME NEW b \in 1 .. 3, DOMAIN memory \subseteq {b}
    PROVE  Fresh \in 1 .. 3 /\ Fresh \notin DOMAIN memory
  <1>1. \E c \in 1 .. 3 : c \notin DOMAIN memory
    <2>1. b = 1 => 2 \in 1 .. 3 /\ 2 \notin DOMAIN memory
      OBVIOUS
    <2>2. b # 1 => 1 \in 1 .. 3 /\ 1 \notin DOMAIN memory
      OBVIOUS
    <2>3. QED BY <2>1, <2>2
  <1>2. QED BY <1>1 DEF Fresh

(* newsize in `ensure' is enough, and no more than an int.                  *)
LEMMA DoubledEnough ==
    ASSUME NEW needed \in Nat, offset \in Nat, Total(needed) =< IntMax
    PROVE  /\ Doubled(needed) \in Nat /\ Doubled(needed) =< IntMax
           /\ Total(needed) =< Doubled(needed) /\ Total(needed) \in Nat \ {0}
  <1>1. Total(needed) \in Nat \ {0} /\ IntMax \in Nat
    BY FirstSizeIsInt DEF Total
  <1>2. ASSUME NEW t \in Nat, t =< IntMax \div 2 PROVE 2 * t =< IntMax
    BY <1>1, <1>2
  <1>3. ASSUME ~(Total(needed) > IntMax \div 2) PROVE Total(needed) =< IntMax \div 2
    <2>1. IntMax \div 2 \in Nat
      BY <1>1
    <2>2. QED BY <1>1, <1>3, <2>1
  <1>4. QED BY <1>1, <1>2, <1>3 DEF Doubled

(* A write that has room stays inside the block.                            *)
LEMMA PutStep ==
    ASSUME CallInv, MemoryInv, UNCHANGED call,
           NEW b \in 1 .. 3, NEW bytes \in Seq(Char), NEW others \in SUBSET {b},
           Len(bytes) =< IntMax, Len(bytes) > 0, Noalloc => b = 1,
           NEW needed \in Nat, Total(needed) =< Len(bytes),
           NEW text \in Seq(Char), Len(text) =< needed + 1, NEW advance \in 0 .. needed,
           NEW next, NEW deeper, length' = Len(bytes),
           Put(b, bytes, others, text, advance, next, deeper)
    PROVE  /\ MemoryInv' /\ BufferInv' /\ pc' = next /\ length' > 0
           /\ offset' \in Nat /\ depth' = depth + deeper
           /\ (\E k \in advance + 1 .. Len(text) : text[k] = "nul") => (Nuls # {})'
  <1>1. Len(bytes) \in Nat /\ Len(text) \in Nat /\ offset \in Nat
    BY LengthIsNat DEF CallInv
  <1>2. offset + Len(text) =< Len(bytes) /\ offset + advance < Len(bytes)
    BY <1>1 DEF Total
  <1>3. ~(offset + Len(text) > Len(bytes))
    BY <1>1, <1>2
  <1> DEFINE written == Overlay(bytes, offset, text)
  <1>4. /\ written \in Seq(Char) /\ Len(written) = Len(bytes)
        /\ \A k \in 1 .. Len(text) : written[offset + k] = text[k]
    BY <1>1, <1>2, Written
  <1>5. /\ memory' = [c \in others \cup {b} |-> IF c = b THEN written ELSE memory[c]]
        /\ buffer' = b /\ offset' = offset + advance /\ depth' = depth + deeper /\ pc' = next
    BY <1>3 DEF Put
  <1> HIDE DEF written
  <1>6. DOMAIN memory' = {b} /\ memory'[b] = written
    BY <1>5
  <1>7. MemoryInv'
    BY <1>4, <1>6 DEF MemoryInv
  <1>8. offset' \in Nat /\ offset' < length' /\ length' > 0
    BY <1>1, <1>2, <1>5
  <1>9. BufferInv'
    BY <1>1, <1>4, <1>5, <1>6, <1>8 DEF BufferInv, call, Noalloc
  <1>10. ASSUME NEW k \in advance + 1 .. Len(text), text[k] = "nul" PROVE (Nuls # {})'
    <2>1. offset + k \in offset' + 1 .. Len(memory'[buffer'])
      BY <1>1, <1>2, <1>4, <1>5, <1>6
    <2>2. memory'[buffer'][offset + k] = "nul"
      BY <1>1, <1>4, <1>5, <1>6, <1>10
    <2>3. QED BY <2>1, <2>2 DEF Nuls
  <1>11. QED BY <1>5, <1>7, <1>8, <1>9, <1>10

(* Where a call of `ensure' and the write after it can lead.                *)
Emitted(next, deeper) ==
    /\ MemoryInv' /\ length' \in Nat /\ offset' \in Nat /\ starved' \in BOOLEAN
    /\ buffer' \in 1 .. 3 \cup {None}
    /\ \/ pc' = next /\ BufferInv' /\ length' > 0 /\ depth' = depth + deeper
       \/ pc' = "no" /\ LeftInv' /\ depth' = depth
       \/ pc' = "wildWrite" /\ realloc /\ starved' /\ depth' = depth
       \/ pc' = "overread" /\ ~realloc /\ mode = "buffered" /\ size = 0 /\ depth' = depth

LEMMA EmitStep ==
    ASSUME CallInv, MemoryInv, BufferInv, UNCHANGED call,
           NEW needed \in Nat, NEW text \in Seq(Char), Len(text) =< needed + 1,
           NEW advance \in 0 .. needed, NEW next, NEW deeper,
           Emit(needed, text, advance, next, deeper)
    PROVE  /\ Emitted(next, deeper)
           /\ (/\ pc' = next /\ next \in Active
               /\ \E k \in advance + 1 .. Len(text) : text[k] = "nul") => (Nuls # {})'
  <1>1. /\ DOMAIN memory = {buffer} /\ buffer \in 1 .. 3 /\ (Noalloc => buffer = 1)
        /\ memory[buffer] \in Seq(Char) /\ Len(memory[buffer]) =< IntMax
        /\ Len(memory[buffer]) \in Nat /\ offset \in Nat /\ length \in Nat
        /\ Total(needed) = needed + offset + 1 /\ IntMax \in Nat
    BY LengthIsNat, FirstSizeIsInt DEF BufferInv, MemoryInv, CallInv, Total
  <1>2. Noalloc' = Noalloc /\ mode' = mode /\ size' = size /\ realloc' = realloc
    BY DEF call, Noalloc
  <1>3. CASE Fits(needed) /\ UNCHANGED <<length, starved>>
             /\ Put(buffer, memory[buffer], DOMAIN memory, text, advance, next, deeper)
    <2>1. length = Len(memory[buffer]) /\ Total(needed) =< length /\ length > 0
      BY <1>1, <1>3 DEF Fits, BufferInv
    <2>2. DOMAIN memory \in SUBSET {buffer} /\ length' = Len(memory[buffer])
      BY <1>1, <1>3, <2>1
    <2> DEFINE bytes == memory[buffer]
               others == DOMAIN memory
    <2>3. /\ bytes \in Seq(Char) /\ Len(bytes) =< IntMax /\ Len(bytes) > 0
          /\ Total(needed) =< Len(bytes) /\ others \in SUBSET {buffer} /\ length' = Len(bytes)
      BY <1>1, <2>1, <2>2
    <2>4. Put(buffer, bytes, others, text, advance, next, deeper)
      BY <1>3
    <2> HIDE DEF bytes, others
    <2>5. buffer \in 1 .. 3 /\ (Noalloc => buffer = 1)
      BY <1>1
    <2>6. /\ MemoryInv' /\ BufferInv' /\ pc' = next /\ length' > 0
          /\ offset' \in Nat /\ depth' = depth + deeper
          /\ (\E k \in advance + 1 .. Len(text) : text[k] = "nul") => (Nuls # {})'
      BY <2>3, <2>4, <2>5, PutStep
    <2>7. QED
      BY <1>1, <1>3, <2>6 DEF Emitted, BufferInv, CallInv
  <1>4. CASE Refused(needed) /\ pc' = "no" /\ UNCHANGED print
    <2>1. MemoryInv' /\ LeftInv'
      BY <1>1, <1>2, <1>4 DEF MemoryInv, LeftInv, print
    <2>2. QED BY <1>1, <1>4, <2>1 DEF Emitted, print, CallInv, Active
  <1>grow. ~Fits(needed) /\ ~Refused(needed) =>
           /\ ~Noalloc /\ Total(needed) =< IntMax
           /\ Len(memory[buffer]) = 0 => mode = "buffered" /\ size = 0
    <2>1. ~Refused(needed) /\ ~Fits(needed) => ~(Total(needed) =< length) /\ Valid(needed)
      BY DEF Refused, Fits
    <2>2. ~(Total(needed) =< length) => Total(needed) > length
      BY <1>1
    <2>3. QED BY <1>1, <2>1, <2>2 DEF Refused, BufferInv, Noalloc
  <1>5. CASE Grow(needed, text, advance, next, deeper)
    <2>1. CASE /\ length' = Doubled(needed) /\ UNCHANGED starved
               /\ Put(Fresh, Copied(memory[buffer], Doubled(needed)), DOMAIN memory \ {buffer},
                      text, advance, next, deeper)
      <3>1. /\ Doubled(needed) \in Nat /\ Doubled(needed) =< IntMax
            /\ Total(needed) =< Doubled(needed) /\ Total(needed) \in Nat \ {0}
        BY <1>1, <1>5, <1>grow, DoubledEnough DEF Grow
      <3> DEFINE bytes == Copied(memory[buffer], Doubled(needed))
      <3>2. bytes \in Seq(Char) /\ Len(bytes) = Doubled(needed)
        BY <1>1, <3>1, CopiedText
      <3>3. Fresh \in 1 .. 3 /\ DOMAIN memory \ {buffer} \in SUBSET {Fresh} /\ ~Noalloc
        BY <1>1, <1>5, <1>grow, FreshBlock DEF Grow
      <3> HIDE DEF bytes
      <3>4. Len(bytes) =< IntMax /\ Len(bytes) > 0 /\ Total(needed) =< Len(bytes)
            /\ length' = Len(bytes)
        BY <2>1, <3>1, <3>2
      <3>5. /\ MemoryInv' /\ BufferInv' /\ pc' = next /\ length' > 0
            /\ offset' \in Nat /\ depth' = depth + deeper
            /\ (\E k \in advance + 1 .. Len(text) : text[k] = "nul") => (Nuls # {})'
        <4>1. Put(Fresh, bytes, DOMAIN memory \ {buffer}, text, advance, next, deeper)
          BY <2>1 DEF bytes
        <4>2. QED BY <3>2, <3>3, <3>4, <4>1, PutStep
      <3>6. QED BY <2>1, <3>1, <3>5 DEF Emitted, BufferInv, CallInv
    <2>2. CASE /\ ~(realloc \/ offset + 1 =< Len(memory[buffer]))
               /\ pc' = "overread" /\ UNCHANGED print
      <3>1. Len(memory[buffer]) = 0
        BY <1>1, <2>2 DEF BufferInv
      <3>2. mode = "buffered" /\ size = 0
        BY <1>5, <1>grow, <3>1 DEF Grow
      <3>3. MemoryInv'
        BY <2>2 DEF MemoryInv, print
      <3>4. QED BY <1>1, <2>2, <3>2, <3>3 DEF Emitted, print, CallInv, Active
    <2>3. QED BY <1>5, <2>1, <2>2 DEF Grow
  <1>6. CASE CannotGrow(needed)
    <2>1. starved' = TRUE /\ buffer' = None /\ UNCHANGED <<offset, depth>>
      BY <1>6 DEF CannotGrow
    <2>2. CASE /\ realloc /\ pc' \in {"no", "wildWrite"} /\ length' = Doubled(needed)
               /\ UNCHANGED memory
      <3>1. Doubled(needed) \in Nat
        BY <1>1, <1>6, <1>grow, DoubledEnough DEF CannotGrow
      <3>2. MemoryInv' /\ LeftInv'
        BY <1>2, <2>1, <2>2 DEF MemoryInv, LeftInv
      <3>3. QED BY <1>1, <2>1, <2>2, <3>1, <3>2 DEF Emitted, Active
    <2>3. CASE pc' = "no" /\ length' = 0 /\ memory' = Without(buffer)
      <3>1. DOMAIN memory' = {}
        BY <1>1, <2>3 DEF Without
      <3>2. MemoryInv' /\ LeftInv'
        BY <2>1, <3>1 DEF MemoryInv, LeftInv
      <3>3. QED BY <1>1, <2>1, <2>3, <3>2 DEF Emitted, Active
    <2>4. QED BY <1>6, <2>2, <2>3 DEF CannotGrow
  <1>7. QED BY <1>3, <1>4, <1>5, <1>6 DEF Emit
-----------------------------------------------------------------------------
(* What is written.                                                         *)

LEMMA SpacedText ==
    ASSUME NEW bytes \in Seq(Char), NEW byte \in Char, CallInv
    PROVE  Spaced(bytes, byte) \in Seq(Char)
  <1>1. <<byte>> \in Seq(Char)
    OBVIOUS
  <1>2. QED BY <1>1, Concatenated DEF Spaced

(* A text with its terminator.                                              *)
LEMMA TerminatedText ==
    ASSUME NEW bytes \in Seq(Char)
    PROVE  /\ Append(bytes, "nul") \in Seq(Char)
           /\ Len(Append(bytes, "nul")) = Len(bytes) + 1
           /\ Append(bytes, "nul")[Len(bytes) + 1] = "nul"
  <1>1. "nul" \in Char
    BY DEF Char
  <1>2. QED BY <1>1

LEMMA Joined ==
    ASSUME NEW a \in Seq(Char), NEW b \in Seq(Char), NEW c \in Seq(Char), Len(c) > 0
    PROVE  /\ (a \o b) \o c \in Seq(Char)
           /\ Len((a \o b) \o c) = Len(a) + Len(b) + Len(c)
           /\ ((a \o b) \o c)[Len(a) + Len(b) + Len(c)] = c[Len(c)]
  <1>1. Len(a) \in Nat /\ Len(b) \in Nat /\ Len(c) \in Nat /\ Len(c) \in 1 .. Len(c)
    BY LengthIsNat
  <1>2. a \o b \in Seq(Char) /\ Len(a \o b) = Len(a) + Len(b)
    BY Concatenated
  <1> DEFINE d == a \o b
  <1> HIDE DEF d
  <1>3. /\ d \o c \in Seq(Char) /\ Len(d \o c) = Len(d) + Len(c)
        /\ (d \o c)[Len(d) + Len(c)] = c[Len(c)]
    BY <1>1, <1>2, Concatenated DEF d
  <1>4. QED BY <1>2, <1>3 DEF d

LEMMA QuotedText ==
    ASSUME NEW n \in Nat
    PROVE  Quoted(n) \in Seq(Char) /\ Len(Quoted(n)) = n + 3 /\ Quoted(n)[n + 3] = "nul"
  <1> DEFINE a == <<"quote">>
             b == Times(n, "x")
             c == <<"quote", "nul">>
  <1>1. a \in Seq(Char) /\ Len(a) = 1 /\ c \in Seq(Char) /\ Len(c) = 2 /\ c[2] = "nul"
    BY DEF Char
  <1>2. b \in Seq(Char) /\ Len(b) = n
    BY TimesText DEF Char
  <1>3. Quoted(n) = (a \o b) \o c
    BY DEF Quoted
  <1> HIDE DEF a, b, c
  <1>4. Len(a) + Len(b) + Len(c) = n + 3
    BY <1>1, <1>2
  <1>5. Len(c) > 0 /\ c[Len(c)] = "nul"
    BY <1>1
  <1>6. /\ (a \o b) \o c \in Seq(Char)
        /\ Len((a \o b) \o c) = Len(a) + Len(b) + Len(c)
        /\ ((a \o b) \o c)[Len(a) + Len(b) + Len(c)] = c[Len(c)]
    <2>1. a \in Seq(Char) /\ b \in Seq(Char) /\ c \in Seq(Char)
      BY <1>1, <1>2
    <2>2. QED BY <1>5, <2>1, Joined
  <1>7. QED BY <1>3, <1>4, <1>5, <1>6

(* Of a number the text, of the rest text and terminator fit what is asked  *)
(* for, and what follows the offset is terminated.                          *)
LEMMA ScalarFits ==
    ASSUME NEW i \in Items, i.kind \in Scalar
    PROVE  /\ Needed(i) \in Nat /\ ScalarText(i) \in Seq(Char)
           /\ Len(ScalarText(i)) =< Needed(i) + 1
           /\ LET advance == IF i.kind = "number" THEN i.size ELSE 0
              IN  /\ advance \in 0 .. Needed(i)
                  /\ \E k \in advance + 1 .. Len(ScalarText(i)) : ScalarText(i)[k] = "nul"
  <1>1. i.size \in Nat
    BY RootsAreTrees
  <1>2. CASE i.kind = "string"
    <2>1. ScalarText(i) = Quoted(i.size) /\ Needed(i) = i.size + 3
      BY <1>2 DEF ScalarText, Needed
    <2>2. i.size + 3 \in 0 + 1 .. i.size + 3 /\ i.size + 3 =< i.size + 3 + 1
      BY <1>1
    <2>3. 0 \in 0 .. i.size + 3 /\ i.size + 3 \in Nat
      BY <1>1
    <2>4. QED BY <1>1, <1>2, <2>1, <2>2, <2>3, QuotedText
  <1>3. CASE i.kind # "string"
    <2> DEFINE text == Times(i.size, "x")
    <2>1. text \in Seq(Char) /\ Len(text) = i.size
      BY <1>1, TimesText DEF Char
    <2>2. /\ ScalarText(i) = Append(text, "nul")
          /\ Needed(i) = IF i.kind = "number" THEN i.size ELSE i.size + 1
      BY <1>3 DEF ScalarText, Needed
    <2> HIDE DEF text
    <2>3. /\ ScalarText(i) \in Seq(Char) /\ Len(ScalarText(i)) = i.size + 1
          /\ ScalarText(i)[i.size + 1] = "nul"
      BY <2>1, <2>2, TerminatedText
    <2> DEFINE advance == IF i.kind = "number" THEN i.size ELSE 0
    <2>4. /\ Needed(i) \in Nat /\ i.size + 1 =< Needed(i) + 1 /\ advance \in 0 .. Needed(i)
          /\ i.size + 1 \in advance + 1 .. i.size + 1
      BY <1>1, <2>2
    <2>5. QED BY <2>3, <2>4
  <1>4. QED BY <1>2, <1>3

-----------------------------------------------------------------------------
(* The invariant: how it begins, and how each step keeps it.                *)

(* Whoever writes and then goes on with `next', or gives up.                *)
LEMMA Preserved ==
    ASSUME Inv, NEW next \in Active \ {"done"}, NEW deeper \in Int, Emitted(next, deeper),
           UNCHANGED <<call, result>>, item' \in Items, stack' \in Seq(Frame),
           depth + deeper = Len(stack'),
           next \in Within => stack' # <<>>,
           next \in Unmeasured /\ pc' = next => (Nuls # {})'
    PROVE  Inv'
  <1>1. MemoryInv'
    BY DEF Emitted
  <1>2. depth \in Nat /\ depth' \in Nat /\ Len(stack') \in Nat
    BY LengthIsNat DEF Emitted, Inv, CallInv
  <1>3. pc' \in {"no", "overread", "wildWrite"} \cup (Active \ {"done"})
    BY DEF Emitted
  <1>4. CallInv'
    BY <1>2, <1>3 DEF Emitted, Inv, CallInv, call
  <1>5. PhaseInv'
    <2>1. pc' # "start" /\ pc' # "done" /\ pc' # "returned" /\ pc' # "failed" /\ pc' # "overrun"
      BY <1>3 DEF Active
    <2>2. (StaysInside /\ NothingLeft)'
      BY <2>1 DEF Emitted, StaysInside, NothingLeft, call, Active
    <2>3. CASE pc' = next
      <3>1. BufferInv' /\ length' > 0 /\ depth' = Len(stack') /\ pc' # "no"
        BY <2>3 DEF Emitted, Active
      <3>2. QED BY <2>1, <2>2, <2>3, <3>1 DEF PhaseInv
    <2>4. CASE pc' # next
      <3>1. pc' \notin Active /\ (pc' = "no" => LeftInv')
        BY <2>4 DEF Emitted, Active
      <3>2. QED BY <2>1, <2>2, <3>1 DEF PhaseInv, Active, Unmeasured, Within
    <2>5. QED BY <2>3, <2>4
  <1>6. QED BY <1>1, <1>4, <1>5 DEF Inv

(* A write keeps the invariant if the text fits what was asked for, the     *)
(* depth follows the stack, and what is to be measured is terminated.       *)
LEMMA Writing ==
    ASSUME Inv, pc \in Active, UNCHANGED <<call, result>>,
           NEW needed \in Nat, NEW text \in Seq(Char), Len(text) =< needed + 1,
           NEW advance \in 0 .. needed, NEW next \in Active \ {"done"}, NEW deeper \in Int,
           Emit(needed, text, advance, next, deeper),
           item' \in Items, stack' \in Seq(Frame), Len(stack) + deeper = Len(stack'),
           next \in Within => stack' # <<>>,
           next \in Unmeasured => \E k \in advance + 1 .. Len(text) : text[k] = "nul"
    PROVE  Inv'
  <1>1. CallInv /\ MemoryInv /\ BufferInv /\ depth = Len(stack)
    BY DEF Inv, PhaseInv
  <1>2. UNCHANGED call /\ next \in Active
    OBVIOUS
  <1>3. Emitted(next, deeper)
    BY <1>1, <1>2, EmitStep
  <1>4. next \in Unmeasured /\ pc' = next => (Nuls # {})'
    BY <1>1, <1>2, EmitStep
  <1>5. depth + deeper = Len(stack')
    BY <1>1
  <1>6. QED BY <1>3, <1>4, <1>5, Preserved

(* The innermost array or object.                                           *)
LEMMA TopFrame ==
    ASSUME CallInv, stack # <<>>
    PROVE  /\ Len(stack) \in Nat \ {0} /\ Top \in Frame /\ Top.item \in Items /\ Top.done \in Nat
           /\ Kids \in Seq(Items)
  <1>1. stack \in Seq(Frame)
    BY DEF CallInv
  <1>2. \A f \in Frame : f.item \in Items /\ f.done \in Nat
    BY DEF Frame
  <1> HIDE DEF Frame
  <1>3. Len(stack) \in Nat \ {0}
    BY <1>1
  <1>4. stack[Len(stack)] \in Frame
    BY <1>1, <1>3
  <1>5. QED BY <1>2, <1>3, <1>4, RootsAreTrees DEF Top, Last, Kids

LEMMA EnteredStack ==
    ASSUME CallInv
    PROVE  Entered \in Seq(Frame) /\ Len(Entered) = Len(stack) + 1 /\ Entered # <<>>
  <1>1. stack \in Seq(Frame) /\ [item |-> item, done |-> 0] \in Frame
    BY DEF CallInv, Frame
  <1> DEFINE frame == [item |-> item, done |-> 0]
  <1> HIDE DEF frame
  <1>2. Entered \in Seq(Frame) /\ Len(Entered) = Len(stack) + 1
    BY <1>1 DEF Entered, frame
  <1>3. Len(stack) + 1 # 0 /\ Len(<<>>) = 0
    BY <1>1, LengthIsNat
  <1>4. QED BY <1>2, <1>3

LEMMA LeftStack ==
    ASSUME CallInv, stack # <<>>
    PROVE  Left \in Seq(Frame) /\ Len(Left) = Len(stack) - 1
  <1>1. ASSUME NEW S, NEW s \in Seq(S), s # <<>>
        PROVE  SubSeq(s, 1, Len(s) - 1) \in Seq(S) /\ Len(SubSeq(s, 1, Len(s) - 1)) = Len(s) - 1
    <2>1. Len(s) \in Nat \ {0}
      BY <1>1
    <2>2. SubSeq(s, 1, Len(s) - 1) = [d \in 1 .. Len(s) - 1 |-> s[d]]
      BY <2>1
    <2> DEFINE front == [d \in 1 .. Len(s) - 1 |-> s[d]]
    <2>3. \A d \in 1 .. Len(s) : s[d] \in S
      OBVIOUS
    <2>4. front \in [1 .. Len(s) - 1 -> S] /\ Len(s) - 1 \in Nat
      BY <2>1, <2>3
    <2> HIDE DEF front
    <2>5. front \in Seq(S) /\ Len(front) = Len(s) - 1
      BY <2>4, TextOf
    <2>6. QED BY <2>2, <2>5 DEF front
  <1>2. stack \in Seq(Frame)
    BY DEF CallInv
  <1>3. QED BY <1>1, <1>2 DEF Left

LEMMA ScalarStep ==
    ASSUME Inv, PrintScalar PROVE Inv'
  <1> DEFINE advance == IF item.kind = "number" THEN item.size ELSE 0
  <1>1. CallInv /\ item \in Items /\ item.kind \in Scalar /\ pc = "value"
    BY DEF Inv, CallInv, PrintScalar
  <1>2. /\ Needed(item) \in Nat /\ ScalarText(item) \in Seq(Char)
        /\ Len(ScalarText(item)) =< Needed(item) + 1 /\ advance \in 0 .. Needed(item)
        /\ \E k \in advance + 1 .. Len(ScalarText(item)) : ScalarText(item)[k] = "nul"
    BY <1>1, ScalarFits
  <1>3. /\ Emit(Needed(item), ScalarText(item), advance, "printed", 0)
        /\ UNCHANGED <<call, result>> /\ item' = item /\ stack' = stack
    BY DEF PrintScalar
  <1> HIDE DEF advance
  <1>4. /\ pc \in Active /\ "printed" \in Active \ {"done"} /\ 0 \in Int
        /\ item' \in Items /\ stack' \in Seq(Frame)
    BY <1>1, <1>3 DEF Active, CallInv
  <1>5. Len(stack) + 0 = Len(stack')
    BY <1>3, <1>4, LengthIsNat
  <1>6. "printed" \notin Within
    BY DEF Within
  <1>7. QED BY <1>2, <1>3, <1>4, <1>5, <1>6, Writing

LEMMA OpenArrayStep ==
    ASSUME Inv, OpenArray PROVE Inv'
  <1>1. CallInv /\ item \in Items /\ pc = "value"
    BY DEF Inv, CallInv, OpenArray
  <1>2. /\ Emit(1, <<"lbracket">>, 1, "kids", 1)
        /\ UNCHANGED <<call, result>> /\ item' = item /\ stack' = Entered
    BY DEF OpenArray, Deeper
  <1>3. /\ pc \in Active /\ "kids" \in Active \ {"done"} /\ "kids" \notin Unmeasured /\ 1 \in Int
        /\ <<"lbracket">> \in Seq(Char) /\ Len(<<"lbracket">>) =< 1 + 1
        /\ 1 \in Nat /\ 1 \in 0 .. 1
    BY <1>1 DEF Active, Unmeasured, Char
  <1>4. item' \in Items /\ stack' \in Seq(Frame) /\ Len(stack) + 1 = Len(stack') /\ stack' # <<>>
    BY <1>1, <1>2, EnteredStack
  <1>5. QED BY <1>2, <1>3, <1>4, Writing

LEMMA OpenObjectStep ==
    ASSUME Inv, OpenObject PROVE Inv'
  <1> DEFINE text == Spaced(<<"lbrace">>, "newline")
  <1>1. CallInv /\ item \in Items /\ pc = "value"
    BY DEF Inv, CallInv, OpenObject
  <1>2. /\ Emit(Len(text) + 1, text, Len(text), "kids", 1)
        /\ UNCHANGED <<call, result>> /\ item' = item /\ stack' = Entered
    BY DEF OpenObject, Deeper
  <1>3. text \in Seq(Char)
    <2>1. <<"lbrace">> \in Seq(Char) /\ "newline" \in Char
      BY DEF Char
    <2>2. QED BY <1>1, <2>1, SpacedText
  <1> HIDE DEF text
  <1>4. /\ Len(text) + 1 \in Nat /\ Len(text) \in 0 .. Len(text) + 1
        /\ Len(text) =< Len(text) + 1 + 1
    BY <1>3, LengthIsNat
  <1>5. pc \in Active /\ "kids" \in Active \ {"done"} /\ "kids" \notin Unmeasured /\ 1 \in Int
    BY <1>1 DEF Active, Unmeasured
  <1>6. item' \in Items /\ stack' \in Seq(Frame) /\ Len(stack) + 1 = Len(stack') /\ stack' # <<>>
    BY <1>1, <1>2, EnteredStack
  <1>7. QED BY <1>2, <1>3, <1>4, <1>5, <1>6, Writing
LEMMA IndentStep ==
    ASSUME Inv, Indent PROVE Inv'
  <1> DEFINE text == Times(depth, "tab")
  <1>1. CallInv /\ depth \in Nat /\ item \in Items /\ stack \in Seq(Frame) /\ pc = "indent"
    BY DEF Inv, CallInv, Indent
  <1>2. /\ Emit(depth, text, depth, "name", 0)
        /\ UNCHANGED <<call, result>> /\ item' = item /\ stack' = stack
    BY DEF Indent
  <1>3. text \in Seq(Char) /\ Len(text) = depth
    BY <1>1, TimesText DEF Char
  <1> HIDE DEF text
  <1>4. /\ pc \in Active /\ "name" \in Active \ {"done"} /\ "name" \notin Unmeasured
        /\ 0 \in Int /\ pc \in Within
    BY <1>1 DEF Active, Unmeasured, Within
  <1>5. Len(text) =< depth + 1 /\ depth \in 0 .. depth
    BY <1>1, <1>3
  <1>6. /\ item' \in Items /\ stack' \in Seq(Frame) /\ Len(stack) + 0 = Len(stack')
        /\ stack' # <<>>
    BY <1>1, <1>2, <1>4, LengthIsNat DEF Inv, PhaseInv
  <1>7. QED BY <1>1, <1>2, <1>3, <1>4, <1>5, <1>6, Writing

LEMMA NameStep ==
    ASSUME Inv, PrintName PROVE Inv'
  <1> DEFINE needed == item.name + 3
             text == Quoted(item.name)
  <1>1. CallInv /\ item \in Items /\ stack \in Seq(Frame) /\ pc = "name"
    BY DEF Inv, CallInv, PrintName
  <1>2. /\ Emit(needed, text, 0, "named", 0)
        /\ UNCHANGED <<call, result>> /\ item' = item /\ stack' = stack
    BY DEF PrintName
  <1>3. /\ needed \in Nat /\ needed > 0 /\ text \in Seq(Char) /\ Len(text) = needed
        /\ text[needed] = "nul"
    <2>1. item.name \in Nat
      BY <1>1, RootsAreTrees
    <2>2. needed \in Nat /\ needed > 0
      BY <2>1
    <2>3. QED BY <2>1, <2>2, QuotedText
  <1> HIDE DEF text, needed
  <1>4. /\ pc \in Active /\ "named" \in Active \ {"done"} /\ 0 \in Int /\ pc \in Within
    BY <1>1 DEF Active, Within
  <1>5. Len(text) =< needed + 1 /\ 0 \in 0 .. needed /\ needed \in 0 + 1 .. Len(text)
    BY <1>3
  <1>6. /\ item' \in Items /\ stack' \in Seq(Frame) /\ Len(stack) + 0 = Len(stack')
        /\ stack' # <<>>
    BY <1>1, <1>2, <1>4, LengthIsNat DEF Inv, PhaseInv
  <1>7. \E k \in 0 + 1 .. Len(text) : text[k] = "nul"
    BY <1>3, <1>5
  <1>8. QED BY <1>2, <1>3, <1>4, <1>5, <1>6, <1>7, Writing

LEMMA ColonStep ==
    ASSUME Inv, Colon PROVE Inv'
  <1> DEFINE text == Spaced(<<"colon">>, "tab")
  <1>1. CallInv /\ item \in Items /\ stack \in Seq(Frame) /\ pc = "colon"
    BY DEF Inv, CallInv, Colon
  <1>2. /\ Emit(Len(text), text, Len(text), "value", 0)
        /\ UNCHANGED <<call, result>> /\ item' = item /\ stack' = stack
    BY DEF Colon
  <1>3. text \in Seq(Char)
    <2>1. <<"colon">> \in Seq(Char) /\ "tab" \in Char
      BY DEF Char
    <2>2. QED BY <1>1, <2>1, SpacedText
  <1> HIDE DEF text
  <1>4. Len(text) \in Nat /\ Len(text) \in 0 .. Len(text) /\ Len(text) =< Len(text) + 1
    BY <1>3, LengthIsNat
  <1>5. /\ pc \in Active /\ "value" \in Active \ {"done"} /\ 0 \in Int
        /\ "value" \notin Unmeasured /\ "value" \notin Within
    BY <1>1 DEF Active, Unmeasured, Within
  <1>6. item' \in Items /\ stack' \in Seq(Frame) /\ Len(stack) + 0 = Len(stack')
    BY <1>1, <1>2, LengthIsNat
  <1>7. QED BY <1>2, <1>3, <1>4, <1>5, <1>6, Writing

(* A step that leaves the buffer alone, between two phases of the loops.    *)
LEMMA Moving ==
    ASSUME Inv, pc \in Active, UNCHANGED <<call, print, result>>,
           item' \in Items, stack' \in Seq(Frame), Len(stack') = Len(stack),
           pc' \in Active \ (Unmeasured \cup {"done"}), pc' \in Within => stack' # <<>>
    PROVE  Inv'
  <1>1. MemoryInv' /\ CallInv'
    BY DEF Inv, MemoryInv, CallInv, call, print
  <1>2. BufferInv' /\ depth' = Len(stack')
    BY DEF Inv, PhaseInv, BufferInv, call, print, Noalloc
  <1>3. StaysInside' /\ NothingLeft'
    BY DEF StaysInside, NothingLeft, Active
  <1>4. QED BY <1>1, <1>2, <1>3 DEF Inv, PhaseInv, Active, Within, Unmeasured

(* What separates two kids is terminated, and the terminator overwritten.   *)
LEMMA Separating ==
    ASSUME Inv, pc = "separate", UNCHANGED <<call, item, stack, result>>,
           NEW text \in Seq(Char),
           Emit(Len(text) + 1, Append(text, "nul"), Len(text), "kids", 0)
    PROVE  Inv'
  <1>1. CallInv /\ item \in Items /\ stack \in Seq(Frame)
    BY DEF Inv, CallInv
  <1>2. Len(text) \in Nat
    BY LengthIsNat
  <1>3. /\ Append(text, "nul") \in Seq(Char) /\ Len(Append(text, "nul")) =< Len(text) + 1 + 1
        /\ Len(text) + 1 \in Nat /\ Len(text) \in 0 .. Len(text) + 1
    BY <1>2, TerminatedText
  <1>4. /\ pc \in Active /\ "kids" \in Active \ {"done"} /\ 0 \in Int
        /\ "kids" \notin Unmeasured /\ pc \in Within
    BY DEF Active, Unmeasured, Within
  <1>5. /\ item' \in Items /\ stack' \in Seq(Frame) /\ Len(stack) + 0 = Len(stack')
        /\ stack' # <<>>
    BY <1>1, <1>4, LengthIsNat DEF Inv, PhaseInv
  <1>6. UNCHANGED <<call, result>>
    OBVIOUS
  <1>7. QED BY <1>3, <1>4, <1>5, <1>6, Writing

LEMMA SeparateElementsStep ==
    ASSUME Inv, SeparateElements PROVE Inv'
  <1>1. CallInv /\ pc = "separate" /\ UNCHANGED <<call, item, stack, result>>
    BY DEF Inv, SeparateElements
  <1>2. CASE pc' = "kids" /\ UNCHANGED print
    <2>1. pc \in Active /\ pc \in Within /\ pc' \in Active \ (Unmeasured \cup {"done"})
      BY <1>1, <1>2 DEF Active, Within, Unmeasured
    <2>2. item' \in Items /\ stack' \in Seq(Frame) /\ stack' # <<>>
      BY <1>1, <2>1 DEF Inv, PhaseInv, CallInv
    <2>3. QED BY <1>1, <1>2, <2>1, <2>2, Moving
  <1> DEFINE text == Spaced(<<"comma">>, "blank")
  <1>3. CASE Emit(Len(text) + 1, Append(text, "nul"), Len(text), "kids", 0)
    <2>1. text \in Seq(Char)
      <3>1. <<"comma">> \in Seq(Char) /\ "blank" \in Char
        BY DEF Char
      <3>2. QED BY <1>1, <3>1, SpacedText
    <2> HIDE DEF text
    <2>2. QED BY <1>1, <1>3, <2>1, Separating
  <1>4. QED BY <1>2, <1>3 DEF SeparateElements

LEMMA SeparateMembersStep ==
    ASSUME Inv, SeparateMembers PROVE Inv'
  <1> DEFINE text == Spaced(IF More THEN <<"comma">> ELSE <<>>, "newline")
  <1>1. /\ CallInv /\ pc = "separate" /\ UNCHANGED <<call, item, stack, result>>
        /\ Emit(Len(text) + 1, Append(text, "nul"), Len(text), "kids", 0)
    BY DEF Inv, SeparateMembers
  <1>2. text \in Seq(Char)
    <2>1. (IF More THEN <<"comma">> ELSE <<>>) \in Seq(Char) /\ "newline" \in Char
      BY DEF Char
    <2>2. QED BY <1>1, <2>1, SpacedText
  <1> HIDE DEF text
  <1>3. QED BY <1>1, <1>2, Separating
LEMMA CloseArrayStep ==
    ASSUME Inv, CloseArray PROVE Inv'
  <1> DEFINE text == <<"rbracket", "nul">>
  <1>1. CallInv /\ item \in Items /\ pc = "kids" /\ stack # <<>>
    BY DEF Inv, PhaseInv, CallInv, CloseArray, Within
  <1>2. /\ Emit(2, text, 0, "printed", -1)
        /\ UNCHANGED <<call, result>> /\ item' = item /\ stack' = Left
    BY DEF CloseArray
  <1>3. /\ text \in Seq(Char) /\ Len(text) =< 2 + 1 /\ 2 \in Nat /\ 0 \in 0 .. 2
        /\ \E k \in 0 + 1 .. Len(text) : text[k] = "nul"
    <2>1. text \in Seq(Char) /\ Len(text) = 2 /\ text[2] = "nul"
      BY DEF Char
    <2>2. QED BY <2>1
  <1> HIDE DEF text
  <1>4. /\ pc \in Active /\ "printed" \in Active \ {"done"} /\ -1 \in Int
        /\ "printed" \notin Within
    BY <1>1 DEF Active, Within
  <1>5. item' \in Items /\ stack' \in Seq(Frame) /\ Len(stack) + (-1) = Len(stack')
    BY <1>1, <1>2, TopFrame, LeftStack
  <1>6. QED BY <1>2, <1>3, <1>4, <1>5, Writing

LEMMA CloseObjectStep ==
    ASSUME Inv, CloseObject PROVE Inv'
  <1> DEFINE tabs == IF format THEN Times(depth - 1, "tab") ELSE <<>>
             bracket == <<"rbrace", "nul">>
             text == tabs \o bracket
  <1>1. /\ CallInv /\ item \in Items /\ pc = "kids" /\ stack # <<>> /\ depth = Len(stack)
        /\ depth \in Nat \ {0}
    BY TopFrame DEF Inv, PhaseInv, CallInv, CloseObject, Within, Active
  <1>2. /\ Emit(CloseNeeds, text, 0, "printed", -1)
        /\ UNCHANGED <<call, result>> /\ item' = item /\ stack' = Left
    BY DEF CloseObject
  <1>3. tabs \in Seq(Char) /\ Len(tabs) = IF format THEN depth - 1 ELSE 0
    <2>1. "tab" \in Char /\ depth - 1 \in Nat
      BY <1>1 DEF Char
    <2>2. Times(depth - 1, "tab") \in Seq(Char) /\ Len(Times(depth - 1, "tab")) = depth - 1
      BY <2>1, TimesText
    <2>3. CASE format
      BY <2>2, <2>3
    <2>4. CASE ~format
      <3>1. tabs = <<>> /\ <<>> \in Seq(Char) /\ Len(<<>>) = 0
        BY <2>4
      <3>2. QED BY <2>4, <3>1
    <2>5. QED BY <2>3, <2>4
  <1>4. bracket \in Seq(Char) /\ Len(bracket) = 2 /\ bracket[2] = "nul"
    BY DEF Char
  <1>5. CloseNeeds \in Nat /\ CloseNeeds = IF format THEN depth + 1 ELSE 2
    BY <1>1 DEF CloseNeeds
  <1> HIDE DEF tabs, bracket
  <1>6. /\ text \in Seq(Char) /\ Len(text) = Len(tabs) + 2
        /\ text[Len(tabs) + 2] = "nul"
    <2>1. 2 \in 1 .. Len(bracket)
      BY <1>4
    <2>2. /\ tabs \o bracket \in Seq(Char) /\ Len(tabs \o bracket) = Len(tabs) + Len(bracket)
          /\ (tabs \o bracket)[Len(tabs) + 2] = bracket[2]
      BY <1>3, <1>4, <2>1, Concatenated
    <2>3. QED BY <1>4, <2>2
  <1> HIDE DEF text
  <1>7. Len(tabs) \in Nat /\ Len(tabs) + 2 =< CloseNeeds + 1
    BY <1>1, <1>3, <1>5
  <1>8. /\ Len(text) =< CloseNeeds + 1 /\ 0 \in 0 .. CloseNeeds
        /\ \E k \in 0 + 1 .. Len(text) : text[k] = "nul"
    <2>1. Len(tabs) + 2 \in 0 + 1 .. Len(text)
      BY <1>6, <1>7
    <2>2. QED BY <1>5, <1>6, <1>7, <2>1
  <1>9. /\ pc \in Active /\ "printed" \in Active \ {"done"} /\ -1 \in Int
        /\ "printed" \notin Within
    BY <1>1 DEF Active, Within
  <1>10. item' \in Items /\ stack' \in Seq(Frame) /\ Len(stack) + (-1) = Len(stack')
    BY <1>1, <1>2, TopFrame, LeftStack
  <1>11. QED BY <1>2, <1>5, <1>6, <1>8, <1>9, <1>10, Writing

LEMMA NextKidStep ==
    ASSUME Inv, NextKid PROVE Inv'
  <1>1. /\ CallInv /\ stack # <<>> /\ stack \in Seq(Frame) /\ pc = "kids" /\ More
        /\ pc \in Active /\ UNCHANGED <<call, print, result>>
    BY DEF Inv, PhaseInv, CallInv, NextKid, Within, Active
  <1>2. /\ Len(stack) \in Nat \ {0} /\ Top \in Frame /\ Top.item \in Items /\ Top.done \in Nat
        /\ Kids \in Seq(Items)
    BY <1>1, TopFrame
  <1>3. item' \in Items
    <2>1. Top.done + 1 \in 1 .. Len(Kids)
      BY <1>1, <1>2, LengthIsNat DEF More
    <2>2. item' = Kids[Top.done + 1]
      BY DEF NextKid
    <2>3. QED BY <1>2, <2>1, <2>2
  <1>4. stack' \in Seq(Frame) /\ Len(stack') = Len(stack)
    <2> DEFINE frame == [item |-> Top.item, done |-> Top.done + 1]
    <2>1. Top = [item |-> Top.item, done |-> Top.done]
      BY <1>2 DEF Frame
    <2>2. stack[Len(stack)] = Top
      BY DEF Top, Last
    <2>3. stack' = [stack EXCEPT ![Len(stack)].done = stack[Len(stack)].done + 1]
      BY DEF NextKid
    <2>4. [Top EXCEPT !.done = Top.done + 1] \in Frame
      BY <1>2, <2>1 DEF Frame
    <2> DEFINE next == [Top EXCEPT !.done = Top.done + 1]
    <2>5. stack' = [stack EXCEPT ![Len(stack)] = next]
      BY <2>2, <2>3
    <2> HIDE DEF next
    <2>6. next \in Frame
      BY <2>4 DEF next
    <2>7. QED BY <1>1, <1>2, <2>5, <2>6
  <1>5. stack' # <<>> /\ pc' \in {"value", "indent", "name"}
    <2>1. pc' \in {"value", "indent", "name"}
      BY DEF NextKid
    <2>2. Len(stack') # 0 /\ Len(<<>>) = 0
      BY <1>2, <1>4
    <2>3. QED BY <2>1, <2>2
  <1>6. pc' \in Active \ (Unmeasured \cup {"done"})
    BY <1>5 DEF Active, Unmeasured
  <1>7. QED BY <1>1, <1>3, <1>4, <1>5, <1>6, Moving
-----------------------------------------------------------------------------
(* What update_offset finds.                                                *)

Below == {jk \in Nat \X Nat : jk[1] < jk[2]}

LEMMA NumbersGrow == IsWellFoundedOn(Below, Nat)
  BY NatLessThanWellFounded DEF OpToRel, Below

(* The terminator is inside the buffer, so the offset stays inside.         *)
LEMMA TextEndInside ==
    ASSUME offset \in Nat, Len(memory[buffer]) \in Nat, Nuls # {}
    PROVE  TextEnd \in Nat /\ TextEnd < Len(memory[buffer])
  <1>1. Nuls \in SUBSET Nat /\ \A i \in Nuls : i - 1 \in Nat /\ i - 1 < Len(memory[buffer])
    BY DEF Nuls
  <1>2. PICK i \in Nuls : \A j \in Nuls : <<j, i>> \notin Below
    BY <1>1, NumbersGrow, WFMin
  <1>3. \A j \in Nuls : ~(j < i)
    <2>1. \A j \in Nuls : /\ j \in Nat /\ i \in Nat /\ <<j, i>> \in Nat \X Nat
                          /\ <<j, i>>[1] = j /\ <<j, i>>[2] = i
      BY <1>1
    <2>2. QED BY <1>2, <2>1 DEF Below
  <1>4. \A j \in Nuls : i =< j
    BY <1>1, <1>3
  <1>5. TextEnd = (CHOOSE k \in Nuls : \A j \in Nuls : k =< j) - 1
    BY DEF TextEnd
  <1> HIDE DEF Nuls
  <1>6. (CHOOSE k \in Nuls : \A j \in Nuls : k =< j) \in Nuls
    BY <1>4
  <1>7. QED BY <1>1, <1>5, <1>6

LEMMA UpdateOffsetStep ==
    ASSUME Inv, UpdateOffset PROVE Inv'
  <1>1. /\ pc \in Unmeasured /\ (pc = "printed" => stack # <<>> \/ mode = "print")
        /\ UNCHANGED <<call, item, stack, memory, buffer, length, depth, starved, result>>
    BY DEF UpdateOffset, Unmeasured
  <1>2. /\ MemoryInv /\ CallInv /\ BufferInv /\ depth = Len(stack) /\ length > 0 /\ Nuls # {}
        /\ (pc = "named" => stack # <<>>) /\ offset \in Nat
    BY <1>1 DEF Inv, PhaseInv, CallInv, Active, Within, Unmeasured
  <1>3. /\ memory[buffer] \in Seq(Char) /\ Len(memory[buffer]) \in Nat
        /\ length = Len(memory[buffer])
    BY <1>2, LengthIsNat DEF MemoryInv, BufferInv
  <1>4. offset' \in Nat /\ offset' < length
    BY <1>2, <1>3, TextEndInside DEF UpdateOffset
  <1>5. pc' = IF pc = "named" THEN "colon" ELSE IF stack = <<>> THEN "done" ELSE "separate"
    BY <1>2 DEF UpdateOffset
  <1>6. MemoryInv' /\ CallInv'
    BY <1>1, <1>2, <1>4, <1>5 DEF MemoryInv, CallInv, call, Active
  <1>7. BufferInv' /\ depth' = Len(stack') /\ length' > 0
    BY <1>1, <1>2, <1>3, <1>4 DEF BufferInv, call, Noalloc
  <1>8. pc' \in {"colon", "separate", "done"} /\ (pc' # "done" => stack' # <<>>)
        /\ (pc' = "done" => mode' = "print")
    BY <1>1, <1>2, <1>5 DEF call, Unmeasured
  <1>9. StaysInside' /\ NothingLeft'
    BY <1>8 DEF StaysInside, NothingLeft
  <1>10. QED BY <1>6, <1>7, <1>8, <1>9 DEF Inv, PhaseInv, Active, Within, Unmeasured

-----------------------------------------------------------------------------
(* The ends of a call.                                                      *)

(* print_value gives up.                                                    *)
LEMMA GivingUp ==
    ASSUME Inv, pc' = "no", MemoryInv', LeftInv', UNCHANGED <<call, item, stack, result>>,
           UNCHANGED <<length, offset, depth>>, starved' \in BOOLEAN, buffer' \in {buffer, None}
    PROVE  Inv'
  <1>1. CallInv'
    BY DEF Inv, CallInv, call
  <1>2. PhaseInv'
    BY DEF PhaseInv, StaysInside, NothingLeft, Active, Within, Unmeasured
  <1>3. QED BY <1>1, <1>2 DEF Inv

LEMMA InvalidStep ==
    ASSUME Inv, PrintInvalid PROVE Inv'
  <1>1. /\ pc \in Active /\ pc' = "no" /\ UNCHANGED <<call, item, stack, result>>
        /\ UNCHANGED print
    BY DEF PrintInvalid, Active
  <1>2. MemoryInv' /\ LeftInv'
    BY <1>1 DEF Inv, MemoryInv, PhaseInv, BufferInv, LeftInv, print, call, Noalloc
  <1>3. QED BY <1>1, <1>2, GivingUp DEF Inv, CallInv, print

LEMMA RawNullStep ==
    ASSUME Inv, PrintRawNull PROVE Inv'
  <1>1. /\ pc \in Active /\ pc' = "no" /\ UNCHANGED <<call, item, stack, result>>
        /\ item.kind = "rawNull" /\ UNCHANGED <<buffer, length, offset, depth, starved>>
        /\ memory' = IF Noalloc THEN memory ELSE Without(buffer)
    BY DEF PrintRawNull, Active
  <1>2. MemoryInv /\ BufferInv /\ CallInv
    BY <1>1 DEF Inv, PhaseInv
  <1>3. MemoryInv' /\ LeftInv'
    <2>1. CASE Noalloc
      BY <1>1, <1>2, <2>1 DEF MemoryInv, BufferInv, LeftInv, call, Noalloc
    <2>2. CASE ~Noalloc
      <3>1. DOMAIN memory' = {}
        BY <1>1, <1>2, <2>2 DEF BufferInv, Without
      <3>2. QED BY <1>1, <3>1 DEF MemoryInv, LeftInv
    <2>3. QED BY <2>1, <2>2
  <1>4. QED BY <1>1, <1>2, <1>3, GivingUp DEF CallInv
(* One new block, where there was none or what was there is freed.          *)
LEMMA OneBlock ==
    ASSUME NEW b \in 1 .. 3, NEW bytes \in Seq(Char), Len(bytes) =< IntMax,
           memory' = [c \in {b} |-> bytes]
    PROVE  MemoryInv' /\ DOMAIN memory' = {b} /\ memory'[b] = bytes
  <1>1. DOMAIN memory' = {b} /\ memory'[b] = bytes
    OBVIOUS
  <1>2. QED BY <1>1 DEF MemoryInv

LEMMA StartStep ==
    ASSUME Inv, Start PROVE Inv'
  <1>1. /\ CallInv /\ MemoryInv /\ DOMAIN memory = IF Noalloc THEN {1} ELSE {}
        /\ Noalloc => buffer = 1 /\ length = Len(memory[1])
        /\ offset = 0 /\ depth = 0 /\ stack = <<>>
        /\ UNCHANGED <<call, item, stack, offset, depth, result>>
    BY DEF Inv, PhaseInv, Start
  <1>2. depth' = Len(stack') /\ Noalloc' = Noalloc /\ Len(<<>>) = 0
    BY <1>1 DEF call, Noalloc
  <1>3. CASE Noalloc /\ pc' = "value" /\ UNCHANGED <<memory, buffer, length, starved>>
    <2>1. MemoryInv' /\ CallInv'
      BY <1>1, <1>3 DEF MemoryInv, CallInv, call, Active
    <2>2. Len(memory[1]) \in Nat
      BY <1>1, <1>3, LengthIsNat DEF MemoryInv
    <2>3. BufferInv'
      BY <1>1, <1>2, <1>3, <2>2 DEF BufferInv, call, Noalloc
    <2>4. StaysInside' /\ NothingLeft'
      BY <1>3 DEF StaysInside, NothingLeft
    <2>5. QED
      BY <1>2, <1>3, <2>1, <2>3, <2>4 DEF Inv, PhaseInv, Active, Within, Unmeasured
  <1>4. CASE /\ ~Noalloc /\ buffer' = Fresh /\ memory' = With(Fresh, Blank(size))
             /\ length' = (IF mode = "print" THEN 0 ELSE size)
             /\ pc' = "value" /\ UNCHANGED starved
    <2>1. Fresh \in 1 .. 3
      <3>1. 1 \in 1 .. 3 /\ DOMAIN memory \subseteq {1}
        BY <1>1, <1>4
      <3>2. QED BY <3>1, FreshBlock
    <2>2. /\ size \in Nat /\ size =< IntMax /\ (mode = "print" => size > 0)
          /\ Blank(size) \in Seq(Char) /\ Len(Blank(size)) = size
      BY <1>1, BlankText DEF CallInv
    <2>3. memory' = [c \in {Fresh} |-> Blank(size)]
      BY <1>1, <1>4 DEF With
    <2>4. MemoryInv' /\ DOMAIN memory' = {Fresh} /\ memory'[Fresh] = Blank(size)
      BY <2>1, <2>2, <2>3, OneBlock
    <2>5. length' \in {0, size} /\ length' \in Nat
      BY <1>4, <2>2
    <2>6. CallInv'
      BY <1>1, <1>4, <2>1, <2>5 DEF CallInv, call, Active
    <2>7. Len(memory'[buffer']) = size
      BY <1>4, <2>2, <2>4
    <2>8. BufferInv'
      <3>1. DOMAIN memory' = {buffer'} /\ buffer' \in 1 .. 3 /\ ~Noalloc'
        BY <1>2, <1>4, <2>1, <2>4
      <3>2. mode' = mode /\ size' = size /\ offset' = 0
        BY <1>1 DEF call
      <3>3. size = 0 => mode' = "buffered"
        BY <1>1, <1>4, <2>2, <3>2 DEF CallInv, Noalloc
      <3>4. QED BY <2>2, <2>5, <2>7, <3>1, <3>2, <3>3 DEF BufferInv
    <2>9. StaysInside' /\ NothingLeft'
      BY <1>4 DEF StaysInside, NothingLeft
    <2>10. QED
      BY <1>2, <1>4, <2>4, <2>6, <2>8, <2>9 DEF Inv, PhaseInv, Active, Within, Unmeasured
  <1>5. CASE /\ ~Noalloc /\ starved' = TRUE /\ pc' = "failed"
             /\ UNCHANGED <<memory, buffer, length>>
    <2>1. MemoryInv' /\ CallInv'
      BY <1>1, <1>5 DEF MemoryInv, CallInv, call, Active
    <2>2. Allocated' = {}
      BY <1>1, <1>2, <1>5 DEF Allocated, Noalloc
    <2>3. StaysInside' /\ NothingLeft'
      BY <1>5, <2>2 DEF StaysInside, NothingLeft
    <2>4. QED
      BY <1>5, <2>1, <2>3 DEF Inv, PhaseInv, Active, Within, Unmeasured
  <1>6. QED BY <1>3, <1>4, <1>5 DEF Start

(* A call returns the only block there is.                                  *)
LEMMA Returning ==
    ASSUME Inv, pc' = "returned", MemoryInv', UNCHANGED <<call, item, stack>>,
           UNCHANGED <<length, offset, depth, starved>>, buffer' \in {buffer, None},
           result' \in 1 .. 3, DOMAIN memory' = {result'}
    PROVE  Inv'
  <1>1. CallInv'
    BY DEF Inv, CallInv, call
  <1>2. result' \in DOMAIN memory' /\ Allocated' \subseteq {result'}
    BY DEF Allocated
  <1>3. StaysInside' /\ NothingLeft'
    BY <1>2 DEF StaysInside, NothingLeft
  <1>4. QED
    BY <1>1, <1>3 DEF Inv, PhaseInv, Active, Within, Unmeasured

LEMMA DeliverStep ==
    ASSUME Inv, Deliver PROVE Inv'
  <1>1. /\ pc = "done" /\ CallInv /\ MemoryInv /\ BufferInv /\ length > 0
        /\ UNCHANGED <<call, item, stack, length, offset, depth>>
    BY DEF Inv, PhaseInv, Deliver, Active
  <1> DEFINE bytes == memory[buffer]
  <1>2. /\ bytes \in Seq(Char) /\ Len(bytes) \in Nat /\ Len(bytes) =< IntMax
        /\ length = Len(bytes) /\ offset \in Nat /\ offset < Len(bytes)
    BY <1>1, LengthIsNat DEF MemoryInv, BufferInv, CallInv
  <1>3. Fresh \in 1 .. 3
    BY <1>1, FreshBlock DEF BufferInv
  <1>4. ASSUME NEW n \in 0 .. Len(bytes)
        PROVE  SubSeq(bytes, 1, n) \in Seq(Char) /\ Len(SubSeq(bytes, 1, n)) = n
    <2>1. SubSeq(bytes, 1, n) = [d \in 1 .. n |-> bytes[d]]
      BY <1>2
    <2>2. \A d \in 1 .. n : bytes[d] \in Char
      BY <1>2
    <2> DEFINE front == [d \in 1 .. n |-> bytes[d]]
    <2>3. front \in [1 .. n -> Char] /\ n \in Nat
      BY <1>2, <2>2
    <2> HIDE DEF front
    <2>4. front \in Seq(Char) /\ Len(front) = n
      BY <2>3, TextOf
    <2>5. QED BY <2>1, <2>4 DEF front
  <1>5. CASE /\ memory' = [b \in {Fresh} |-> SubSeq(memory[buffer], 1, length)]
             /\ result' = Fresh /\ buffer' = None /\ pc' = "returned" /\ UNCHANGED starved
    <2>1. length \in 0 .. Len(bytes)
      BY <1>2
    <2>2. SubSeq(bytes, 1, length) \in Seq(Char) /\ Len(SubSeq(bytes, 1, length)) =< IntMax
      BY <1>2, <1>4, <2>1
    <2>3. MemoryInv' /\ DOMAIN memory' = {Fresh}
      BY <1>3, <1>5, <2>2, OneBlock
    <2>4. QED BY <1>1, <1>3, <1>5, <2>3, Returning
  <1>6. CASE /\ memory' = [b \in {Fresh} |-> Append(SubSeq(memory[buffer], 1, offset), "nul")]
             /\ result' = Fresh /\ pc' = "returned" /\ UNCHANGED <<buffer, starved>>
    <2> DEFINE text == SubSeq(bytes, 1, offset)
    <2>1. offset \in 0 .. Len(bytes) /\ offset + 1 =< IntMax
      BY <1>2, FirstSizeIsInt
    <2>2. text \in Seq(Char) /\ Len(text) = offset
      BY <1>4, <2>1
    <2>3. memory' = [b \in {Fresh} |-> Append(text, "nul")]
      BY <1>6
    <2> HIDE DEF text
    <2>4. Append(text, "nul") \in Seq(Char) /\ Len(Append(text, "nul")) =< IntMax
      BY <2>1, <2>2, TerminatedText
    <2>5. MemoryInv' /\ DOMAIN memory' = {Fresh}
      BY <1>3, <2>3, <2>4, OneBlock
    <2>6. QED BY <1>1, <1>3, <1>6, <2>5, Returning
  <1>7. CASE /\ starved' = TRUE /\ buffer' = (IF realloc THEN None ELSE buffer) /\ pc' = "no"
             /\ UNCHANGED <<memory, result>>
    <2>1. MemoryInv' /\ LeftInv'
      BY <1>1, <1>7 DEF MemoryInv, LeftInv, BufferInv, call, Noalloc
    <2>2. buffer' \in {buffer, None} /\ starved' \in BOOLEAN
      BY <1>7
    <2>3. QED BY <1>1, <1>7, <2>1, <2>2, GivingUp
  <1>8. QED BY <1>5, <1>6, <1>7 DEF Deliver

LEMMA ReturnStep ==
    ASSUME Inv, Return PROVE Inv'
  <1>1. /\ pc = "printed" /\ MemoryInv /\ BufferInv
        /\ result' = buffer /\ pc' = "returned" /\ UNCHANGED <<call, item, stack, print>>
    BY DEF Inv, PhaseInv, Return, Active
  <1>2. MemoryInv' /\ result' \in 1 .. 3 /\ DOMAIN memory' = {result'}
    BY <1>1 DEF MemoryInv, BufferInv, print
  <1>3. QED BY <1>1, <1>2, Returning DEF print

LEMMA FailStep ==
    ASSUME Inv, Fail PROVE Inv'
  <1>1. /\ pc = "no" /\ MemoryInv /\ CallInv /\ LeftInv
        /\ memory' = IF FreesBuffer THEN Without(buffer) ELSE memory
        /\ pc' = IF FreesBuffer /\ buffer \notin DOMAIN memory THEN "doubleFree" ELSE "failed"
        /\ UNCHANGED <<call, item, stack, buffer, length, offset, depth, starved, result>>
    BY DEF Inv, PhaseInv, Fail
  <1>2. DOMAIN memory' \subseteq DOMAIN memory /\ \A b \in DOMAIN memory' : memory'[b] = memory[b]
    BY <1>1 DEF Without
  <1>3. MemoryInv' /\ CallInv'
    BY <1>1, <1>2 DEF MemoryInv, CallInv, call
  <1>4. ~(realloc /\ starved) => Allocated' = {}
    <2>1. CASE DOMAIN memory = {}
      BY <1>2, <2>1 DEF Allocated
    <2>2. CASE DOMAIN memory = {buffer} /\ buffer \in 1 .. 3 /\ (Noalloc => buffer = 1)
      <3>1. CASE Noalloc
        BY <1>1, <2>2, <3>1 DEF Allocated, FreesBuffer, Noalloc, call
      <3>2. CASE ~Noalloc
        <4>1. FreesBuffer
          BY <2>2, <3>2, NoneIsNoBlock DEF FreesBuffer
        <4>2. DOMAIN memory' = {}
          BY <1>1, <2>2, <4>1 DEF Without
        <4>3. QED BY <4>2 DEF Allocated
      <3>3. QED BY <3>1, <3>2
    <2>3. QED BY <1>1, <2>1, <2>2 DEF LeftInv
  <1>5. FreesBuffer /\ buffer \notin DOMAIN memory => item.kind = "rawNull"
    BY <1>1 DEF LeftInv, FreesBuffer
  <1>6. StaysInside' /\ NothingLeft'
    BY <1>1, <1>4, <1>5 DEF StaysInside, NothingLeft, call
  <1>7. QED
    BY <1>1, <1>3, <1>6 DEF Inv, PhaseInv, Active, Within, Unmeasured
-----------------------------------------------------------------------------
(* The theorems.                                                            *)

LEMMA InvInit == Init => Inv
  <1> SUFFICES ASSUME Init PROVE Inv
    OBVIOUS
  <1>1. /\ mode \in {"print", "buffered", "preallocated"} /\ format \in BOOLEAN
        /\ realloc \in BOOLEAN /\ root \in Items /\ pc = "start" /\ item = root
        /\ stack = <<>> /\ offset = 0 /\ depth = 0 /\ starved = FALSE /\ result = None
    BY RootsAreTrees, SwitchIsBoolean DEF Init
  <1>2. size \in Nat /\ size =< IntMax /\ (mode = "print" => size > 0)
    BY SizesAreInts, FirstSizeIsInt DEF Init
  <1>empty. stack \in Seq(Frame) /\ Len(stack) = 0
    BY <1>1
  <1>3. CASE Noalloc
    <2>1. memory = [b \in {1} |-> Blank(size)] /\ buffer = 1 /\ length = size
      BY <1>3 DEF Init
    <2>2. Blank(size) \in Seq(Char) /\ Len(Blank(size)) = size
      BY <1>2, BlankText
    <2>3. DOMAIN memory = {1} /\ memory[1] = Blank(size)
      BY <2>1
    <2>4. MemoryInv
      BY <1>2, <2>2, <2>3 DEF MemoryInv
    <2>5. CallInv
      <3>1. buffer \in 1 .. 3 \cup {None} /\ length \in Nat
        BY <1>2, <2>1
      <3>2. QED BY <1>1, <1>2, <1>empty, <3>1 DEF CallInv
    <2>6. StaysInside /\ NothingLeft
      BY <1>1 DEF StaysInside, NothingLeft
    <2>7. QED
      BY <1>1, <1>3, <2>1, <2>2, <2>3, <2>4, <2>5, <2>6
      DEF Inv, PhaseInv, Active, Within, Unmeasured
  <1>4. CASE ~Noalloc
    <2>1. memory = <<>> /\ buffer = None /\ length = 0
      BY <1>4 DEF Init
    <2>2. DOMAIN memory = {}
      BY <2>1
    <2>3. MemoryInv
      BY <2>2 DEF MemoryInv
    <2>call. CallInv
      BY <1>1, <1>2, <1>empty, <2>1 DEF CallInv
    <2>4. StaysInside /\ NothingLeft
      BY <1>1 DEF StaysInside, NothingLeft
    <2>5. QED
      BY <1>1, <1>4, <2>2, <2>3, <2>call, <2>4 DEF Inv, PhaseInv, Active, Within, Unmeasured
  <1>5. QED BY <1>3, <1>4

LEMMA InvStep == Inv /\ [Next]_vars => Inv'
  <1> SUFFICES ASSUME Inv, [Next]_vars PROVE Inv'
    OBVIOUS
  <1>1. CASE UNCHANGED vars
    <2>1. /\ UNCHANGED <<call, pc, item, stack, print, result>>
          /\ UNCHANGED call /\ UNCHANGED print
      BY <1>1 DEF vars
    <2>2. MemoryInv' /\ CallInv'
      BY <2>1 DEF Inv, MemoryInv, CallInv, call, print
    <2>3. BufferInv' = BufferInv /\ LeftInv' = LeftInv /\ Nuls' = Nuls
      BY <2>1 DEF BufferInv, LeftInv, Nuls, call, print, Noalloc
    <2>4. StaysInside' = StaysInside /\ NothingLeft' = NothingLeft
      BY <2>1 DEF StaysInside, NothingLeft, Allocated, call, print
    <2>5. PhaseInv'
      BY <2>1, <2>3, <2>4 DEF Inv, PhaseInv, call, print, Noalloc
    <2>6. QED BY <2>2, <2>5 DEF Inv
  <1>2. CASE Next
    BY <1>2, StartStep, ScalarStep, InvalidStep, RawNullStep, OpenArrayStep, OpenObjectStep,
       NextKidStep, IndentStep, NameStep, UpdateOffsetStep, ColonStep, SeparateElementsStep,
       SeparateMembersStep, CloseArrayStep, CloseObjectStep, DeliverStep, ReturnStep, FailStep
    DEF Next
  <1>3. QED BY <1>1, <1>2

LEMMA Invariant == Spec => []Inv
  BY InvInit, InvStep, PTL DEF Spec

(* Every variable of a call keeps its type, whatever tree it prints.        *)
THEOREM TypeCorrect == Spec => []TypeOK
  <1>1. Inv => TypeOK
    BY DEF Inv, MemoryInv, CallInv, TypeOK, Active
  <1>2. QED BY <1>1, Invariant, PTL

(* Whatever the tree and the size of the buffer, print_value never writes   *)
(* past the block that `ensure' returned, and update_offset never runs past *)
(* its end.  The printer touches other memory only when a realloc failed    *)
(* (cJSON.c:412), or when, without realloc, cJSON_PrintBuffered grows the   *)
(* empty block of a guess of 0; with realloc and memory enough it never     *)
(* does.                                                                    *)
THEOREM OutsideOnlyAsKnown == Spec => []StaysInside
  <1>1. Inv => StaysInside
    BY DEF Inv, PhaseInv
  <1>2. QED BY <1>1, Invariant, PTL

(* p->length is never more than the block, the offset is always inside it,  *)
(* and p->depth is the number of arrays and objects that are open.          *)
THEOREM BufferKept == Spec => []BufferSound
  <1>1. Inv => BufferSound
    BY DEF Inv, PhaseInv, BufferInv, BufferSound, Active
  <1>2. QED BY <1>1, Invariant, PTL

(* A call that returns hands over the only block it has; one that fails has *)
(* none left, unless it was realloc that failed, and freed none twice, but  *)
(* for raw JSON without text.                                               *)
THEOREM NothingLost == Spec => []NothingLeft
  <1>1. Inv => NothingLeft
    BY DEF Inv, PhaseInv
  <1>2. QED BY <1>1, Invariant, PTL

(* Doubling never makes a block larger than an int can say, not even right  *)
(* below INT_MAX.                                                           *)
THEOREM SizesFitInt == Spec => []FitsInt
  <1>1. Inv => FitsInt
    BY DEF Inv, MemoryInv, FitsInt
  <1>2. QED BY <1>1, Invariant, PTL
=============================================================================
