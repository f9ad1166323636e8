----------------------------- MODULE StringCodec -----------------------------
(***************************************************************************)
(* How a string is written and read back, cJSON.c:517-924: print_string_ptr*)
(* escapes it into a buffer whose size it counts beforehand, parse_string  *)
(* first looks for the closing quote and counts what it will need, then    *)
(* decodes.  Bytes are numbers, offsets count from 1.                      *)
(***************************************************************************)
EXTENDS Bits, Sequences, SequencesExt

Quote == 34     Backslash == 92     Slash == 47     Nul == 0
LetterB == 98   LetterF == 102      LetterN == 110  LetterR == 114
LetterT == 116  LetterU == 117

VARIABLES
    text,       \* buffer->content, its terminator included
    phase,      \* what goes on
    pos,        \* input_pointer
    end,        \* input_end
    skipped,    \* skipped_bytes
    room,       \* the size of the block the output is written to
    output      \* what has been written to it

codecVars == <<pos, end, skipped, room, output>>

-----------------------------------------------------------------------------
(* print_string_ptr *)

(* The letter that stands for a byte after a backslash, or 0. *)
Letter(byte) ==
    CASE byte = Quote     -> Quote
      [] byte = Backslash -> Backslash
      [] byte = 8  -> LetterB   [] byte = 12 -> LetterF
      [] byte = 10 -> LetterN   [] byte = 13 -> LetterR
      [] byte = 9  -> LetterT
      [] OTHER -> 0

(* Mutant: the backslash of \uXXXX is not counted. *)
ExtraShort(byte) == IF Letter(byte) # 0 THEN 1 ELSE IF byte < 32 THEN 4 ELSE 0

(* What escaping a byte adds to the length. *)
Extra(byte) == IF Letter(byte) # 0 THEN 1 ELSE IF byte < 32 THEN 5 ELSE 0

(* escape_characters, and a byte for each one. *)
EscapeCharacters(bytes) ==
    Cardinality({p \in (DOMAIN bytes) \X (1..5) : p[2] =< Extra(bytes[p[1]])})

OutputLength(bytes) == Len(bytes) + EscapeCharacters(bytes)

(* %04x of a control character. *)
Hex(byte) == LET Digit(d) == IF d < 10 THEN 48 + d ELSE 87 + d
             IN  <<48, 48, Digit(byte \div 16), Digit(byte % 16)>>

Escaped(byte) ==
    IF byte > 31 /\ byte # Quote /\ byte # Backslash THEN <<byte>>
    ELSE IF Letter(byte) # 0 THEN <<Backslash, Letter(byte)>>
    ELSE <<Backslash, LetterU>> \o Hex(byte)

EscapedBytes(bytes) == FlattenSeq([i \in DOMAIN bytes |-> Escaped(bytes[i])])

(* What is in the buffer of output_length + 3 bytes in the end: the closing *)
(* quote goes where the count says.                                         *)
PrintString(bytes) ==
    LET length  == OutputLength(bytes)
        written == <<Quote>> \o EscapedBytes(bytes)
    IN  [i \in 1..length + 3 |->
            CASE i = length + 2 -> Quote
              [] i = length + 3 -> Nul
              [] OTHER -> IF i \in DOMAIN written THEN written[i] ELSE Nul]

-----------------------------------------------------------------------------
(* utf16_literal_to_utf8 *)

HexDigit(byte) ==
    CASE byte \in 48..57  -> byte - 48
      [] byte \in 65..70  -> byte - 55
      [] byte \in 97..102 -> byte - 87
      [] OTHER -> 16

(* parse_hex4 of the bytes from i on; 0 when one is no digit. *)
ParseHex4(i) ==
    LET d == [k \in 0..3 |-> HexDigit(text[i + k])]
    IN  IF \E k \in 0..3 : d[k] = 16 THEN 0
        ELSE 4096 * d[0] + 256 * d[1] + 16 * d[2] + d[3]

(* Mutant: the planes above the first are not added. *)
PairShort(high, low) == ((high & 1023) * 1024) | (low & 1023)

(* 0x10000 + (((first_code & 0x3FF) << 10) | (second_code & 0x3FF)) *)
Pair(high, low) == 65536 + (((high & 1023) * 1024) | (low & 1023))

(* One byte below 0x80, or a first byte with its mark and then 10xxxxxx. *)
Utf8(codepoint) ==
    LET length == CASE codepoint < 128   -> 1
                    [] codepoint < 2048  -> 2
                    [] codepoint < 65536 -> 3
                    [] OTHER -> 4
        mark == <<0, 192, 224, 240>>[length]
    IN  [i \in 1..length |->
            LET shifted == codepoint \div 2 ^ (6 * (length - i))
            IN  IF length = 1 THEN codepoint & 127
                ELSE IF i = 1 THEN (shifted | mark) & 255
                ELSE (shifted | 128) & 191]

High == 55296..56319    \* 0xD800..0xDBFF
Low  == 56320..57343    \* 0xDC00..0xDFFF

Literal(length, bytes) == [length |-> length, bytes |-> bytes]
BadLiteral == Literal(0, <<>>)

(* One literal \uXXXX at i, or a pair; its length is 0 when it is refused.  *)
Utf16(i) ==
    LET first  == ParseHex4(i + 2)
        second == ParseHex4(i + 8)
    IN  IF end - i < 6 THEN BadLiteral
        ELSE IF first \in Low THEN BadLiteral
        ELSE IF first \notin High THEN Literal(6, Utf8(first))
        ELSE IF end - i < 12 THEN BadLiteral
        ELSE IF text[i + 6] # Backslash \/ text[i + 7] # LetterU THEN BadLiteral
        ELSE IF second \notin Low THEN BadLiteral
        ELSE Literal(12, Utf8(Pair(first, second)))

-----------------------------------------------------------------------------
(* parse_string, on a string that begins at offset 1. *)

Fail == phase' = "failed" /\ UNCHANGED <<text, pos, end, skipped, room, output>>

(* The text must be a string. *)
FirstByte ==
    /\ phase = "begin"
    /\ IF text[1] = Quote
       THEN /\ phase' = "scan" /\ pos' = 2 /\ end' = 2
            /\ UNCHANGED <<text, skipped, room, output>>
       ELSE Fail

(* The first pass, byte by byte; an escaped byte is not looked at. *)
Scan ==
    /\ phase = "scan"
    /\ end =< Len(text) /\ text[end] # Quote
    /\ IF text[end] = Backslash
       THEN IF end + 1 > Len(text) THEN Fail
            ELSE /\ end' = end + 2 /\ skipped' = skipped + 1
                 /\ UNCHANGED <<text, phase, pos, room, output>>
       ELSE /\ end' = end + 1
            /\ UNCHANGED <<text, phase, pos, skipped, room, output>>

Unclosed ==
    /\ phase = "scan"
    /\ end > Len(text)
    /\ Fail

(* allocation_length + sizeof(""); the block may not be there. *)
Allocate(succeeds) ==
    /\ phase = "scan"
    /\ end =< Len(text) /\ text[end] = Quote
    /\ IF succeeds
       THEN /\ phase' = "decode"
            /\ room' = end - 1 - skipped + 1
            /\ UNCHANGED <<text, pos, end, skipped, output>>
       ELSE Fail

Escape(letter) ==
    CASE letter = LetterB -> 8      [] letter = LetterF -> 12
      [] letter = LetterN -> 10     [] letter = LetterR -> 13
      [] letter = LetterT -> 9
      [] letter \in {Quote, Backslash, Slash} -> letter
      [] OTHER -> 0

(* The second pass: a byte or an escape at a time. *)
Decode ==
    /\ phase = "decode" /\ pos < end
    /\ LET u == Utf16(pos)
           one == Escape(text[pos + 1])
       IN  IF text[pos] # Backslash
           THEN output' = Append(output, text[pos]) /\ pos' = pos + 1 /\ UNCHANGED phase
           ELSE IF text[pos + 1] = LetterU
           THEN IF u.length = 0 THEN phase' = "failed" /\ UNCHANGED <<pos, output>>
                ELSE output' = output \o u.bytes /\ pos' = pos + u.length /\ UNCHANGED phase
           ELSE IF one = 0 THEN phase' = "failed" /\ UNCHANGED <<pos, output>>
           ELSE output' = Append(output, one) /\ pos' = pos + 2 /\ UNCHANGED phase
    /\ UNCHANGED <<text, end, skipped, room>>

Parsed ==
    /\ phase = "decode" /\ pos >= end
    /\ phase' = "parsed"
    /\ UNCHANGED <<text, pos, end, skipped, room, output>>

ParseStep == \/ FirstByte \/ Scan \/ Unclosed
             \/ \E succeeds \in BOOLEAN : Allocate(succeeds)
             \/ Decode \/ Parsed
=============================================================================
