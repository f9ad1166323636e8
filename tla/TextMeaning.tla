----------------------------- MODULE TextMeaning -----------------------------
(***************************************************************************)
(* What the functions of TextPipeline must do, by definitions that look at  *)
(* whole comments, strings and escapes.                                     *)
(***************************************************************************)
EXTENDS TextPipeline, TLC

-----------------------------------------------------------------------------
(* Minify: what a reader of the grammar would take out. *)

NotCovered == <<256>>     \* no sequence of bytes

From(s, i) == SubSeq(s, i, Len(s))

(* The first place from i on where t stands, or 0. *)
Find(s, i, t) ==
    LET Places == {j \in i..Len(s) : IsPrefix(t, From(s, j))}
    IN  IF Places = {} THEN 0 ELSE CHOOSE j \in Places : \A k \in Places : j =< k

Joined(s, t) == IF t = NotCovered THEN t ELSE s \o t

(* The closing quote of a string whose bytes begin at i. *)
RECURSIVE Closing(_, _)
Closing(s, i) ==
    IF i > Len(s) THEN 0
    ELSE IF s[i] = Quote THEN i
    ELSE Closing(s, IF s[i] = Backslash THEN i + 2 ELSE i + 1)

RECURSIVE Strip(_)
Strip(s) ==
    IF s = <<>> THEN <<>>
    ELSE IF s[1] \in {32, 9, 13, 10} THEN Strip(Tail(s))
    ELSE IF IsPrefix(<<47, 47>>, s)
    THEN LET eol == Find(s, 3, <<10>>)
         IN  IF eol = 0 THEN <<>> ELSE Strip(From(s, eol + 1))
    ELSE IF IsPrefix(<<47, 42>>, s)
    THEN LET last == Find(s, 3, <<42, 47>>)
         IN  IF last = 0 \/ IsPrefix(<<47, 42, 47>>, s) THEN NotCovered
             ELSE Strip(From(s, last + 2))
    ELSE IF s[1] = Quote
    THEN LET last == Closing(s, 2)
         IN  IF last = 0 THEN NotCovered
             ELSE Joined(SubSeq(s, 1, last), Strip(From(s, last + 1)))
    ELSE Joined(<<s[1]>>, Strip(Tail(s)))

(* What cJSON_Minify writes never overtakes what it reads and stays in the  *)
(* text; in the end the text is the given one without its blanks and        *)
(* comments, strings untouched (cJSON.c:2438).  The last two not for a      *)
(* comment or a string that is not closed, which it runs past the           *)
(* terminator with, nor for one that begins with slash, star, slash: it     *)
(* takes that for closed.                                                   *)
MinifiedRight ==
    given.task = "minify" =>
        LET stripped == Strip(given.content)
        IN  /\ MinifiedInPlace
            /\ stripped # NotCovered =>
                /\ loop # "outside"
                /\ json =< Len(text)
                /\ loop = "done" => SubSeq(text, 1, into) = Append(stripped, Nul)

-----------------------------------------------------------------------------
(* Decoding: RFC 8259, section 7, and RFC 3629, section 3, by arithmetic. *)

Refused == <<256>>        \* no sequences of bytes
BadHex  == <<257>>

Number(s) ==
    LET d == [i \in 1..4 |-> HexDigit(s[i])]
    IN  ((d[1] * 16 + d[2]) * 16 + d[3]) * 16 + d[4]

Encoded(c) ==
    CASE c < 128   -> <<c>>
      [] c < 2048  -> <<192 + c \div 64, 128 + (c % 64)>>
      [] c < 65536 -> <<224 + c \div 4096, 128 + ((c \div 64) % 64), 128 + (c % 64)>>
      [] OTHER     -> <<240 + c \div 262144, 128 + ((c \div 4096) % 64),
                        128 + ((c \div 64) % 64), 128 + (c % 64)>>

(* What \b, \f, \n, \r, \t, \", \\ and \/ stand for. *)
Named == 98 :> 8 @@ 102 :> 12 @@ 110 :> 10 @@ 114 :> 13 @@ 116 :> 9
         @@ 34 :> 34 @@ 92 :> 92 @@ 47 :> 47

(* s begins with \u: are four digits there? *)
FourDigits(s) == Len(s) >= 6 /\ \A i \in 3..6 : HexDigit(s[i]) # 16

RECURSIVE Meaning(_)
Meaning(s) ==
    LET Then(bytes, n) == LET rest == Meaning(From(s, n + 1))
                          IN  IF rest \in {Refused, BadHex} THEN rest ELSE bytes \o rest
        first  == Number(SubSeq(s, 3, 6))
        pair   == From(s, 7)
        second == Number(SubSeq(pair, 3, 6))
    IN  IF s = <<>> THEN Refused
        ELSE IF s[1] = Quote THEN <<>>
        ELSE IF s[1] # Backslash THEN Then(<<s[1]>>, 1)
        ELSE IF Len(s) = 1 THEN Refused
        ELSE IF s[2] \in DOMAIN Named THEN Then(<<Named[s[2]]>>, 2)
        ELSE IF s[2] # LetterU THEN Refused
        ELSE IF ~FourDigits(s) THEN BadHex
        ELSE IF first \notin 55296..57343 THEN Then(Encoded(first), 6)
        ELSE IF first > 56319 \/ ~IsPrefix(<<Backslash, LetterU>>, pair) THEN Refused
        ELSE IF ~FourDigits(pair) THEN BadHex
        ELSE IF second \notin 56320..57343 THEN Refused
        ELSE Then(Encoded(65536 + (first - 55296) * 1024 + (second - 56320)), 12)

(* The closing quote was found, and no block for the output. *)
NoMemory == room = 0 /\ end =< Len(text) /\ text[end] = Quote

(* What the second pass writes has room and what it reads is in the string;  *)
(* a literal is read as the bytes it stands for, or refused when it stands    *)
(* for none: an escape that does not exist, half a surrogate pair, no       *)
(* closing quote.  Not so for \u without four digits, which is read as 0.   *)
DecodedRight ==
    given.task = "parse" =>
        LET meaning == Meaning(Tail(given.content))
        IN  /\ OutputFits /\ DecodesInside
            /\ meaning # BadHex =>
                  /\ phase = "parsed" => output = meaning
                  /\ phase = "failed" => meaning = Refused \/ NoMemory

-----------------------------------------------------------------------------
(* Printed, put between blanks and comments, minified and parsed, a string  *)
(* comes back as it was: print_string_ptr writes as many bytes as it has    *)
(* counted (cJSON.c:847), cJSON_Minify knows where its strings end, and     *)
(* parse_string undoes every escape.                                        *)
RoundTrip ==
    given.task = "roundtrip" =>
        /\ loop # "outside"
        /\ loop = "done" => SubSeq(text, 1, into) = Append(Printed(given.content), Nul)
        /\ phase = "parsed" => output = given.content
        /\ phase = "failed" => NoMemory
=============================================================================
