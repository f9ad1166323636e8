------------------------------- MODULE Minify -------------------------------
(***************************************************************************)
(* cJSON_Minify, cJSON.c:2438-2506: blanks and comments are removed from a *)
(* text in place.  `json' reads, `into' writes; one step is one turn of    *)
(* one of the loops.                                                       *)
(***************************************************************************)
EXTENDS Naturals, Sequences

VARIABLES
    text,       \* the text, its terminator included
    json, into, \* the offsets that are read and written next
    loop        \* the loop that is running, "done", or "outside" once the
                \* terminator was passed

minifyVars == <<json, into, loop>>

Byte == text[json]
Next1 == text[json + 1]

Inside == json =< Len(text)

(* Mutant: the byte after a backslash is looked at. *)
CopiedOne(byte) == 1

(* A backslash takes the byte after it along. *)
CopiedAtOnce(byte) == IF byte = 92 THEN 2 ELSE 1

(* n bytes are copied, one after the other. *)
CopyBytes(n) ==
    /\ text' = [i \in DOMAIN text |-> IF i \in into..into + n - 1
                                      THEN text[json + i - into] ELSE text[i]]
    /\ into' = into + n
    /\ json' = json + n

Skip(n) == json' = json + n /\ UNCHANGED <<text, into>>

Blank ==
    /\ loop = "text" /\ Inside /\ Byte \in {32, 9, 13, 10}
    /\ Skip(1) /\ UNCHANGED loop

(* A slash and what follows choose the loop; nothing is skipped yet. *)
CommentStart ==
    /\ loop = "text" /\ Inside /\ Byte = 47 /\ Next1 \in {47, 42}
    /\ loop' = IF Next1 = 47 THEN "line" ELSE "block"
    /\ UNCHANGED <<text, json, into>>

LineComment ==
    /\ loop = "line" /\ Inside
    /\ IF Byte \notin {0, 10} THEN Skip(1) /\ UNCHANGED loop
       ELSE loop' = "text" /\ UNCHANGED <<text, json, into>>

(* json += 2 also at the end of the text. *)
BlockComment ==
    /\ loop = "block" /\ Inside
    /\ IF Byte # 0 /\ ~(Byte = 42 /\ Next1 = 47) THEN Skip(1) /\ UNCHANGED loop
       ELSE Skip(2) /\ loop' = "text"

StringStart ==
    /\ loop = "text" /\ Inside /\ Byte = 34
    /\ CopyBytes(1)
    /\ loop' = "string"

StringByte ==
    /\ loop = "string" /\ Inside /\ Byte \notin {0, 34}
    /\ CopyBytes(CopiedAtOnce(Byte))
    /\ UNCHANGED loop

(* The byte that ended the string is copied, the terminator too. *)
StringEnd ==
    /\ loop = "string" /\ Inside /\ Byte \in {0, 34}
    /\ CopyBytes(1)
    /\ loop' = "text"

OtherByte ==
    /\ loop = "text" /\ Inside /\ Byte \notin {0, 32, 9, 13, 10, 34}
    /\ ~(Byte = 47 /\ Next1 \in {47, 42})
    /\ CopyBytes(1)
    /\ UNCHANGED loop

Terminate ==
    /\ loop = "text" /\ Inside /\ Byte = 0
    /\ text' = [text EXCEPT ![into] = 0]
    /\ loop' = "done"
    /\ UNCHANGED <<json, into>>

(* What comes after the terminator is not the caller's text. *)
RunOver ==
    /\ loop \notin {"done", "outside", "idle"} /\ ~Inside
    /\ loop' = "outside"
    /\ UNCHANGED <<text, json, into>>

MinifyStep == \/ Blank \/ CommentStart \/ LineComment \/ BlockComment
              \/ StringStart \/ StringByte \/ StringEnd \/ OtherByte
              \/ Terminate \/ RunOver
=============================================================================
