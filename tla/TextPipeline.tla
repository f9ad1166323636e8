---------------------------- MODULE TextPipeline ----------------------------
(***************************************************************************)
(* One text on its way through the library: print_string_ptr writes it,     *)
(* cJSON_Minify strips it in place and parse_string reads it; or one of the *)
(* last two is given a text of its own.                                     *)
(***************************************************************************)
EXTENDS StringCodec

CONSTANTS
    Strings,    \* the byte strings to print and read back
    Paddings,   \* what may stand before and after a printed string
    Texts,      \* the texts to minify
    Literals    \* the texts to parse, as they are in the buffer

ASSUME TextsAreBytes == Strings \cup Paddings \cup Texts \cup Literals \subseteq Seq(0..255)
(* parse_value and parse_object call parse_string at a byte of the text. *)
ASSUME LiteralsHaveBytes == <<>> \notin Literals

VARIABLES
    json, into, loop,   \* of Minify
    given               \* the task, and the string or the text it began with

allVars == <<text, phase, codecVars, json, into, loop, given>>

M == INSTANCE Minify

(* The string as a C string: up to the terminator, which comes back as one  *)
(* of the text.                                                             *)
Printed(bytes) == SubSeq(PrintString(bytes), 1, Len(PrintString(bytes)) - 1)

Begin(task, content, buffer) ==
    /\ given = [task |-> task, content |-> content]
    /\ text = buffer
    /\ phase = IF task = "parse" THEN "begin" ELSE "minify"
    /\ loop = IF task = "parse" THEN "idle" ELSE "text"

PipelineInit ==
    /\ \/ \E bytes \in Strings, before \in Paddings, after \in Paddings :
             Begin("roundtrip", bytes, before \o Printed(bytes) \o after \o <<Nul>>)
       \/ \E t \in Texts : Begin("minify", t, t \o <<Nul>>)
       \/ \E t \in Literals : Begin("parse", t, t)
    /\ json = 1 /\ into = 1
    /\ pos = 1 /\ end = 1 /\ skipped = 0 /\ room = 0 /\ output = <<>>

Minifying ==
    /\ phase = "minify" /\ M!MinifyStep
    /\ UNCHANGED <<phase, codecVars, given>>

(* The program hands what cJSON_Minify left to cJSON_Parse, which counts    *)
(* the bytes up to the terminator.                                          *)
Parse ==
    /\ phase = "minify" /\ loop = "done" /\ given.task = "roundtrip"
    /\ text' = SubSeq(text, 1, into)
    /\ phase' = "begin"
    /\ UNCHANGED <<codecVars, json, into, loop, given>>

Parsing == ParseStep /\ UNCHANGED <<json, into, loop, given>>

PipelineNext == Minifying \/ Parse \/ Parsing

PipelineSpec == PipelineInit /\ [][PipelineNext]_allVars

-----------------------------------------------------------------------------
(* What cJSON_Minify writes never overtakes what it reads: as long as it     *)
(* runs, the bytes ahead of the reader are those of the text it was given   *)
(* (cJSON.c:2438, where `json' and `into' walk through one buffer).         *)
MinifiedInPlace ==
    /\ phase = "minify" => into =< json
    /\ given.task = "minify" =>
          LET original == Append(given.content, Nul)
          IN  /\ Len(text) = Len(original)
              /\ \A i \in json..Len(text) : text[i] = original[i]

(* The estimate made by the first pass leaves room for all that the second  *)
(* writes, the terminator included, whatever the text (cJSON.c:690, 714).   *)
OutputFits == phase \in {"decode", "parsed"} => Len(output) < room

(* The second pass stays in the string that the first one measured; an      *)
(* escaped byte at its end may be the closing quote (cJSON.c:722-777).      *)
DecodesInside == phase = "decode" => end =< Len(text) /\ pos =< end + 1
=============================================================================
