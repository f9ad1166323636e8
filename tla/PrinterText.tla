---------------------------- MODULE PrinterText ----------------------------
(***************************************************************************)
(* The text of a tree, by recursion on the tree, and what a call of the    *)
(* printer promises about it.                                              *)
(***************************************************************************)
EXTENDS Printer

Text(i) == [n \in 1 .. Len(i) - 1 |-> i[n]]        \* without the terminator

RECURSIVE Json(_, _), Listed(_, _, _)

(* The kids of a list from the n-th on, `deep' levels down. *)
Listed(kind, kids, deep) ==
    IF kids = <<>> THEN <<>>
    ELSE LET kid == Head(kids)
             last == Tail(kids) = <<>>
             comma == IF last THEN <<>> ELSE <<"comma">>
         IN  (IF kind = "array"
              THEN Json(kid, deep) \o (IF last THEN <<>> ELSE Spaced(comma, "blank"))
              ELSE (IF format THEN Times(deep, "tab") ELSE <<>>)
                   \o Text(Quoted(kid.name)) \o Spaced(<<"colon">>, "tab")
                   \o Json(kid, deep) \o Spaced(comma, "newline"))
             \o Listed(kind, Tail(kids), deep)

Json(i, deep) ==
    CASE i.kind \in Scalar  -> Text(ScalarText(i))
      [] i.kind = "array"   -> <<"lbracket">> \o Listed("array", i.kids, deep + 1) \o <<"rbracket">>
      [] i.kind = "object"  -> Spaced(<<"lbrace">>, "newline") \o Listed("object", i.kids, deep + 1)
                               \o (IF format THEN Times(deep, "tab") ELSE <<>>) \o <<"rbrace">>

RECURSIVE Printable(_)
Printable(i) ==
    /\ i.kind \in Scalar \cup {"array", "object"}
    /\ \A n \in DOMAIN i.kids : Printable(i.kids[n])

(* The result is the text, terminated, whatever the buffer went through; so *)
(* a buffer without room for the terminator is refused (test.c:92).         *)
ResultIsText ==
    pc = "returned" =>
        /\ Printable(root)
        /\ LET text == Append(Json(root, 0), "nul")
           IN  /\ Len(text) =< Len(memory[result])
               /\ SubSeq(memory[result], 1, Len(text)) = text

(* cJSON.h:152: it is safe to give a call five bytes more than it needs.    *)
(* In truth one is enough; the same goes for INT_MAX, the most that a       *)
(* buffer can have.                                                         *)
Enough ==
    pc = "failed" /\ Printable(root) /\ ~starved =>
        Len(Json(root, 0)) + 2 > IF Noalloc THEN size ELSE IntMax
=============================================================================
