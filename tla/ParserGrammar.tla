--------------------------- MODULE ParserGrammar ---------------------------
(***************************************************************************)
(* The language that the parser accepts, as a grammar: for every position  *)
(* the set of positions where a value that starts there can end.  Blanks   *)
(* are allowed between tokens, a literal or number is one token, and a     *)
(* list may be nested NestingLimit deep.                                   *)
(***************************************************************************)
EXTENDS Parser

PastBlanks(o) ==
    Least({i \in o .. length - 1 : \A j \in o .. i - 1 : At(j) = "blank"}
          \ {i \in o .. length - 1 : At(i) = "blank"})

(* Where the string ends whose characters start at o.                       *)
RECURSIVE CharacterEnds(_)
CharacterEnds(o) ==
    CASE At(o) = "nul"    -> {}
      [] At(o) = "quote"  -> {o + 1}
      [] At(o) = "escape" -> IF At(o + 1) \in {"quote", "escape", "letter"}
                             THEN CharacterEnds(o + 2) ELSE {}
      [] OTHER            -> CharacterEnds(o + 1)

StringEnds(o) == IF At(o) = "quote" THEN CharacterEnds(o + 1) ELSE {}

LiteralEnds(o) == {e \in {o + 2} : Can(o + 1) /\ At(o) = "t" /\ At(o + 1) = "t"}

(* A minus sign or none, and digits; after NumberLimit bytes a number ends. *)
NumberEnds(o) ==
    LET first == IF At(o) = "minus" THEN o + 1 ELSE o
        Digits(e) == e > first /\ e - o =< NumberLimit
                     /\ \A i \in first .. e - 1 : At(i) = "digit"
    IN  {e \in first + 1 .. length - 1 : Digits(e) /\ ~Digits(e + 1)}

(* Where the rest of a list ends whose next token is at o. *)
RECURSIVE ValueEnds(_, _), ListEnds(_, _, _)
ListEnds(o, kind, deep) ==
    UNION {LET p == PastBlanks(e)
           IN  CASE At(p) = Closer(kind) -> {p + 1}
                 [] At(p) = "comma"          -> ListEnds(PastBlanks(p + 1), kind, deep)
                 [] OTHER                -> {} :
           e \in IF kind = "array" THEN ValueEnds(o, deep)
                 ELSE UNION {ValueEnds(PastBlanks(c + 1), deep) :
                                c \in {c \in {PastBlanks(n) : n \in StringEnds(o)} :
                                          At(c) = "colon"}}}

ValueEnds(o, deep) ==
    LiteralEnds(o) \cup NumberEnds(o) \cup StringEnds(o) \cup
    UNION {LET p == PastBlanks(o + 1)
           IN  IF deep = 0 THEN {}
               ELSE IF At(p) = Closer(kind) THEN {p + 1}
               ELSE ListEnds(p, kind, deep - 1) :
           kind \in {k \in {"array", "object"} :
                        At(o) = IF k = "array" THEN "lbracket" ELSE "lbrace"}}

(* The text starts with a value; when the caller asks, nothing follows it.  *)
InLanguage ==
    /\ text # <<>>
    /\ \E e \in ValueEnds(PastBlanks(SkipBom), NestingLimit) :
          requireNul => At(PastBlanks(e)) = "nul"

(* As long as memory lasts, a text is parsed exactly when it is in the      *)
(* language, and a text that is not never is; return_parse_end is then      *)
(* where the value ends, or the terminator.                                 *)
AcceptsLanguage ==
    /\ pc = "parsed" => InLanguage
    /\ pc = "failed" /\ ~starved => ~InLanguage
    /\ pc = "parsed" /\ wantEnd =>
          IF requireNul THEN parseEnd = length - 1
          ELSE parseEnd \in ValueEnds(PastBlanks(SkipBom), NestingLimit)
=============================================================================
