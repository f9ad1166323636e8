------------------------------ MODULE MCParser ------------------------------
(***************************************************************************)
(* Instances of Parser: every short text over an alphabet, and the texts   *)
(* near a long one: cut off anywhere, or with any one byte exchanged.      *)
(***************************************************************************)
EXTENDS ParserGrammar

CONSTANTS
    Alphabet,       \* what every text of up to MaxLength bytes is made of
    MaxLength

Terminated(S) == {Append(s, "nul") : s \in S}

AllTexts ==
    {<<>>} \cup Terminated(UNION {[1 .. n -> Alphabet] : n \in 0 .. MaxLength})

(* {"letter":[digit,{"":true}],"":"\letter"} *)
Members ==
    <<"lbrace", "quote", "letter", "quote", "colon", "lbracket", "digit", "comma",
      "lbrace", "quote", "quote", "colon", "t", "t", "rbrace", "rbracket", "comma",
      "quote", "quote", "colon", "quote", "escape", "letter", "quote", "rbrace">>

(* [[], -digit digit digit, {}], after a byte order mark and a blank *)
Elements ==
    <<"bom", "blank", "lbracket", "lbracket", "rbracket", "comma",
      "minus", "digit", "digit", "digit", "comma", "blank", "lbrace", "rbrace", "rbracket", "blank">>

AnyByte == Byte \ {"nul"}

Near(s) ==
    {SubSeq(s, 1, n) : n \in 0 .. Len(s)} \cup
    {[s EXCEPT ![i] = b] : i \in 1 .. Len(s), b \in AnyByte}

NearTexts == {<<>>} \cup Terminated(Near(Members) \cup Near(Elements))

SmallTexts == AllTexts \cup NearTexts
=============================================================================
