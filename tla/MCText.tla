------------------------------- MODULE MCText -------------------------------
(***************************************************************************)
(* Strings of up to three bytes, texts of up to five, literals of up to     *)
(* three pieces.                                                            *)
(***************************************************************************)
EXTENDS TextMeaning

UpTo(set, n) == BoundedSeq(set, n)

(* Control bytes with and without a letter of their own, what is escaped,   *)
(* what begins a comment, ordinary bytes and a byte of UTF-8.               *)
SmallStrings == UpTo({1, 8, 10, 31, 32, 34, 42, 47, 92, 117, 200}, 3)

(* Nothing; a blank and a comment that has a quote and a backslash in it.   *)
SmallPaddings == {<<>>, <<9, 47, 42, 34, 92, 42, 42, 47>>}

(* Quote, backslash, slash, star, blank, newline and x. *)
SmallTexts == UpTo({34, 92, 47, 42, 32, 10, 120}, 5)

U(digits) == <<Backslash, LetterU>> \o digits

(* 0000 007F 0080 07FF 0800 D7FF D800 DBFF DC00 DFFF e000 FFFF *)
CodePoints == {
    <<48, 48, 48, 48>>, <<48, 48, 55, 70>>, <<48, 48, 56, 48>>, <<48, 55, 70, 70>>,
    <<48, 56, 48, 48>>, <<68, 55, 70, 70>>, <<68, 56, 48, 48>>, <<68, 66, 70, 70>>,
    <<68, 67, 48, 48>>, <<68, 70, 70, 70>>, <<101, 48, 48, 48>>, <<70, 70, 70, 70>>}

(* Two digits, a letter that is none, and a backslash among the digits. *)
BadDigits == {<<49, 50>>, <<48, 48, 71, 48>>, <<48, 48, 48, Backslash>>}

Pieces ==
    {<<120>>, <<31>>, <<200>>, <<Backslash, Backslash>>, <<Backslash, Quote>>,
     <<Backslash, LetterN>>, <<Backslash, 113>>, <<Backslash>>}
    \cup {U(d) : d \in CodePoints \cup BadDigits}

(* The quote, the pieces, the closing quote or none, the terminator or none. *)
SmallLiterals ==
    {<<Quote>> \o FlattenSeq(pieces) \o last
       : pieces \in UpTo(Pieces, 2), last \in {<<Quote, Nul>>, <<Nul>>, <<>>}}
    \cup {<<Quote>> \o FlattenSeq(pieces) \o <<Quote>> : pieces \in UpTo(Pieces, 3)}
    \cup {<<120, Nul>>}
=============================================================================
