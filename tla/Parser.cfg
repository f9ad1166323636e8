\* Two long texts and all that are one byte away; every text of five bytes
\* that lists and literals are made of.  Memory may run out at any time.
\* The call returns, and then nothing happens any more.
SPECIFICATION FairSpec
CONSTANTS
    None = None
    Texts <- SmallTexts
    Alphabet = {"lbracket", "rbracket", "comma", "t", "blank"}
    MaxLength = 5
    NestingLimit = 3
    NumberLimit = 4
INVARIANTS
    TypeOK ReadsInside DepthBounded HeldOnce FailureKeepsNothing ErrorReported
    AcceptsLanguage
PROPERTY Returns
CHECK_DEADLOCK FALSE
