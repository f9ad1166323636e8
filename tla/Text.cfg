\* Every small string printed and read back, every small text minified, every
\* literal of a few pieces parsed; memory may be missing.
SPECIFICATION PipelineSpec
CONSTANTS
    Strings <- SmallStrings
    Paddings <- SmallPaddings
    Texts <- SmallTexts
    Literals <- SmallLiterals
INVARIANTS MinifiedRight DecodedRight RoundTrip
CHECK_DEADLOCK FALSE
