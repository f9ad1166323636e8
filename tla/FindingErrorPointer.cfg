\* cJSON_Parse(NULL)
SPECIFICATION Spec
CONSTANTS
    None = None
    Texts <- SmallTexts
    Alphabet = {"lbracket", "rbracket", "comma", "t", "blank"}
    MaxLength = 1
    NestingLimit = 3
    NumberLimit = 4
INVARIANT ErrorPointerDefined
CHECK_DEADLOCK FALSE
