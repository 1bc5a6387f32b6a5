CONSTANTS
    Parsers = {"strings"}
    Base = 3
    MaxInt64 <- Ternary127
    MinInt64Abs <- Ternary128
    MaxUint64 <- Ternary255
    MaxDigits = 7
    Symbols <- TextSymbols
    Spellings <- AllSpellings
    MaxPieces = 1
    Writers = {"strip"}
    KeyChars <- PlainChars
    KeySize = 2
    MaxKeys = 2
    Commas <- Separators
    Blanks <- Margins
    Batches <- AllBatches
    CutBatches <- TornBatches
    MaxOutput = 2
    MaxInt = 15
    LengthBase = 4
SPECIFICATION ParserSpec
INVARIANT
    AnswerReadsBack
CHECK_DEADLOCK FALSE
