CONSTANTS
    Parsers = {"argument"}
    Base = 3
    MaxInt64 <- Ternary127
    MinInt64Abs <- Ternary128
    MaxUint64 <- Ternary255
    MaxDigits = 7
    Symbols <- TextSymbols
    Spellings <- AllSpellings
    MaxPieces = 3
    Writers = {"clean"}
    KeyChars <- CharsWithBackslash
    KeySize = 2
    MaxKeys = 2
    Commas <- Separators
    Blanks <- Margins
    Batches <- AllBatches
    CutBatches <- TornBatches
    MaxOutput = 2
    MaxInt = 15
    LengthBase = 4
SPECIFICATION ParserSpec
INVARIANT
    KeysAreAsNamed
CHECK_DEADLOCK FALSE
