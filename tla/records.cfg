\* Decimals of up to three digits, copybooks of up to four of twelve lines, and
\* up to two rows through a file.
SPECIFICATION Spec
CONSTANTS
    upperA = upperA
    nameA = nameA
    nameB = nameB
    nameC = nameC
    odd = odd
    None = None
    Filler = Filler
    Odd = {odd}
    Blank <- SomeBlanks
    Lines <- SomeLines
    Lower <- LowerCase
    MaxLines = 4
    Fields <- ThreeFields
    Padded = 2
    Rows <- SomeRows
    Bytes <- SomeBytes
    MaxRows = 2
    SomeDigits = {0, 1, 9}
    SomeNibbles = {0, 1, 5, 9, 10, 12, 13, 14, 15}
    MaxDigits = 3
    MaxExponent = 2
INVARIANTS
    PacksWhatFits
    Inverse
    ReadsCopybooks
    FieldsTileRecord
    NothingLost
    ChangeShows
CHECK_DEADLOCK FALSE
