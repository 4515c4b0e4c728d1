SPECIFICATION RowsSpec
CONSTANTS
    Columns <- MCColumns
    Named = {}
    Sheets <- MCSheets
    Codes <- MCCodes
    Calculation <- MCCalculation
INVARIANTS
    DefaultsCoverOffsets
CHECK_DEADLOCK FALSE
