CONSTANTS
    MaxHeader = 22
    MaxBody = 2
    HttpTexts <- MCHttpTexts
    Cuts <- MCCuts
    ParamLists <- MCParamLists
    FieldLists <- MCFieldLists
    WordLists <- MCWordLists
    IdTables <- MCIdTables
    IdConds <- MCIdConds
    Requests <- MCRequests
    Whole <- MCWhole
    Loose <- MCLoose
    Koreans <- MCKoreans
    Files <- MCFiles
    LikeTexts <- MCLikeTexts
    LikePatterns <- MCLikePatterns
    Schema <- MCSchema
    Conditionals <- MCConditionals
    Cells <- MCCells
    SetTexts <- MCSetTexts
    InsertLists <- MCInsertLists
    Orders <- MCOrders
SPECIFICATION Spec
INVARIANTS
    RequestWhole
    RouterReads
    SplitAgrees
    AdminInsertExact
    WhereKept
    FormatRoundTrip
    CsvRoundTrip
    LikeExact
    WhereExact
    WritesByName
    OrderExact
    RoutesAgree
