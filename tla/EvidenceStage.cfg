\* Documents scanned, ingested and scored over a growing list of items.
SPECIFICATION Spec
CONSTANTS
    gPara = gPara
    gSpan = gSpan
    gTable = gTable
    gCell = gCell
    None = None
    Paragraphs <- MCParagraphs
    Rows <- MCRows
    Grids = {0, 2}
    MaxSize = 3
    MaxLong = 5
    Texts <- MCTexts
    Corpus <- MCCorpus
    Chunks <- MCChunks
    Source <- MCSource
    LostChunks = {2}
    Attributed <- MCAttributed
    Golds <- MCGolds
    Locator <- MCLocator
    Quoted <- MCQuoted
    UniqueQuotes <- MCUnique
    MaxItems = 3
INVARIANTS
    TopologyIsATiling
    CaptionIsAdjacent
    
    MatchedIsHeld
    MissIsReal
PROPERTIES
    MatchedStays
CHECK_DEADLOCK FALSE
