\* Conditions of up to three terms, patterns of one link; floats of three digits.
SPECIFICATION QuerySpec
CONSTANTS
    PtrSize = 8
    Mantissa = 3
    DT_FLOATING = 2
    MaxTerms = 3
    NoSchema = NoSchema
    Schemas <- SomeSchemas
    Values <- SomeValues
    Terms <- SomeTerms
    Preds <- SomePreds
    PropertyLists <- SomePropertyLists
    LinkSchema <- FirstSchema
    LinkValues <- Small
    LinkQueries <- SomeLinkQueries
    Links <- SomeLinks
    Seconds <- SomeSeconds
INVARIANTS NothingElseFound NothingMissed PairExact ValuesAsWritten LinksNotMissed LinksExact
CHECK_DEADLOCK FALSE
