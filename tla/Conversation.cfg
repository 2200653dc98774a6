\* Every kind of query, value, condition and result; results of at most two elements.
SPECIFICATION ConversationSpec
CONSTANTS
    Null = Null
    Queries <- MCQueries
    StoredSchemas <- MCStoredSchemas
    StoredNodes <- MCStoredNodes
    StoredLinks <- MCStoredLinks
    MaxFound = 2
INVARIANTS QueryArrives MessagesSurvive ResultShown EndsOnlyOnBlank
