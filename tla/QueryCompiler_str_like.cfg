\* One query object driven through every call of the query API, with a
\* substring match (STR_LIKE) among the triples the grammar admits: the
\* cursor of a prepare given STR_LIKE, refreshed, must still hold what the
\* spec selects.
CONSTANTS
    NULL = NULL
    Null <- NULL
    Events <- LowerCaseEvents
    Requests <- LikeTriples
    MaxPreds = 2
    Limits <- LimitValues
    Offsets <- OffsetValues
SPECIFICATION Spec
INVARIANT CursorAnswersRequest
