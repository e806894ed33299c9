\* Label lists chained three deep on one instrument, then derived twice:
\* the third With leaves spare capacity that the next two share.
CONSTANTS
    v1 = v1
    v2 = v2
    Values <- MCValues
    ArgLists <- MCArgLists
    MaxWith = 5
    MaxDepth = 3
    Chars = {"a", "b"}
    StrLens = {1}
    MaxAdds = 2
    MaxRecords = 2

SPECIFICATION Spec

CHECK_DEADLOCK FALSE

INVARIANT RecordedAsIntended
