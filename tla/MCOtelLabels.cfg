\* A two-label gauge whose label values have one or two characters, taken
\* With once per Add; no chained With calls, which the deep run covers.
CONSTANTS
    v1 = v1
    v2 = v2
    Values <- MCValues
    ArgLists <- MCArgLists
    MaxWith = 1
    MaxDepth = 1
    Chars = {"a", "b"}
    StrLens = {1, 2}
    MaxAdds = 2
    MaxRecords = 0

SPECIFICATION Spec

CHECK_DEADLOCK FALSE

INVARIANT SeriesPerLabelList
