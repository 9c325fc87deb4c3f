\* Two threads; two keys that come and go, in the first leaf of the tree, and
\* one in the second leaf that stays.
CONSTANTS
    Threads = {t1, t2}
    Children = 2
    Entries = 2
    Depth = 2
    Reserved = {2, 3, 4, 5, 6, 7}
    Used = {0, 1, 2}
    Data = data
    NULL = NULL
SYMMETRY Symmetry
SPECIFICATION Spec
CONSTRAINT FaultsAlone
INVARIANTS KeysAccountedFor GetsWhatItSet
PROPERTIES FirstLeafDestructorsRun
\* A fault of the allocator ends the process.
CHECK_DEADLOCK FALSE
