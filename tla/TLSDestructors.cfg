\* One thread, and a key in each of the first two leaves of the tree.
CONSTANTS
    Threads = {t1}
    Children = 2
    Entries = 2
    Depth = 2
    Reserved = {1, 3, 4, 5, 6, 7}
    Used = {0, 2}
    Data = data
    NULL = NULL
SPECIFICATION Spec
PROPERTIES AllDestructorsRun
