SPECIFICATION StoreSpec
CONSTANTS
    Saver = {s1, s2}
    Inode = {i1, i2, i3}
    None = None
    Empty = Empty
    Torn = Torn
    MaxRuns = 2
SYMMETRY Symmetry
INVARIANTS
    SavedAtomically
