\* Two openers of two projects, one of them under two names, a list of two entries that
\* duplicates of racing openers fill, and a hard delete in its two steps.
SPECIFICATION Spec
CONSTANTS
    p = p
    q = q
    P1 = P1
    P2 = P2
    Q1 = Q1
    Openers = {c1, c2}
    Names = {P1, P2, Q1}
    Projects = {p, q}
    KeyOf <- MCKeyOf
    Capacity = 2
    Lingering = 0
    MaxDeletes = 1
    None = None
    Empty = Empty
    Garbage = Garbage
SYMMETRY Symmetry
INVARIANTS HeldThreadIsLive CacheShape
