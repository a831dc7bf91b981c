\* Spec 8's GroupCache invariant on one service and one group, with three
\* rowids so that a repair over two remaining events can happen.
CONSTANTS
    s1 = s1  s2 = s2  g1 = g1  g2 = g2  tok = tok  c1 = c1  v1 = v1
    NoGroup = NoGroup
    NoValue = NoValue
    Contacts = {}
    ContactValues = {}
    Unset = Unset
    Services <- OneService
    Groups <- OneGroup
    HeaderNames = {}
    FlagValues = {1}
    MaxRowid = 3
    MaxCount = 3
    DiskMayFail = FALSE
SPECIFICATION Spec
SYMMETRY Symmetry
INVARIANT CacheMatchesEvents
