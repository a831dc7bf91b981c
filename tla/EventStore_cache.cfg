\* Group cache counters, rows and headers: two services sharing one group,
\* a header name and a flag bit, with disk failures and undefined rollbacks
\* of the journal-less deletes.
CONSTANTS
    s1 = s1  s2 = s2  g1 = g1  g2 = g2  tok = tok  c1 = c1  v1 = v1
    NoGroup = NoGroup
    NoValue = NoValue
    Contacts <- OneContact
    ContactValues <- OneValue
    Unset = Unset
    Services <- TwoServices
    Groups <- OneGroup
    HeaderNames <- TokenHeader
    FlagValues = {1}
    MaxRowid = 2
    MaxCount = 2
    DiskMayFail = TRUE
SPECIFICATION Spec
SYMMETRY Symmetry
VIEW StoreView
INVARIANTS TypeOK GroupCacheRowUnique RemoteRowPerPair
PROPERTIES GroupInfoNeverUndercounts
