CONSTANTS
    g1 = g1
    g2 = g2
    p1 = p1
    p2 = p2
    m1 = m1
    m2 = m2
    Nil = Nil
    Groups <- MCGroups
    TPs <- MCTPs
    Members <- MCMembers
    Listings <- MCListings
    Metadatas <- MCMetadatas
    MaxOffset = 1
    MaxTime = 1
    LagStaleAfter = 0
    CommitSkew = 1
    OffsetsHistory = 1
SPECIFICATION ScrapeSpec
INVARIANT ScrapeSeriesAgree

