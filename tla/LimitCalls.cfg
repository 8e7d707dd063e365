SPECIFICATION FairSpec
CONSTANTS
    None = None
    Calls = {c1, c2}
    Offers <- SomeOffers
    c1 = c1
    c2 = c2
    windowSize = 2
    maxRequests <- Places
    maxWaitTime <- ShortSecondary
INVARIANTS WindowBound OutcomeMatches RefusedWhenOvertaken
PROPERTY CallsEnd
