SPECIFICATION FairSpec
CONSTANTS
    g1 = g1
    a1 = a1
    h = h
    w = w
    Parameter = {1, 2, 4}
    Id <- MCId
    One = 100
    Grains = {1, 10}
    IndexUp = {}
    PlacesUp <- MCPlacesUp
    Generation = {g1}
    Acceptance = {a1}
    Named = {1, 2}
    Override = {{}, {1}}
    RuleLimit <- MCLimits
    Count = {0, 2, 5}
    Response <- MCResponse
    Envelope <- MCEnvelope
    MaxRetries = 2
    MaxEditions = 2
INVARIANTS
    OfferFits
    ConservativeSatisfies
    StoredFits
    StoredAsOffered
PROPERTY
    Answered
