\* Two overlapping ticks: a late COMMITTED row re-opens a settled nonce.
CONSTANTS
    n1 = n1
    n2 = n2
    i1 = i1
    i2 = i2
    i3 = i3
    t1 = t1
    t2 = t2
    h1 = h1
    Unknown = Unknown
    NoOffer = NoOffer
    Unseen = Unseen
    Nonces = {n1}
    Incidents = {i1}
    IncidentOf <- TwoOffers
    OfferOf <- Envelopes
    Bytes = {A}
    Penalties = {1}
    Share = 2
    Ticks = {t1, t2}
    Slots = {t1, t2}
    MaxCalls = 8
    MaxCrashes = 0
    Loses = FALSE
    Archives = FALSE
SPECIFICATION PollSpec
CHECK_DEADLOCK FALSE
PROPERTIES
    SettledStays
