\* One project, sleep and idle input, settings that change, every request failing or not.
SPECIFICATION FairSpec
CONSTANTS
    Projects = {p1}
    Causes = {"sleep"}
    Choices = {{"sleep", "idle", "prompt"}, {"sleep"}}
    MaxPending = 1
    MaxPrompts = 1
INVARIANTS TypeOK
PROPERTIES OffersComeFromStops OffersAreNotLost TrayCatchesUp OffersReachTheUser
