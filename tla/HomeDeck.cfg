SPECIFICATION Spec
CONSTANTS
    ann = ann
    bob = bob
    eve = eve
    Nobody = Nobody
    Users = {ann, bob, eve}
    Feeds <- SomeFeeds
    MaxFetches = 4
    MayFail = TRUE
INVARIANTS
    TypeOK
    DeckIsLinked
    ProfileBeforeTouch
    OwnCardHidden
