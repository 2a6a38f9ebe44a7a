SPECIFICATION Spec
CONSTANTS
    ann = ann
    bob = bob
    eve = eve
    Nobody = Nobody
    Users = {ann, bob, eve}
    Feeds <- SomeFeeds
    MaxFetches = 3
    MayFail = FALSE
INVARIANTS
    SwipeSavesCardSeen
