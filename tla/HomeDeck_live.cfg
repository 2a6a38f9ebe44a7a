SPECIFICATION FairSpec
CONSTANTS
    ann = ann
    bob = bob
    eve = eve
    Nobody = Nobody
    Users = {ann, bob}
    Feeds <- TwoFeeds
    MaxFetches = 3
    MayFail = FALSE
PROPERTIES
    FetchEnds
