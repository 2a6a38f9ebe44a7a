SPECIFICATION FairSpec
CONSTANTS
    phone1 = phone1
    phone2 = phone2
    ann = ann
    bob = bob
    eve = eve
    Nobody = Nobody
    Devices = {phone1, phone2}
    Users = {ann, bob}
    Accounts <- OwnPhones
    Cards <- OwnCards
    MaxSwipes = 2
INVARIANTS
    TypeOK
    MatchMeansBothLiked
    NoMissedMatch
PROPERTIES
    MutualLikeIsTold
