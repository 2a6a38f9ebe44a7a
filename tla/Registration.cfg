SPECIFICATION FairSpec
CONSTANTS
    ann = ann
    bob = bob
    Users = {ann, bob}
    Nobody = Nobody
    MaxTries = 2
    MaxSignIns = 1
INVARIANTS
    TypeOK
    ButtonMatchesForm
    ProfileForNewAccount
    UnownedAlive
    HudMeansSignIn
PROPERTIES
    RegistrationEnds
    LoginEnds
