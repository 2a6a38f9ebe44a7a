SPECIFICATION Spec
CONSTANTS
    phone1 = phone1
    phone2 = phone2
    ann = ann
    bob = bob
    eve = eve
    Nobody = Nobody
    Devices = {phone1, phone2}
    Users = {ann, bob, eve}
    Accounts <- SharedPhone
    Cards <- SharedCards
    MaxSwipes = 2
INVARIANTS
    MatchIsReciprocated
    
PROPERTIES
    SwipesNeverErased
