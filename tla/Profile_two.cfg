SPECIFICATION Spec
CONSTANTS
    ann = ann
    bob = bob
    eighteen = eighteen
    thirty = thirty
    al = al
    Nobody = Nobody
    None = None
    Missing = Missing
    Blank = Blank
    Texts = {al}
    Ages = {eighteen, thirty}
    Youngest = eighteen
    Users = {ann, bob}
    Typed = {}
    Picked = {}
    MaxPhotos = 2
    MaxWrites = 2
    MaxGets = 1
INVARIANTS
    HomeIsCurrent
