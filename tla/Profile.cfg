SPECIFICATION Spec
CONSTANTS
    ann = ann
    bob = bob
    eighteen = eighteen
    thirty = thirty
    al = al
    Nobody = Nobody
    None = None
    Missing = Missing
    Blank = Blank
    Texts = {al}
    Ages = {eighteen}
    Youngest = eighteen
    Users = {ann}
    Typed = {"proffession"}
    Picked = {"imageUrl2"}
    MaxPhotos = 2
    MaxWrites = 2
    MaxGets = 2
INVARIANTS
    TypeOK
    PhotosAreUploaded
    CardNeverEmpty

    
