SPECIFICATION Spec
CONSTANTS
    Count = 3
    Blanks <- SecondBlank
INVARIANTS
    TypeOK
    PhotoOfBar
    BarOfPage
