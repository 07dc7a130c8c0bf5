SPECIFICATION ImportSpec
CONSTANTS
    u1 = u1  u2 = u2  u3 = u3  here = here
    executor = executor  search = search
    Url <- MCUrl
    LocalId <- MCLocalId
    World <- MCWorld
    Importer <- MCImporter
    DepthMax = 2
    None = None
SYMMETRY MCSymmetry
INVARIANTS ImportTypeOK ParentsTrue ThreadImported
