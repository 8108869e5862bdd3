\* Two files of up to two characters, and one block more than is ever alive.
CONSTANTS
    Paths = {p1, p2}
    Contents <- ShortFiles
    MaxLength = 2
    Missing = Missing
    Blocks = {b1, b2}
    None = None
SPECIFICATION Spec
INVARIANTS
    TypeOK
    OwnsItsMemory
    ReturnedTextStays
PROPERTY KeepsTextStore
