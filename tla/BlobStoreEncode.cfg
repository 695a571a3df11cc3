CONSTANTS
    Flows = {stream, encode}
    Encodes = {encode}
    Blobs = {p, b1, b2, b3}
    NoBlob = NoBlob
    Placeholders = {p}
    Batch = 2
    Grace = 1
    MaxCrashes = 1
SPECIFICATION Spec
INVARIANTS
    EncodeKeepsResult
SYMMETRY MCSymmetry
