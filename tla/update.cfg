SPECIFICATION UpdateSpec
CONSTANTS
    imageA = imageA
    imageB = imageB
    Images <- MCImages
    NoImage = NoImage
    Chunks = 2
    MaxUploads = 3
    MaxResets = 2
INVARIANTS
    TypeOK
    NoLeftover
PROPERTIES
    ReceivedIsKept
    BootEnds
