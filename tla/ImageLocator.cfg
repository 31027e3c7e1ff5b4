\* Storage of 13 words, a buffer of 3: the CRC field is reached in one chunk
\* and in two.  Sizes up to 14 words are allowed, more than the storage has,
\* as in main.cpp; the longest image has 15.
SPECIFICATION Spec
CONSTANTS
    StorageSize = 13
    MaxImageSize = 14
    BufferSize = 3
    Signature <- MCSignature
    Zero <- MCZero
    Part <- MCPart
    PartAndFF <- MCPartAndFF
    Versions <- MCVersions
    SizeWord <- MCSizeWord
    Crc <- MCCrc
    ImageSize <- MCImageSize
    Files <- MCFiles
    Storages <- MCStorages
    Words <- MCWords
INVARIANTS
    FirstIntactIsFound
PROPERTIES
    ImageIsJudged
CHECK_DEADLOCK FALSE
