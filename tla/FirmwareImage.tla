---------------------------- MODULE FirmwareImage ----------------------------
(* What src/tools/make_boot_descriptor.py makes of a linked image, and that    *)
(* locateAppDescriptor() finds it.  Files and images are sequences of the      *)
(* words ImageLocator reads.                                                   *)
EXTENDS ImageLocator, Sequences

CONSTANTS
    Part,           \* less than a word, at the end of a file
    PartAndFF,      \* that, filled up with FF
    Versions,       \* the fourth word, reserved bytes all FF
    SizeWord(_),    \* the third word with a size in bytes
    Files           \* linked images, as sequences of words

\* AppDescriptor.empty and AppDescriptor.valid of the words from o on.
IsDescriptor(file, o) ==
    /\ file[o] = Signature
    /\ file[o + 3] = Versions
    /\ \/ file[o + 1] = Zero /\ ImageSize(file[o + 2]) = 0
       \/ file[o + 1] # Zero /\ ImageSize(file[o + 2]) > 0

\* app_descriptor_offset: the first one, searched up to the last but one place.
DescriptorAt(file) ==
    CHOOSE o \in 1 .. Len(file) - 4 :
        /\ IsDescriptor(file, o)
        /\ \A p \in 1 .. o - 1 : ~IsDescriptor(file, p)

\* The last word is filled up with FF.
Padded(file) ==
    [n \in DOMAIN file |-> IF file[n] = Part THEN PartAndFF ELSE file[n]]

\* Mutation: the CRC before the size is known.
WriteCrcFirst(file) ==
    LET o       == DescriptorAt(file)
        content == [Padded(file) EXCEPT ![o + 1] = Zero]
    IN  [content EXCEPT ![o + 1] = Crc([a \in 0 .. Len(file) - 1 |-> content[a + 1]]),
                        ![o + 2] = SizeWord(8 * Len(file))]

\* write_descriptor(): the size, zero for the CRC, then the CRC of that.
WriteDescriptor(file) ==
    LET o       == DescriptorAt(file)
        content == [Padded(file) EXCEPT ![o + 1] = Zero,
                                        ![o + 2] = SizeWord(8 * Len(file))]
    IN  [content EXCEPT ![o + 1] = Crc([a \in 0 .. Len(file) - 1 |-> content[a + 1]])]

-----------------------------------------------------------------------------
Images == {WriteDescriptor(f) : f \in Files}

\* The storage begins with an image, whole and of an allowed size.
Holds(m) ==
    /\ Len(m) <= StorageSize /\ Len(m) <= MaxImageSize
    /\ \A a \in 1 .. Len(m) : storage[a - 1] = m[a]

\* The search ends.  It finds the descriptor the script wrote if the whole
\* image is there, whatever follows it, and nothing if the download was cut
\* short, over whatever remains, or the image does not fit.
ImageIsJudged ==
    /\ \A m \in Images : Holds(m) => <>(pc = "found" /\ offset = DescriptorAt(m) - 1)
    /\ (\A m \in Images : ~Holds(m)) => <>(pc = "none")
=============================================================================
