---------------------------- MODULE ImageLocator ----------------------------
(* Finding an application in the storage: locateAppDescriptor()              *)
(* (src/bootloader/src/bootloader.cpp), and the script that puts the         *)
(* descriptor into a firmware image (src/tools/make_boot_descriptor.py).     *)
(*                                                                           *)
(* The storage is read in words of 8 bytes, the step of the search.  A       *)
(* descriptor is four of them: signature; CRC; size and commit; versions     *)
(* and reserved bytes.  The argument of a CRC is what was added to it, a     *)
(* function on 0 .. n - 1; nothing is assumed of Crc but that it is a        *)
(* function of that.                                                         *)
EXTENDS Integers

CONSTANTS
    Words,          \* what 8 bytes may be
    Signature,      \* the word APDesc00
    Zero,           \* eight zero bytes
    Crc(_),         \* CRC-64-WE of some words, as a word
    ImageSize(_),   \* image_size, in bytes, of the third word of a descriptor
    StorageSize,    \* words in the storage
    MaxImageSize,   \* max_application_image_size_, in words
    BufferSize,     \* rom_buffer_, in words
    Storages        \* what the storage may hold

ASSUME LocatorSizes ==
    /\ StorageSize \in Nat
    /\ MaxImageSize \in Nat
    /\ BufferSize \in Nat \ {0}
ASSUME LocatorStorages == Storages \subseteq [0 .. StorageSize - 1 -> Words]
ASSUME LocatorWords == \A w \in Words : ImageSize(w) \in Nat

WordSize == 8
DescriptorWords == 4

VARIABLES
    storage,    \* its words
    pc,         \* where locateAppDescriptor() is
    offset,     \* of the descriptor looked for, in words
    i,          \* of the next word to be checked
    crc         \* what was added to the CRC so far

vars == <<storage, pc, offset, i, crc>>

Pc == {"search", "head", "field", "tail", "compare", "found", "none"}

\* backend_.read(): the number of words read, cut at the end of the storage.
Read(from, n) ==
    IF from >= StorageSize THEN 0
    ELSE IF from + n > StorageSize THEN StorageSize - from ELSE n

\* AppDescriptor::isValid() on the descriptor at an offset.
IsValid(o) ==
    LET size == ImageSize(storage[o + 2])
    IN  /\ storage[o] = Signature
        /\ size > 0
        /\ size <= MaxImageSize * WordSize
        /\ size % WordSize = 0

\* desc.app_info.image_size of a valid descriptor, in words.
Size(o) == ImageSize(storage[o + 2]) \div WordSize

LeastOf(a, b) == IF a <= b THEN a ELSE b

\* crc.add() of n words that begin at i.
Add(n) == [a \in 0 .. i + n - 1 |-> IF a < i THEN crc[a] ELSE storage[a]]

Empty == [a \in {} |-> Zero]

Init ==
    /\ storage \in Storages
    /\ pc = "search"
    /\ offset = 0
    /\ i = 0
    /\ crc = Empty

-----------------------------------------------------------------------------
\* continue: the next turn of the for loop.
LookFurther ==
    /\ offset' = offset + 1
    /\ pc' = "search"
    /\ i' = 0 /\ crc' = Empty

\* A word with the signature, in front of a whole descriptor that is valid,
\* has its CRC checked.  The end of the storage ends the search.
Search ==
    /\ pc = "search"
    /\ \/ /\ Read(offset, 1) # 1
          /\ pc' = "none" /\ UNCHANGED <<offset, i, crc>>
       \/ /\ Read(offset, 1) = 1
          /\ storage[offset] # Signature
          /\ LookFurther
       \/ /\ Read(offset, 1) = 1
          /\ storage[offset] = Signature
          /\ Read(offset, DescriptorWords) # DescriptorWords
          /\ pc' = "none" /\ UNCHANGED <<offset, i, crc>>
       \/ /\ Read(offset, DescriptorWords) = DescriptorWords
          /\ storage[offset] = Signature
          /\ IF IsValid(offset)
             THEN pc' = "head" /\ i' = 0 /\ crc' = Empty /\ UNCHANGED offset
             ELSE LookFurther
    /\ UNCHANGED storage

\* Large chunks until the CRC field is reached.
AddHead ==
    /\ pc = "head"
    /\ i < offset + 1
    /\ LET res == Read(i, LeastOf(BufferSize, offset + 1 - i))
       IN  i' = i + res /\ crc' = Add(res)
    /\ UNCHANGED <<storage, pc, offset>>

\* Zero in place of the CRC field.
AddZero ==
    /\ pc = "head"
    /\ i >= offset + 1
    /\ crc' = [a \in 0 .. i |-> IF a < i THEN crc[a] ELSE Zero]
    /\ i' = offset + 2
    /\ pc' = "tail"
    /\ UNCHANGED <<storage, offset>>

\* The rest of the image; a read past the storage gives nothing and ends it.
AddTail ==
    /\ pc = "tail"
    /\ IF i < Size(offset) /\ Read(i, 1) > 0
       THEN /\ LET res == Read(i, LeastOf(BufferSize, Size(offset) - i))
               IN  i' = i + res /\ crc' = Add(res)
            /\ UNCHANGED pc
       ELSE pc' = "compare" /\ UNCHANGED <<i, crc>>
    /\ UNCHANGED <<storage, offset>>

\* Mutation: a wrong CRC ends the search.
CompareOnce ==
    /\ pc = "compare"
    /\ pc' = IF Crc(crc) = storage[offset + 1] THEN "found" ELSE "none"
    /\ UNCHANGED <<storage, offset, i, crc>>

\* The descriptor is returned if the CRC is right.
Compare ==
    /\ pc = "compare"
    /\ IF Crc(crc) = storage[offset + 1]
       THEN pc' = "found" /\ UNCHANGED <<offset, i, crc>>
       ELSE LookFurther
    /\ UNCHANGED storage

Next == Search \/ AddHead \/ AddZero \/ AddTail \/ Compare

\* It is a loop of one thread, which nothing blocks.
Spec == Init /\ [][Next]_vars /\ WF_vars(Next)

-----------------------------------------------------------------------------
(* What a storage holds, seen at once.                                       *)

\* The words the CRC of a descriptor is about: the image, and as much as it
\* takes to reach the CRC field, with zero in that field.
Covered(o) ==
    LET inside == LeastOf(Size(o), StorageSize)
    IN  IF inside < o + 2 THEN o + 2 ELSE inside

Contents(o) ==
    [a \in 0 .. Covered(o) - 1 |-> IF a = o + 1 THEN Zero ELSE storage[a]]

\* An application whose descriptor is at an offset.
Intact(o) ==
    /\ IsValid(o)
    /\ Crc(Contents(o)) = storage[o + 1]

Offsets == {o \in 0 .. StorageSize : o + DescriptorWords <= StorageSize}

\* What is returned is the first intact descriptor of the storage, and nothing
\* only if there is none: neither a signature that is only data, nor one with a
\* wrong size or CRC, hides an application behind it, and the reading in
\* chunks computes the CRC of the image.
FirstIntactIsFound ==
    /\ pc = "found" => /\ offset \in Offsets
                       /\ Intact(offset)
                       /\ \A o \in 0 .. offset - 1 : ~Intact(o)
    /\ pc = "none" => \A o \in Offsets : ~Intact(o)
=============================================================================
