------------------------- MODULE ImageLocatorProofs --------------------------
(* FirstIntactIsFound, for every storage, every size of the buffer and every   *)
(* CRC.  The invariant says which offsets were ruled out, and that the CRC     *)
(* so far is the one of the storage up to the next word to be read.            *)
EXTENDS ImageLocator, TLAPS

Cells == 0 .. StorageSize - 1

\* Nothing before the offset is an application.
Passed == \A o \in 0 .. offset - 1 : ~Intact(o)

\* The storage up to n, with zero in the CRC field.
ZeroedUpTo(n) ==
    [a \in 0 .. n - 1 |-> IF a = offset + 1 THEN Zero ELSE storage[a]]

Types ==
    /\ storage \in [Cells -> Words]
    /\ pc \in Pc
    /\ offset \in 0 .. StorageSize
    /\ i \in Nat

InHead ==
    /\ offset \in Offsets
    /\ IsValid(offset)
    /\ i <= offset + 1
    /\ crc = [a \in 0 .. i - 1 |-> storage[a]]

InTail ==
    /\ offset \in Offsets
    /\ IsValid(offset)
    /\ i >= offset + 2
    /\ i <= Covered(offset)
    /\ crc = ZeroedUpTo(i)

IInv ==
    /\ Types
    /\ Passed
    /\ pc = "head" => InHead
    /\ pc = "tail" => InTail
    /\ pc = "compare" => InTail /\ i = Covered(offset)
    /\ pc = "found" => offset \in Offsets /\ Intact(offset)
    /\ pc = "none" => \A o \in Offsets : o >= offset => ~Intact(o)

-----------------------------------------------------------------------------
\* A read gives what is there, and something before the end of the storage.
LEMMA ReadGives ==
    ASSUME NEW from \in Nat, NEW n \in Nat
    PROVE  /\ Read(from, n) \in 0 .. n
           /\ from < StorageSize /\ n > 0 => Read(from, n) > 0
           /\ from < StorageSize => from + Read(from, n) <= StorageSize
           /\ n > 0 => (Read(from, n) = n <=> from + n <= StorageSize)
  BY LocatorSizes DEF Read

\* A valid descriptor has a size, of at least one word.
LEMMA ValidHasSize ==
    ASSUME Types, NEW o \in Offsets, IsValid(o)
    PROVE  Size(o) \in Nat \ {0}
  <1>1. o + 2 \in Cells
    BY LocatorSizes DEF Offsets, DescriptorWords, Cells
  <1>2. storage[o + 2] \in Words
    BY <1>1 DEF Types
  <1>3. ImageSize(storage[o + 2]) \in Nat /\ ImageSize(storage[o + 2]) > 0
        /\ ImageSize(storage[o + 2]) % 8 = 0
    BY <1>2, LocatorWords DEF IsValid, WordSize
  <1> QED BY <1>3 DEF Size, WordSize

\* Going on to the next offset keeps the invariant when this one is ruled out.
LEMMA LookFurtherStep ==
    ASSUME IInv, LookFurther, storage' = storage,
           offset < StorageSize, ~Intact(offset)
    PROVE  IInv'
  <1>1. Types'
    BY LocatorSizes DEF IInv, Types, LookFurther, Pc
  <1>2. Passed'
    <2> SUFFICES ASSUME NEW o \in 0 .. offset PROVE ~Intact(o)'
      BY DEF Passed, LookFurther, IInv, Types
    <2>1. ~Intact(o)
      BY DEF IInv, Passed, Types
    <2> QED BY <2>1 DEF Intact, IsValid, Contents, Covered, Size
  <1> QED BY <1>1, <1>2 DEF IInv, LookFurther

\* The steps that leave offset and storage alone keep what is ruled out.
LEMMA PassedStays ==
    ASSUME Passed, storage' = storage, offset' = offset
    PROVE  Passed'
  BY DEF Passed, Intact, IsValid, Contents, Covered, Size

LEMMA SearchStep == ASSUME IInv, Search PROVE IInv'
  <1> USE DEF Search
  <1>1. offset \in Nat /\ offset <= StorageSize /\ DescriptorWords = 4
    BY LocatorSizes DEF IInv, Types, DescriptorWords
  <1>2. /\ Read(offset, 1) = 1 <=> offset + 1 <= StorageSize
        /\ Read(offset, DescriptorWords) = DescriptorWords
              <=> offset + DescriptorWords <= StorageSize
    BY <1>1, ReadGives
  <1>3. Passed' \/ offset' # offset
    BY PassedStays DEF IInv
  <1>4. ASSUME pc' = "none", UNCHANGED <<offset, i, crc>>, offset \notin Offsets
        PROVE  IInv'
    <2>1. Types'
      BY <1>4 DEF IInv, Types, Pc
    <2>2. \A o \in Offsets : ~(o >= offset)
      BY <1>1, <1>4, LocatorSizes DEF Offsets
    <2>3. pc' = "none" => (\A o \in Offsets : o >= offset => ~Intact(o))'
      BY <1>4, <2>2 DEF Offsets
    <2> QED BY <1>3, <1>4, <2>1, <2>3 DEF IInv
  <1>5. CASE Read(offset, 1) # 1
    <2>1. offset \notin Offsets
      BY <1>1, <1>2, <1>5, LocatorSizes DEF Offsets
    <2>2. Read(offset, DescriptorWords) # DescriptorWords
      BY <1>1, <1>2, <1>5, LocatorSizes
    <2>3. pc' = "none" /\ UNCHANGED <<offset, i, crc>>
      BY <1>5, <2>2
    <2> QED BY <2>1, <2>3, <1>4
  <1>6. CASE Read(offset, 1) = 1 /\ storage[offset] # Signature
    <2>1. LookFurther
      BY <1>6
    <2>2. ~Intact(offset)
      BY <1>6 DEF Intact, IsValid
    <2> QED BY <1>1, <1>2, <1>6, <2>1, <2>2, LookFurtherStep, LocatorSizes
  <1>7. CASE storage[offset] = Signature /\ Read(offset, DescriptorWords) # DescriptorWords
    <2>1. offset \notin Offsets
      BY <1>1, <1>2, <1>7, LocatorSizes DEF Offsets
    <2>2. pc' = "none" /\ UNCHANGED <<offset, i, crc>>
      BY <1>7
    <2> QED BY <2>1, <2>2, <1>4
  <1>8. CASE storage[offset] = Signature /\ Read(offset, DescriptorWords) = DescriptorWords
    <2>1. offset \in Offsets
      BY <1>1, <1>2, <1>8, LocatorSizes DEF Offsets
    <2>4. Read(offset, 1) = 1
      BY <1>1, <1>2, <1>8, LocatorSizes
    <2>2. CASE ~IsValid(offset)
      <3>1. LookFurther
        BY <1>8, <2>2, <2>4
      <3> QED BY <1>1, <1>2, <1>8, <2>2, <3>1, LookFurtherStep, LocatorSizes DEF Intact
    <2>3. CASE IsValid(offset)
      <3>1. pc' = "head" /\ i' = 0 /\ crc' = Empty /\ offset' = offset
        BY <1>8, <2>3, <2>4
      <3>2. Types'
        BY <3>1 DEF IInv, Types, Pc
      <3>3. IsValid(offset)'
        BY <2>3, <3>1 DEF IsValid
      <3>4. crc' = [a \in 0 .. i' - 1 |-> storage'[a]]
        BY <3>1 DEF Empty
      <3>5. InHead'
        BY <1>1, <2>1, <3>1, <3>3, <3>4 DEF InHead, Offsets
      <3> QED BY <1>3, <3>1, <3>2, <3>5 DEF IInv
    <2> QED BY <2>2, <2>3
  <1> QED BY <1>5, <1>6, <1>7, <1>8, <1>1, <1>2

LEMMA AddHeadStep == ASSUME IInv, AddHead PROVE IInv'
  <1> DEFINE n == LeastOf(BufferSize, offset + 1 - i)
             res == Read(i, n)
  <1>1. InHead /\ Types /\ pc = "head" /\ i < offset + 1 /\ offset \in Nat /\ i \in Nat
    BY DEF IInv, AddHead, Types
  <1>2. n \in Nat /\ n <= offset + 1 - i
    BY <1>1, LocatorSizes DEF LeastOf
  <1>3. res \in 0 .. n
    BY <1>1, <1>2, ReadGives
  <1>4. /\ i' = i + res /\ crc' = Add(res)
        /\ UNCHANGED <<storage, pc, offset>>
    BY DEF AddHead
  <1> HIDE DEF n, res
  <1>5. i' \in Nat /\ i' <= offset + 1
    BY <1>1, <1>2, <1>3, <1>4
  <1>6. crc' = [a \in 0 .. i' - 1 |-> storage'[a]]
    <2>1. \A a \in 0 .. i + res - 1 : a < i => a \in 0 .. i - 1
      BY <1>1, <1>3
    <2> QED BY <2>1, <1>1, <1>3, <1>4 DEF InHead, Add
  <1>7. InHead'
    BY <1>1, <1>4, <1>5, <1>6 DEF InHead, IsValid
  <1>8. Types' /\ Passed'
    BY <1>1, <1>4, <1>5, PassedStays DEF Types, IInv
  <1> QED BY <1>1, <1>4, <1>7, <1>8 DEF IInv

LEMMA AddZeroStep == ASSUME IInv, AddZero PROVE IInv'
  <1>1. InHead /\ Types /\ pc = "head" /\ i = offset + 1 /\ offset \in Nat /\ i \in Nat
    BY DEF IInv, AddZero, Types, InHead
  <1>2. /\ crc' = [a \in 0 .. i |-> IF a < i THEN crc[a] ELSE Zero]
        /\ i' = offset + 2 /\ pc' = "tail" /\ UNCHANGED <<storage, offset>>
    BY DEF AddZero
  <1>3. crc' = [a \in 0 .. i' - 1 |-> IF a = offset' + 1 THEN Zero ELSE storage'[a]]
    <2>1. \A a \in 0 .. i : (a < i <=> a # offset + 1) /\ (a < i => a \in 0 .. i - 1)
      BY <1>1
    <2>2. i' - 1 = i
      BY <1>1, <1>2
    <2> QED BY <2>1, <2>2, <1>1, <1>2 DEF InHead
  <1>4. offset + 2 <= Covered(offset)'
    <2>1. Size(offset)' \in Nat
      BY <1>1, <1>2, ValidHasSize DEF InHead, Size
    <2> QED BY <1>1, <1>2, <2>1, LocatorSizes DEF Covered, LeastOf
  <1>5. InTail'
    BY <1>1, <1>2, <1>3, <1>4 DEF InTail, InHead, IsValid, ZeroedUpTo
  <1>6. Types' /\ Passed'
    BY <1>1, <1>2, PassedStays DEF Types, IInv, Pc
  <1> QED BY <1>2, <1>5, <1>6 DEF IInv

\* What reading on in the tail goes up to.
LEMMA CoveredBounds ==
    ASSUME Types, offset \in Offsets, IsValid(offset)
    PROVE  /\ Covered(offset) \in Nat
           /\ Covered(offset) >= offset + 2
           /\ Covered(offset) <= StorageSize
           /\ \A n \in Nat : n >= offset + 2 =>
                 (n < Size(offset) /\ n < StorageSize <=> n < Covered(offset))
           /\ Size(offset) > offset + 2 => Covered(offset) = LeastOf(Size(offset), StorageSize)
  <1>1. Size(offset) \in Nat \ {0}
    BY ValidHasSize
  <1>2. offset \in Nat /\ offset + 4 <= StorageSize
    BY DEF Offsets, DescriptorWords
  <1> QED BY <1>1, <1>2, LocatorSizes DEF Covered, LeastOf

LEMMA AddTailStep == ASSUME IInv, AddTail PROVE IInv'
  <1> DEFINE n == LeastOf(BufferSize, Size(offset) - i)
             res == Read(i, n)
  <1>1. InTail /\ Types /\ pc = "tail" /\ offset \in Nat /\ i \in Nat
    BY DEF IInv, AddTail, Types
  <1>2. Size(offset) \in Nat
    BY <1>1, ValidHasSize DEF InTail
  <1>3. Read(i, 1) > 0 <=> i < StorageSize
    BY <1>1, LocatorSizes DEF Read
  <1>4. i < Size(offset) /\ Read(i, 1) > 0 <=> i < Covered(offset)
    BY <1>1, <1>3, CoveredBounds DEF InTail
  <1>5. UNCHANGED <<storage, offset>>
    BY DEF AddTail
  <1>6. Covered(offset)' = Covered(offset)
    BY <1>5 DEF Covered, Size
  <1>7. Passed'
    BY <1>5, PassedStays DEF IInv
  <1>8. CASE i < Size(offset) /\ Read(i, 1) > 0
    <2>1. i' = i + res /\ crc' = Add(res) /\ pc' = pc
      BY <1>8 DEF AddTail
    <2>2. n \in Nat /\ n <= Size(offset) - i
      BY <1>1, <1>2, <1>8, LocatorSizes DEF LeastOf
    <2>3. res \in 0 .. n /\ i + res <= StorageSize
      BY <1>1, <1>3, <1>8, <2>2, ReadGives
    <2> HIDE DEF n, res
    <2>4. i' \in Nat /\ i' >= offset + 2 /\ i' <= Size(offset) /\ i' <= StorageSize
      BY <1>1, <1>2, <2>1, <2>2, <2>3 DEF InTail
    <2>5. Size(offset) > offset + 2
      BY <1>1, <1>2, <1>8 DEF InTail
    <2>6. i' <= Covered(offset)
      BY <1>1, <2>4, <2>5, CoveredBounds DEF InTail, LeastOf
    <2>7. crc' = [a \in 0 .. i' - 1 |-> IF a = offset' + 1 THEN Zero ELSE storage'[a]]
      <3>1. \A a \in 0 .. i + res - 1 : (a < i => a \in 0 .. i - 1) /\ (a >= i => a # offset + 1)
        BY <1>1, <2>3 DEF InTail
      <3> QED BY <3>1, <1>1, <1>5, <2>1, <2>3 DEF InTail, Add, ZeroedUpTo
    <2>8. InTail'
      BY <1>1, <1>5, <1>6, <2>4, <2>6, <2>7 DEF InTail, IsValid, ZeroedUpTo
    <2>9. Types'
      BY <1>1, <1>5, <2>1, <2>4 DEF Types
    <2> QED BY <1>1, <1>7, <2>1, <2>8, <2>9 DEF IInv
  <1>9. CASE ~(i < Size(offset) /\ Read(i, 1) > 0)
    <2>1. pc' = "compare" /\ UNCHANGED <<i, crc>>
      BY <1>9 DEF AddTail
    <2>2. i = Covered(offset)
      BY <1>1, <1>4, <1>9, CoveredBounds DEF InTail
    <2>3. InTail' /\ i' = Covered(offset)'
      BY <1>1, <1>5, <1>6, <2>1, <2>2 DEF InTail, IsValid, ZeroedUpTo
    <2>4. Types'
      BY <1>1, <1>5, <2>1 DEF Types, Pc
    <2> QED BY <1>7, <2>1, <2>3, <2>4 DEF IInv
  <1> QED BY <1>8, <1>9

LEMMA CompareStep == ASSUME IInv, Compare PROVE IInv'
  <1>1. InTail /\ i = Covered(offset) /\ Types /\ offset \in Offsets
    BY DEF IInv, Compare, InTail
  <1>2. crc = Contents(offset)
    BY <1>1 DEF InTail, ZeroedUpTo, Contents
  <1>3. Intact(offset) <=> Crc(crc) = storage[offset + 1]
    BY <1>1, <1>2 DEF Intact, InTail
  <1>4. CASE Crc(crc) = storage[offset + 1]
    <2>1. pc' = "found" /\ UNCHANGED <<storage, offset, i, crc>>
      BY <1>4 DEF Compare
    <2>2. Types' /\ Passed'
      BY <1>1, <2>1, PassedStays DEF Types, Pc, IInv
    <2>3. Intact(offset)'
      BY <1>3, <1>4, <2>1 DEF Intact, IsValid, Contents, Covered, Size
    <2>4. offset' \in Offsets
      BY <1>1, <2>1
    <2> QED BY <2>1, <2>2, <2>3, <2>4 DEF IInv, Offsets
  <1>5. CASE Crc(crc) # storage[offset + 1]
    <2>1. LookFurther /\ storage' = storage
      BY <1>5 DEF Compare
    <2>2. offset < StorageSize
      BY <1>1, LocatorSizes DEF Offsets, DescriptorWords
    <2> QED BY <1>3, <1>5, <2>1, <2>2, LookFurtherStep
  <1> QED BY <1>4, <1>5

THEOREM LocatorInvariance == Spec => []IInv
  <1>1. Init => IInv
    <2> SUFFICES ASSUME Init PROVE IInv
      OBVIOUS
    <2>1. Types
      BY LocatorSizes, LocatorStorages DEF Init, Types, Cells, Pc
    <2> QED BY <2>1 DEF Init, IInv, Passed
  <1>2. IInv /\ [Next]_vars => IInv'
    <2> SUFFICES ASSUME IInv, [Next]_vars PROVE IInv'
      OBVIOUS
    <2>1. CASE UNCHANGED vars
      BY <2>1 DEF vars, IInv, Types, Passed, InHead, InTail, ZeroedUpTo,
                  Intact, IsValid, Contents, Covered, Size
    <2> QED BY <2>1, SearchStep, AddHeadStep, AddZeroStep, AddTailStep, CompareStep DEF Next
  <1> QED BY <1>1, <1>2, PTL DEF Spec

(* FirstIntactIsFound: for every storage, buffer and CRC, what                 *)
(* locateAppDescriptor() returns is the first intact descriptor, and it        *)
(* returns none only if there is none.                                         *)
THEOREM LocatorIsCorrect == Spec => []FirstIntactIsFound
  <1>1. IInv => FirstIntactIsFound
    <2> SUFFICES ASSUME IInv PROVE FirstIntactIsFound
      OBVIOUS
    <2>1. pc = "found" => offset \in Offsets /\ Intact(offset) /\ Passed
      BY DEF IInv
    <2>2. ASSUME pc = "none", NEW o \in Offsets PROVE ~Intact(o)
      <3>1. CASE o >= offset
        BY <2>2, <3>1 DEF IInv
      <3>2. CASE ~(o >= offset)
        <4>1. o \in 0 .. offset - 1
          BY <3>2 DEF IInv, Types, Offsets
        <4> QED BY <4>1 DEF IInv, Passed
      <3> QED BY <3>1, <3>2
    <2> QED BY <2>1, <2>2 DEF FirstIntactIsFound, Passed
  <1> QED BY <1>1, LocatorInvariance, PTL
=============================================================================
