--------------------------- MODULE AppStorageProofs ---------------------------
(***************************************************************************)
(* Theorems about the path of a file into the flash (AppStorage), for any  *)
(* size of a page, of the flash and of the image, any files and any old    *)
(* contents, power cuts, torn erasures and failed programming included.    *)
(***************************************************************************)
EXTENDS AppStorage, WellFoundedInduction, TLAPS

\* The server sends chunks of even length but for the end of the file
\* (256 bytes in the protocol).
EvenChunks == \A n \in ChunkSizes : n % 2 = 0

-----------------------------------------------------------------------------
(* Arithmetic of pages.                                                    *)

LEMMA Division ==
  ASSUME NEW x \in Nat, NEW p \in Nat \ {0}
  PROVE  /\ x = p * (x \div p) + (x % p)
         /\ x % p \in 0 .. p - 1
         /\ x \div p \in Nat
  OBVIOUS

\* A multiple has no remainder.
LEMMA NoRemainder ==
  ASSUME NEW p \in Nat \ {0}, NEW k \in Nat
  PROVE  (p * k) % p = 0
<1>1. ASSUME NEW q \in Nat, NEW r \in 0 .. p - 1, p * k = p * q + r
      PROVE  r = 0
  <2>1. CASE k <= q
    BY <1>1, <2>1
  <2>2. CASE k >= q + 1
    <3>1. p * k >= p * (q + 1)
      BY <2>2
    <3>. QED  BY <1>1, <3>1
  <2>. QED  BY <2>1, <2>2
<1>2. p * k \in Nat
  OBVIOUS
<1>. QED  BY <1>1, <1>2, Division

Start(a) == PageSize * PageOf(a)

\* An address lies in its page.
LEMMA InItsPage ==
  ASSUME NEW a \in Nat
  PROVE  /\ PageOf(a) \in Nat
         /\ Start(a) \in Nat
         /\ Start(a) <= a
         /\ a < Start(a) + PageSize
  BY PageAssumption DEF PageOf, Start

\* A page is what lies between its start and the next.
LEMMA PageIs ==
  ASSUME NEW a \in Nat, NEW k \in Nat,
         PageSize * k <= a, a < PageSize * k + PageSize
  PROVE  PageOf(a) = k
  BY PageAssumption DEF PageOf

\* Pages are in the order of their addresses.
LEMMA PageOrder ==
  ASSUME NEW a \in Nat, NEW b \in Nat, a <= b
  PROVE  PageOf(a) <= PageOf(b) /\ Start(a) <= Start(b)
  BY PageAssumption, InItsPage DEF PageOf, Start

\* An address below a page is in a page below it.
LEMMA PageBefore ==
  ASSUME NEW a \in Nat, NEW b \in Nat, a < Start(b)
  PROVE  PageOf(a) < PageOf(b)
<1>1. ASSUME NEW p \in Nat, NEW i \in Nat, NEW j \in Nat, j <= i
      PROVE  p * j <= p * i
  BY <1>1
<1>2. SUFFICES ASSUME PageOf(b) <= PageOf(a) PROVE FALSE
  BY InItsPage
<1>3. Start(b) <= Start(a)
  BY <1>1, <1>2, InItsPage, PageAssumption DEF Start
<1>. QED  BY <1>3, InItsPage

\* Pages begin at even addresses, with no remainder.
LEMMA PageStart ==
  ASSUME NEW k \in Nat
  PROVE  /\ PageSize * k \in Nat
         /\ (PageSize * k) % 2 = 0
         /\ (PageSize * k) % PageSize = 0
<1>1. PageSize * k \in Nat
  BY PageAssumption
<1>2. (PageSize * k) % 2 = 0
  <2>1. PICK h \in Nat : PageSize = 2 * h
    BY PageAssumption
  <2>2. PageSize * k = 2 * (h * k)
    BY <2>1
  <2>3. h * k \in Nat
    BY <2>1
  <2>. QED  BY <2>2, <2>3
<1>3. (PageSize * k) % PageSize = 0
  BY PageAssumption, NoRemainder
<1>. QED  BY <1>1, <1>2, <1>3

\* The flash ends with a page, at an even address.
LEMMA FlashEndIsEven ==
  FlashEnd % 2 = 0
<1>1. PageSize \in Nat \ {0} /\ FlashEnd \in Nat /\ FlashEnd % PageSize = 0
  BY PageAssumption, LayoutAssumption
<1>2. /\ FlashEnd = PageSize * (FlashEnd \div PageSize)
      /\ FlashEnd \div PageSize \in Nat
  BY <1>1, Division
<1>. QED  BY <1>2, PageStart

\* Sets of naturals have a least element.
LEMMA MinIsLeast ==
  ASSUME NEW S \in SUBSET Nat, S # {}
  PROVE  Min(S) \in S /\ \A x \in S : Min(S) <= x
<1>1. PICK m \in S : \A y \in S : ~(<<y, m>> \in OpToRel(<, Nat))
  BY NatLessThanWellFounded, WFMin
<1>2. \A y \in S : ~(y < m)
  BY <1>1, Zenon DEF OpToRel
<1>3. \A y \in S : m <= y
  BY <1>2
<1>. QED  BY <1>3 DEF Min

-----------------------------------------------------------------------------
(* Where a download is.                                                    *)

Busy == phase \in {"erasing", "programming", "halted"}

\* The chunk is part of the file, and what is written of it part of the flash;
\* programming begins at even addresses; a finished file was taken whole.
BoundsInv ==
    /\ offset_ + chunk <= Len(file)
    /\ Busy => chunk > 0 /\ offset_ + size <= FlashEnd /\ size <= chunk
    /\ phase \in {"off", "waiting"} => chunk = 0 /\ size = 0 /\ done = 0
    /\ phase = "erasing" => done = 0
    /\ phase = "programming" => offset_ % 2 = 0
    /\ result = "ok" => phase = "off" /\ offset_ = Len(file)

SafeInv == TypeOK /\ BoundsInv /\ ConfigSurvivesIfPageIsFree

\* What files, buffers and old contents hold are bytes.
LEMMA BytesAre ==
  /\ FF \in Bytes /\ Stale \in Bytes
  /\ \A f \in Files \cup {<<>>} :
        /\ f \in Seq(Bytes) /\ Len(f) \in Nat
        /\ \A i \in 1 .. Len(f) : f[i] \in Bytes
  /\ OldContents \subseteq [Cells -> Bytes]
<1>1. FF \in Bytes /\ Stale \in Bytes
  BY DEF Bytes
<1>2. <<>> \in Seq(Bytes) /\ Len(<<>>) = 0
  OBVIOUS
<1>3. ASSUME NEW f \in Files \cup {<<>>}
      PROVE  /\ f \in Seq(Bytes) /\ Len(f) \in Nat
             /\ \A i \in 1 .. Len(f) : f[i] \in Bytes
  <2>1. f \in Seq(Bytes)
    BY <1>2, ContentsAssumption
  <2>. QED  BY <2>1
<1>. QED  BY <1>1, <1>3, ContentsAssumption

\* What a download leaves behind when it ends.
LEMMA FinishSafe ==
  ASSUME SafeInv, NEW r \in {"none", "ok", "error"}, Finish(r),
         flash' \in [Cells -> Bytes],
         r = "ok" => UNCHANGED flash /\ offset_ = Len(file) /\ phase = "waiting",
         UNCHANGED downloads
  PROVE  SafeInv'
<1>1. CASE r = "ok"
  BY <1>1 DEF Finish, SafeInv, TypeOK, BoundsInv, Busy, Phase, Halfwords,
              ConfigSurvivesIfPageIsFree, ConfigSurvivesUpgrade
<1>2. CASE r # "ok"
  <2>1. /\ file' = <<>> /\ offset_' = 0 /\ before' = flash' /\ phase' = "off"
        /\ chunk' = 0 /\ size' = 0 /\ done' = 0 /\ result' = r
    BY <1>2 DEF Finish
  <2>2. Len(file') = 0
    BY <2>1
  <2>3. TypeOK'
    BY <2>1, <2>2 DEF SafeInv, TypeOK, Phase, Halfwords
  <2>4. BoundsInv'
    BY <1>2, <2>1, <2>2 DEF BoundsInv, Busy
  <2>5. ConfigSurvivesIfPageIsFree'
    BY <2>1 DEF ConfigSurvivesIfPageIsFree, ConfigSurvivesUpgrade
  <2>. QED  BY <2>3, <2>4, <2>5 DEF SafeInv
<1>. QED  BY <1>1, <1>2

LEMMA InitSafe == Init => SafeInv
<1>. SUFFICES ASSUME Init PROVE SafeInv
  OBVIOUS
<1>1. Len(file) = 0
  BY DEF Init
<1>2. TypeOK
  BY <1>1, BytesAre, SizeAssumption DEF Init, TypeOK, Phase, Halfwords
<1>3. BoundsInv
  BY <1>1 DEF Init, BoundsInv, Busy
<1>4. ConfigSurvivesIfPageIsFree
  BY DEF Init, ConfigSurvivesIfPageIsFree, ConfigSurvivesUpgrade
<1>. QED  BY <1>2, <1>3, <1>4 DEF SafeInv

\* The byte of the file that goes to an address of the chunk.
LEMMA SourceIsByte ==
  ASSUME SafeInv, NEW a \in Nat, offset_ <= a
  PROVE  Source(a) \in Bytes
  BY BytesAre DEF SafeInv, TypeOK, BoundsInv, Source

\* The region of a chunk is in the flash.
LEMMA TargetIsFlash ==
  ASSUME SafeInv, Busy
  PROVE  /\ Target \subseteq Cells
         /\ \A a \in Target : offset_ <= a /\ a < Len(file)
  BY LayoutAssumption, BytesAre
     DEF SafeInv, TypeOK, BoundsInv, Target, Region, Cells

LEMMA FirstDirtyIs ==
  ASSUME SafeInv, Busy, Dirty(flash, Target) # {}
  PROVE  /\ FirstDirty(flash, Target) \in Target
         /\ flash[FirstDirty(flash, Target)] # FF
         /\ FirstDirty(flash, Target) \in Cells
<1>1. Dirty(flash, Target) \in SUBSET Nat
  BY TargetIsFlash, LayoutAssumption DEF Dirty, Cells
<1>2. FirstDirty(flash, Target) \in Dirty(flash, Target)
  BY <1>1, MinIsLeast DEF FirstDirty
<1>. QED  BY <1>2, TargetIsFlash DEF Dirty

LEMMA StartDownloadSafe == SafeInv /\ StartDownload => SafeInv'
<1>. SUFFICES ASSUME SafeInv, StartDownload PROVE SafeInv'
  OBVIOUS
<1>1. file' \in Files \cup {<<>>} /\ Len(file') \in Nat
  BY BytesAre DEF StartDownload
<1>2. TypeOK'
  BY <1>1, SizeAssumption DEF StartDownload, SafeInv, TypeOK, Phase, Halfwords
<1>3. BoundsInv'
  BY <1>1 DEF StartDownload, BoundsInv, Busy
<1>4. ConfigSurvivesIfPageIsFree'
  BY DEF StartDownload, ConfigSurvivesIfPageIsFree, ConfigSurvivesUpgrade
<1>. QED  BY <1>2, <1>3, <1>4 DEF SafeInv

LEMMA HandleNextDataChunkSafe ==
  SafeInv /\ HandleNextDataChunk /\ UNCHANGED downloads => SafeInv'
<1>. SUFFICES ASSUME SafeInv, HandleNextDataChunk, UNCHANGED downloads
              PROVE  SafeInv'
  OBVIOUS
<1>. DEFINE Left == Len(file) - offset_
<1>1. /\ Len(file) \in Nat /\ offset_ \in Nat /\ Left \in Nat \ {0}
      /\ phase = "waiting"
  BY BytesAre DEF HandleNextDataChunk, SafeInv, TypeOK
<1>2. PICK s \in ChunkSizes : RejectChunk(Min({s, Left})) \/ AcceptChunk(Min({s, Left}))
  BY DEF HandleNextDataChunk
<1>3. /\ Min({s, Left}) \in {s, Left} /\ Min({s, Left}) <= Left
      /\ s \in Nat \ {0}
  BY <1>1, SizeAssumption, MinIsLeast
<1>4. PICK n \in 1 .. Left : /\ n \in ChunkSizes \cup 0 .. Len(file)
                             /\ RejectChunk(n) \/ AcceptChunk(n)
  BY <1>1, <1>2, <1>3
<1>5. CASE RejectChunk(n)
  <2>1. flash' \in [Cells -> Bytes]
    BY <1>5 DEF RejectChunk, SafeInv, TypeOK
  <2>. QED  BY <1>5, <2>1, FinishSafe DEF RejectChunk
<1>6. CASE AcceptChunk(n)
  <2>1. TypeOK'
    BY <1>1, <1>4, <1>6, LayoutAssumption
       DEF AcceptChunk, SafeInv, TypeOK, Phase, Halfwords
  <2>2. BoundsInv'
    BY <1>1, <1>4, <1>6, LayoutAssumption
       DEF AcceptChunk, SafeInv, TypeOK, BoundsInv, Busy
  <2>3. ConfigSurvivesIfPageIsFree'
    BY <1>6 DEF AcceptChunk, SafeInv, ConfigSurvivesIfPageIsFree, ConfigSurvivesUpgrade
  <2>. QED  BY <2>1, <2>2, <2>3 DEF SafeInv
<1>. QED  BY <1>4, <1>5, <1>6


\* An erasure takes pages of the chunk only.
LEMMA EraseKeepsConfig ==
  ASSUME SafeInv, Busy, Dirty(flash, Target) # {},
         NEW b \in ConfigStart .. FlashEnd - 1,
         Len(file) <= PageSize * PageOf(ConfigStart)
  PROVE  PageOf(b) # PageOf(FirstDirty(flash, Target))
<1>. DEFINE d == FirstDirty(flash, Target)
<1>1. /\ d \in Nat /\ d < Len(file) /\ Len(file) \in Nat
      /\ ConfigStart \in Nat /\ b \in Nat /\ ConfigStart <= b
  BY FirstDirtyIs, TargetIsFlash, LayoutAssumption, BytesAre
     DEF Cells, SafeInv, TypeOK
<1>2. Len(file) <= Start(ConfigStart)
  BY DEF Start
<1>3. d < Start(ConfigStart)
  BY <1>1, <1>2, InItsPage
<1>4. PageOf(d) < PageOf(ConfigStart)
  BY <1>1, <1>3, PageBefore
<1>5. PageOf(ConfigStart) <= PageOf(b)
  BY <1>1, PageOrder
<1>. QED  BY <1>1, <1>4, <1>5, InItsPage

LEMMA EraseSafe == SafeInv /\ Erase /\ UNCHANGED downloads => SafeInv'
<1>. SUFFICES ASSUME SafeInv, Erase, UNCHANGED downloads PROVE SafeInv'
  OBVIOUS
<1>1. Busy /\ Dirty(flash, Target) # {}
  BY DEF Erase, Busy
<1>2. TypeOK'
  BY BytesAre DEF Erase, ErasePage, SafeInv, TypeOK, Phase
<1>3. BoundsInv'
  BY DEF Erase, SafeInv, BoundsInv, Busy
<1>4. ConfigSurvivesIfPageIsFree'
  <2>. SUFFICES ASSUME Len(file') <= PageSize * PageOf(ConfigStart),
                       NEW a \in ConfigStart .. FlashEnd - 1,
                       Len(file') <= ConfigStart
                PROVE  flash'[a] = before'[a]
    BY DEF ConfigSurvivesIfPageIsFree, ConfigSurvivesUpgrade
  <2>1. file' = file /\ before' = before
    BY DEF Erase
  <2>2. PageOf(a) # PageOf(FirstDirty(flash, Target))
    BY <1>1, <2>1, EraseKeepsConfig
  <2>3. flash[a] = before[a]
    BY <2>1 DEF SafeInv, ConfigSurvivesIfPageIsFree, ConfigSurvivesUpgrade
  <2>4. a \in DOMAIN flash
    BY LayoutAssumption DEF SafeInv, TypeOK, Cells
  <2>. QED  BY <2>1, <2>2, <2>3, <2>4 DEF Erase, ErasePage
<1>. QED  BY <1>2, <1>3, <1>4 DEF SafeInv

\* A page torn or not holds bytes.
LEMMA TornIsBytes ==
  ASSUME SafeInv, NEW a, NEW kept
  PROVE  TornErase(flash, a, kept) \in [Cells -> Bytes]
  BY BytesAre DEF SafeInv, TypeOK, TornErase

LEMMA EraseFailsSafe == SafeInv /\ EraseFails /\ UNCHANGED downloads => SafeInv'
<1>. SUFFICES ASSUME SafeInv, EraseFails, UNCHANGED downloads PROVE SafeInv'
  OBVIOUS
<1>1. flash' \in [Cells -> Bytes]
  BY TornIsBytes DEF EraseFails
<1>. QED  BY <1>1, FinishSafe DEF EraseFails

LEMMA InterruptSafe == SafeInv /\ Interrupt /\ UNCHANGED downloads => SafeInv'
<1>. SUFFICES ASSUME SafeInv, Interrupt, UNCHANGED downloads PROVE SafeInv'
  OBVIOUS
<1>1. flash' \in [Cells -> Bytes]
  BY TornIsBytes DEF Interrupt, SafeInv, TypeOK
<1>. QED  BY <1>1, FinishSafe DEF Interrupt

LEMMA EndOfFileSafe == SafeInv /\ EndOfFile /\ UNCHANGED downloads => SafeInv'
<1>. SUFFICES ASSUME SafeInv, EndOfFile, UNCHANGED downloads PROVE SafeInv'
  OBVIOUS
<1>1. flash' \in [Cells -> Bytes]
  BY DEF EndOfFile, SafeInv, TypeOK
<1>. QED  BY <1>1, FinishSafe DEF EndOfFile

LEMMA BeginWriteSafe == SafeInv /\ BeginWrite /\ UNCHANGED downloads => SafeInv'
<1>. SUFFICES ASSUME SafeInv, BeginWrite, UNCHANGED downloads PROVE SafeInv'
  OBVIOUS
<1>1. TypeOK'
  BY DEF BeginWrite, SafeInv, TypeOK, Phase
<1>2. BoundsInv'
  BY DEF BeginWrite, SafeInv, BoundsInv, Busy
<1>3. ConfigSurvivesIfPageIsFree'
  BY DEF BeginWrite, SafeInv, ConfigSurvivesIfPageIsFree, ConfigSurvivesUpgrade
<1>. QED  BY <1>1, <1>2, <1>3 DEF SafeInv

\* The halfword that is programmed next.
Front == offset_ + 2 * done

LEMMA HalfwordIsFlash ==
  ASSUME SafeInv, phase = "programming", done < Halfwords(size)
  PROVE  /\ Front \in Nat /\ offset_ <= Front
         /\ Front % 2 = 0
         /\ Front + 1 <= offset_ + size
         /\ Front \in Cells /\ Front + 1 \in Cells
         /\ Front < Len(file)
<1>1. /\ offset_ \in Nat /\ size \in Nat /\ done \in Nat /\ chunk \in Nat
      /\ offset_ % 2 = 0 /\ offset_ + size <= FlashEnd /\ size <= chunk
      /\ offset_ + chunk <= Len(file) /\ Len(file) \in Nat
  BY BytesAre, SizeAssumption DEF SafeInv, TypeOK, BoundsInv, Busy
<1>2. done < (size + 1) \div 2
  BY DEF Halfwords
<1>3. FlashEnd \in Nat /\ FlashEnd % 2 = 0
  BY FlashEndIsEven, LayoutAssumption
<1>4. Front \in Nat /\ Front % 2 = 0 /\ offset_ <= Front /\ Front + 1 <= offset_ + size
  BY <1>1, <1>2 DEF Front
<1>5. Front + 1 < FlashEnd
  BY <1>1, <1>3, <1>4
<1>. QED  BY <1>1, <1>3, <1>4, <1>5 DEF Cells

LEMMA ProgramSafe == SafeInv /\ Program /\ UNCHANGED downloads => SafeInv'
<1>. SUFFICES ASSUME SafeInv, Program, UNCHANGED downloads PROVE SafeInv'
  OBVIOUS
<1>0. /\ phase = "programming" /\ done < Halfwords(size) /\ Busy
      /\ UNCHANGED <<file, offset_, chunk, size, result, before>>
  BY DEF Program, Busy
<1>1. CASE UNCHANGED <<flash, done>> /\ phase' = "halted"
  <2>1. TypeOK'
    BY <1>0, <1>1 DEF SafeInv, TypeOK, Phase
  <2>2. BoundsInv'
    BY <1>0, <1>1 DEF SafeInv, BoundsInv, Busy
  <2>3. ConfigSurvivesIfPageIsFree'
    BY <1>0, <1>1 DEF SafeInv, ConfigSurvivesIfPageIsFree, ConfigSurvivesUpgrade
  <2>. QED  BY <2>1, <2>2, <2>3 DEF SafeInv
<1>2. ASSUME NEW low \in Bytes, NEW high \in Bytes,
             flash' = ProgramHalfword(flash, Front, low, high),
             done' = done + 1, UNCHANGED phase
      PROVE  SafeInv'
  <2>1. flash' \in [Cells -> Bytes] /\ \A b \in Cells \ {Front, Front + 1} : flash'[b] = flash[b]
    BY <1>0, <1>2, HalfwordIsFlash DEF ProgramHalfword, SafeInv, TypeOK
  <2>2. done' \in 0 .. Halfwords(size)
    <3>1. size \in Nat /\ done \in Nat
      BY SizeAssumption, BytesAre DEF SafeInv, TypeOK
    <3>. QED  BY <3>1, <1>0, <1>2 DEF Halfwords
  <2>3. TypeOK'
    BY <1>0, <1>2, <2>1, <2>2 DEF SafeInv, TypeOK, Phase
  <2>4. BoundsInv'
    BY <1>0, <1>2 DEF SafeInv, BoundsInv, Busy
  <2>5. ConfigSurvivesIfPageIsFree'
    <3>. SUFFICES ASSUME Len(file) <= PageSize * PageOf(ConfigStart),
                         NEW a \in ConfigStart .. FlashEnd - 1,
                         Len(file) <= ConfigStart
                  PROVE  flash'[a] = before[a]
      BY <1>0 DEF ConfigSurvivesIfPageIsFree, ConfigSurvivesUpgrade
    <3>1. flash[a] = before[a]
      BY DEF SafeInv, ConfigSurvivesIfPageIsFree, ConfigSurvivesUpgrade
    <3>2. ConfigStart \in Nat /\ a \in Cells
      BY LayoutAssumption DEF Cells
    <3>3. /\ (PageSize * PageOf(ConfigStart)) % 2 = 0
          /\ PageSize * PageOf(ConfigStart) \in Nat
          /\ PageSize * PageOf(ConfigStart) <= ConfigStart
      BY <3>2, InItsPage, PageStart DEF Start
    <3>4. Front \in Nat /\ Front % 2 = 0 /\ Front < Len(file) /\ Len(file) \in Nat
      BY <1>0, HalfwordIsFlash, BytesAre DEF SafeInv, TypeOK
    <3>5. Front + 1 < ConfigStart
      BY <3>2, <3>3, <3>4
    <3>. QED  BY <2>1, <3>1, <3>2, <3>4, <3>5
  <2>. QED  BY <2>3, <2>4, <2>5 DEF SafeInv
<1>3. Source(Front) \in Bytes /\ Source(Front + 1) \in Bytes /\ Stale \in Bytes
  BY <1>0, HalfwordIsFlash, SourceIsByte, BytesAre DEF SafeInv, TypeOK
<1>. QED  BY <1>1, <1>2, <1>3 DEF Program, Front

LEMMA WrittenSafe == SafeInv /\ Written /\ UNCHANGED downloads => SafeInv'
<1>. SUFFICES ASSUME SafeInv, Written, UNCHANGED downloads PROVE SafeInv'
  OBVIOUS
<1>0. phase = "programming" /\ UNCHANGED flash /\ Busy
  BY DEF Written, Advance, Busy
<1>1. CASE Finish("error")
  <2>1. flash' \in [Cells -> Bytes]
    BY <1>0 DEF SafeInv, TypeOK
  <2>. QED  BY <1>1, <2>1, FinishSafe
<1>2. CASE /\ offset_' = offset_ + chunk /\ phase' = "waiting"
           /\ chunk' = 0 /\ size' = 0 /\ done' = 0
           /\ UNCHANGED <<file, result, before>>
  <2>1. offset_ \in Nat /\ chunk \in Nat /\ Len(file) \in Nat /\ offset_ + chunk <= Len(file)
    BY BytesAre, SizeAssumption DEF SafeInv, TypeOK, BoundsInv
  <2>2. TypeOK'
    BY <1>0, <1>2, <2>1 DEF SafeInv, TypeOK, Phase, Halfwords
  <2>3. BoundsInv'
    BY <1>0, <1>2, <2>1 DEF SafeInv, BoundsInv, Busy
  <2>4. ConfigSurvivesIfPageIsFree'
    BY <1>0, <1>2 DEF SafeInv, ConfigSurvivesIfPageIsFree, ConfigSurvivesUpgrade
  <2>. QED  BY <2>2, <2>3, <2>4 DEF SafeInv
<1>. QED  BY <1>1, <1>2 DEF Written, Advance

\* Types, bounds and the page of the configuration are kept: by the erasures
\* and the programming of every chunk, and by whatever ends them.
THEOREM SafeInvariance == Spec => []SafeInv
<1>1. Init => SafeInv
  BY InitSafe
<1>2. SafeInv /\ [Next]_vars => SafeInv'
  <2>. SUFFICES ASSUME SafeInv, [Next]_vars PROVE SafeInv'
    OBVIOUS
  <2>1. CASE StartDownload
    BY <2>1, StartDownloadSafe
  <2>2. CASE UNCHANGED downloads /\ DeviceStep
    BY <2>2, EndOfFileSafe, HandleNextDataChunkSafe, EraseSafe, BeginWriteSafe,
       ProgramSafe, WrittenSafe DEF DeviceStep
  <2>3. CASE UNCHANGED downloads /\ EraseFails
    BY <2>3, EraseFailsSafe
  <2>4. CASE UNCHANGED downloads /\ Interrupt
    BY <2>4, InterruptSafe
  <2>5. CASE UNCHANGED vars
    BY <2>5 DEF vars, SafeInv, TypeOK, BoundsInv, Busy, Phase,
                ConfigSurvivesIfPageIsFree, ConfigSurvivesUpgrade
  <2>. QED  BY <2>1, <2>2, <2>3, <2>4, <2>5 DEF Next
<1>. QED  BY <1>1, <1>2, PTL DEF Spec

\* Images that end before the page of the configuration leave it alone.
THEOREM ConfigSurvives == Spec => []ConfigSurvivesIfPageIsFree
<1>1. SafeInv => ConfigSurvivesIfPageIsFree
  BY DEF SafeInv
<1>. QED  BY <1>1, SafeInvariance, PTL

-----------------------------------------------------------------------------
(* Chunks of even length.                                                  *)

\* The file is taken in pieces that begin at even addresses, and a file of
\* even length is written in whole halfwords.
ParityInv ==
    /\ offset_ % 2 = 0 \/ offset_ = Len(file)
    /\ Busy => /\ offset_ % 2 = 0
               /\ chunk % 2 = 0 \/ offset_ + chunk = Len(file)
               /\ Len(file) % 2 = 0 => size % 2 = 0

\* What is still to be programmed of a chunk is blank.
BlankInv == phase = "programming" => \A a \in Target : Front <= a => flash[a] = FF

\* The first address that this download has not programmed.
Edge == 2 * Halfwords(offset_) + 2 * done

PageIsOld(b)   == \A c \in Cells : PageOf(c) = PageOf(b) => flash[c] = before[c]
PageIsBlank(b) == \A c \in Cells : PageOf(c) = PageOf(b) => flash[c] = FF

\* A page that begins behind the edge is as it was or blank; the rest of the
\* page the edge is in is blank.
PagesInv ==
    /\ \A b \in Cells : Edge <= Start(b) => PageIsOld(b) \/ PageIsBlank(b)
    /\ \A b \in Cells : Start(b) < Edge /\ Edge <= b => flash[b] = FF

KeptInv ==
    Regular(before) => /\ AcceptedDataIsKept
                       /\ Downloading => PagesInv

EvenInv == SafeInv /\ ParityInv /\ BlankInv /\ FlashAssertionsHold /\ KeptInv

\* Nothing is left to prove of a download that failed.
LEMMA FailedEven ==
  ASSUME SafeInv', NEW r \in {"none", "error"}, Finish(r)
  PROVE  EvenInv'
<1>1. /\ file' = <<>> /\ offset_' = 0 /\ phase' = "off" /\ result' = r
  BY DEF Finish
<1>2. Len(file') = 0
  BY <1>1
<1>3. ParityInv' /\ BlankInv' /\ FlashAssertionsHold'
  BY <1>1, <1>2 DEF ParityInv, Busy, BlankInv, FlashAssertionsHold
<1>4. KeptInv'
  BY <1>1 DEF KeptInv, AcceptedDataIsKept, Downloading
<1>. QED  BY <1>3, <1>4 DEF EvenInv

LEMMA EndOfFileEven == EvenInv /\ EndOfFile /\ SafeInv' => EvenInv'
<1>. SUFFICES ASSUME EvenInv, EndOfFile, SafeInv' PROVE EvenInv'
  OBVIOUS
<1>1. /\ phase = "waiting" /\ phase' = "off" /\ offset_ = Len(file)
      /\ UNCHANGED <<flash, file, offset_, before>>
  BY DEF EndOfFile, Finish
<1>2. ParityInv' /\ BlankInv' /\ FlashAssertionsHold'
  BY <1>1 DEF ParityInv, Busy, BlankInv, FlashAssertionsHold
<1>3. KeptInv'
  BY <1>1 DEF EvenInv, KeptInv, AcceptedDataIsKept, Downloading, StoredPrefix, Regular
<1>. QED  BY <1>2, <1>3 DEF EvenInv

LEMMA StartDownloadEven == EvenInv /\ StartDownload /\ SafeInv' => EvenInv'
<1>. SUFFICES ASSUME EvenInv, StartDownload, SafeInv' PROVE EvenInv'
  OBVIOUS
<1>1. /\ phase' = "waiting" /\ offset_' = 0 /\ done' = 0 /\ before' = flash
      /\ flash' = flash
  BY DEF StartDownload
<1>2. ParityInv' /\ BlankInv' /\ FlashAssertionsHold'
  BY <1>1 DEF ParityInv, Busy, BlankInv, FlashAssertionsHold
<1>3. StoredPrefix(offset_)'
  BY <1>1 DEF StoredPrefix, Region
<1>4. Edge' = 0
  BY <1>1 DEF Edge, Halfwords
<1>5. PagesInv'
  <2>1. \A b \in Cells : Start(b) \in Nat
    BY InItsPage, LayoutAssumption DEF Cells
  <2>2. \A b \in Cells : PageIsOld(b)'
    BY <1>1 DEF PageIsOld
  <2>. QED  BY <1>4, <2>1, <2>2 DEF PagesInv
<1>6. KeptInv'
  BY <1>3, <1>5 DEF KeptInv, AcceptedDataIsKept
<1>. QED  BY <1>2, <1>6 DEF EvenInv

\* Where nothing of the flash, the file or the place in it changes, what is
\* kept is kept.
LEMMA KeptIsKept ==
  ASSUME EvenInv, UNCHANGED <<flash, file, offset_, done, before, result>>,
         Downloading, result # "ok"
  PROVE  KeptInv'
<1>1. PagesInv => PagesInv'
  BY DEF PagesInv, PageIsOld, PageIsBlank, Edge
<1>2. KeptInv
  BY DEF EvenInv
<1>. QED  BY <1>1, <1>2 DEF KeptInv, AcceptedDataIsKept, StoredPrefix, Regular

LEMMA HandleNextDataChunkEven ==
  ASSUME EvenChunks
  PROVE  EvenInv /\ HandleNextDataChunk /\ SafeInv' => EvenInv'
<1>. SUFFICES ASSUME EvenInv, HandleNextDataChunk, SafeInv' PROVE EvenInv'
  OBVIOUS
<1>. DEFINE Left == Len(file) - offset_
<1>1. /\ Len(file) \in Nat /\ offset_ \in Nat /\ Left \in Nat \ {0}
      /\ phase = "waiting" /\ done = 0 /\ offset_ # Len(file)
  BY BytesAre DEF HandleNextDataChunk, EvenInv, SafeInv, TypeOK, BoundsInv
<1>2. PICK s \in ChunkSizes : RejectChunk(Min({s, Left})) \/ AcceptChunk(Min({s, Left}))
  BY DEF HandleNextDataChunk
<1>3. Min({s, Left}) \in {s, Left} /\ s \in Nat \ {0} /\ s % 2 = 0
  BY <1>1, <1>2, SizeAssumption, MinIsLeast DEF EvenChunks
<1>4. PICK n \in Nat : /\ n % 2 = 0 \/ n = Left
                       /\ RejectChunk(n) \/ AcceptChunk(n)
  BY <1>1, <1>2, <1>3
<1>5. CASE RejectChunk(n)
  BY <1>5, FailedEven DEF RejectChunk
<1>6. CASE AcceptChunk(n)
  <2>1. /\ phase' = "erasing" /\ chunk' = n /\ done' = 0
        /\ UNCHANGED <<flash, file, offset_, result, before>>
        /\ size' = n \/ size' = FlashEnd - offset_
    BY <1>6 DEF AcceptChunk
  <2>2. offset_ % 2 = 0
    BY <1>1 DEF EvenInv, ParityInv
  <2>3. offset_ + chunk' = Len(file) \/ chunk' % 2 = 0
    BY <1>1, <1>4, <2>1
  <2>4. Len(file) % 2 = 0 => size' % 2 = 0
    <3>1. Len(file) % 2 = 0 => n % 2 = 0
      BY <1>1, <1>4, <2>2
    <3>2. (FlashEnd - offset_) % 2 = 0
      BY <1>1, <2>2, FlashEndIsEven, LayoutAssumption
    <3>. QED  BY <2>1, <3>1, <3>2
  <2>5. ParityInv'
    BY <2>1, <2>2, <2>3, <2>4 DEF ParityInv
  <2>6. BlankInv' /\ FlashAssertionsHold'
    BY <2>1 DEF BlankInv, FlashAssertionsHold
  <2>7. KeptInv'
    BY <1>1, <2>1, KeptIsKept DEF Downloading, EvenInv, SafeInv, BoundsInv
  <2>. QED  BY <2>5, <2>6, <2>7 DEF EvenInv
<1>. QED  BY <1>4, <1>5, <1>6

\* Under way at an even address, the edge is the next halfword.
LEMMA EdgeIsFront ==
  ASSUME EvenInv, Busy
  PROVE  Edge = Front /\ Front \in Nat /\ offset_ <= Front /\ offset_ \in Nat
<1>1. offset_ \in Nat /\ done \in Nat /\ offset_ % 2 = 0
  BY BytesAre, SizeAssumption DEF EvenInv, ParityInv, SafeInv, TypeOK
<1>2. 2 * Halfwords(offset_) = offset_
  BY <1>1 DEF Halfwords
<1>. QED  BY <1>1, <1>2 DEF Edge, Front

LEMMA EraseEven == EvenInv /\ Erase /\ SafeInv' => EvenInv'
<1>. SUFFICES ASSUME EvenInv, Erase, SafeInv' PROVE EvenInv'
  OBVIOUS
<1>. DEFINE d == FirstDirty(flash, Target)
<1>1. /\ phase = "erasing" /\ phase' = "erasing" /\ Dirty(flash, Target) # {} /\ Busy
      /\ flash' = ErasePage(flash, d) /\ SafeInv /\ done = 0 /\ result # "ok"
      /\ UNCHANGED <<file, offset_, chunk, size, done, result, before>>
  BY DEF Erase, Busy, EvenInv, SafeInv, BoundsInv
<1>2. ParityInv'
  BY <1>1 DEF EvenInv, ParityInv, Busy
<1>3. BlankInv' /\ FlashAssertionsHold'
  BY <1>1 DEF BlankInv, FlashAssertionsHold
<1>4. KeptInv'
  <2>. SUFFICES ASSUME Regular(before) PROVE AcceptedDataIsKept' /\ PagesInv'
    BY <1>1 DEF KeptInv, Regular
  <2>1. StoredPrefix(offset_) /\ PagesInv
    BY <1>1 DEF EvenInv, KeptInv, AcceptedDataIsKept, Downloading
  <2>2. Edge = offset_ /\ Edge' = offset_ /\ offset_ \in Nat
    BY <1>1, EdgeIsFront DEF Front, Edge
  <2>3. d \in Cells /\ d \in Nat /\ flash[d] # FF /\ offset_ <= d
    BY <1>1, FirstDirtyIs, TargetIsFlash, LayoutAssumption DEF Cells
  <2>4. offset_ <= Start(d)
    BY <2>1, <2>2, <2>3, InItsPage DEF PagesInv
  <2>5. /\ DOMAIN flash = Cells
        /\ \A c \in Cells : flash'[c] = IF PageOf(c) = PageOf(d) THEN FF ELSE flash[c]
    BY <1>1 DEF ErasePage, SafeInv, TypeOK
  <2>6. \A c \in Cells : c \in Nat /\ (c < offset_ => PageOf(c) # PageOf(d))
    <3>. SUFFICES ASSUME NEW c \in Cells, c < offset_ PROVE PageOf(c) # PageOf(d)
      BY LayoutAssumption DEF Cells
    <3>1. c \in Nat /\ c < Start(d)
      BY <2>2, <2>3, <2>4, InItsPage, LayoutAssumption DEF Cells
    <3>. QED  BY <2>3, <3>1, PageBefore, InItsPage
  <2>7. AcceptedDataIsKept'
    <3>1. offset_ <= FlashEnd
      <4>1. size \in Nat /\ offset_ + size <= FlashEnd
        BY <1>1, BytesAre, SizeAssumption DEF SafeInv, TypeOK, BoundsInv
      <4>. QED  BY <2>2, <4>1, LayoutAssumption
    <3>2. \A a \in Region(0, offset_) : a \in Cells /\ a < offset_
      BY <2>2, <3>1, LayoutAssumption DEF Region, Cells
    <3>3. StoredPrefix(offset_)'
      BY <1>1, <2>1, <2>5, <2>6, <3>2 DEF StoredPrefix
    <3>. QED  BY <3>3 DEF AcceptedDataIsKept
  <2>8. ASSUME NEW b \in Cells, Edge' <= Start(b)
        PROVE  PageIsOld(b)' \/ PageIsBlank(b)'
    <3>1. CASE PageOf(b) = PageOf(d)
      BY <2>5, <3>1 DEF PageIsBlank
    <3>2. CASE PageOf(b) # PageOf(d)
      <4>1. PageIsOld(b) \/ PageIsBlank(b)
        BY <2>1, <2>2, <2>8 DEF PagesInv
      <4>. QED  BY <1>1, <2>5, <3>2, <4>1 DEF PageIsOld, PageIsBlank
    <3>. QED  BY <3>1, <3>2
  <2>9. \A b \in Cells : Start(b) < Edge' /\ Edge' <= b => flash'[b] = FF
    BY <2>1, <2>2, <2>5 DEF PagesInv
  <2>. QED  BY <2>7, <2>8, <2>9 DEF PagesInv
<1>. QED  BY <1>2, <1>3, <1>4 DEF EvenInv

LEMMA BeginWriteEven == EvenInv /\ BeginWrite /\ SafeInv' => EvenInv'
<1>. SUFFICES ASSUME EvenInv, BeginWrite, SafeInv' PROVE EvenInv'
  OBVIOUS
<1>1. /\ phase = "erasing" /\ Busy /\ Dirty(flash, Target) = {}
      /\ phase' = (IF offset_ % 2 = 0 THEN "programming" ELSE "halted")
      /\ UNCHANGED <<flash, file, offset_, chunk, size, done, result, before>>
      /\ result # "ok"
  BY DEF BeginWrite, Busy, EvenInv, SafeInv, BoundsInv
<1>2. phase' = "programming"
  BY <1>1 DEF EvenInv, ParityInv
<1>3. ParityInv'
  BY <1>1 DEF EvenInv, ParityInv, Busy
<1>4. BlankInv' /\ FlashAssertionsHold'
  BY <1>1, <1>2 DEF BlankInv, FlashAssertionsHold, Dirty, Target, Region
<1>5. KeptInv'
  BY <1>1, KeptIsKept DEF Downloading
<1>. QED  BY <1>3, <1>4, <1>5 DEF EvenInv

LEMMA ProgramEven == EvenInv /\ Program /\ SafeInv' => EvenInv'
<1>. SUFFICES ASSUME EvenInv, Program, SafeInv' PROVE EvenInv'
  OBVIOUS
<1>1. /\ phase = "programming" /\ done < Halfwords(size) /\ Busy /\ SafeInv
      /\ UNCHANGED <<file, offset_, chunk, size, result, before>>
      /\ result # "ok"
  BY DEF Program, Busy, EvenInv, SafeInv, BoundsInv
<1>2. /\ Front \in Nat /\ Front % 2 = 0 /\ Edge = Front /\ offset_ <= Front
      /\ offset_ \in Nat /\ Front \in Cells /\ Front + 1 \in Cells
      /\ Front + 1 <= offset_ + size /\ Front < Len(file)
  BY <1>1, HalfwordIsFlash, EdgeIsFront
<1>3. CASE CanProgram(flash, Front)
  <2>1. PICK low : /\ flash' = ProgramHalfword(flash, Front, low, Source(Front + 1))
                   /\ done' = done + 1 /\ phase' = phase
    BY <1>3 DEF Program, Front
  <2>2. /\ DOMAIN flash = Cells
        /\ \A b \in Cells : b # Front /\ b # Front + 1 => flash'[b] = flash[b]
    BY <1>1, <1>2, <2>1 DEF ProgramHalfword, SafeInv, TypeOK
  <2>3. Front' = Front + 2 /\ Edge' = Front + 2
    <3>1. done \in Nat
      BY <1>1, SizeAssumption, BytesAre DEF SafeInv, TypeOK
    <3>2. 2 * Halfwords(offset_) = offset_
      BY <1>1, <1>2 DEF Halfwords, EvenInv, ParityInv
    <3>. QED  BY <1>1, <1>2, <2>1, <3>1, <3>2 DEF Front, Edge, Halfwords
  <2>4. ParityInv'
    BY <1>1, <2>1 DEF EvenInv, ParityInv, Busy
  <2>5. BlankInv' /\ FlashAssertionsHold'
    <3>1. ASSUME NEW a \in Target, Front + 2 <= a
          PROVE  flash'[a] = FF
      <4>1. a \in Cells /\ a \in Nat
        BY <1>1, TargetIsFlash, LayoutAssumption DEF Cells
      <4>2. flash[a] = FF
        BY <1>1, <1>2, <3>1, <4>1 DEF EvenInv, BlankInv
      <4>. QED  BY <1>2, <2>2, <3>1, <4>1, <4>2
    <3>2. Target' = Target
      BY <1>1 DEF Target, Region
    <3>. QED  BY <1>1, <2>1, <2>3, <3>1, <3>2 DEF BlankInv, FlashAssertionsHold
  <2>6. KeptInv'
    <3>. SUFFICES ASSUME Regular(before) PROVE AcceptedDataIsKept' /\ PagesInv'
      BY <1>1, <2>1 DEF KeptInv, Regular
    <3>1. StoredPrefix(offset_) /\ PagesInv
      BY <1>1 DEF EvenInv, KeptInv, AcceptedDataIsKept, Downloading
    <3>2. AcceptedDataIsKept'
      <4>1. \A a \in Region(0, offset_) : a \in Cells /\ a < Front
        BY <1>2, LayoutAssumption DEF Region, Cells
      <4>2. StoredPrefix(offset_)'
        BY <1>1, <1>2, <2>2, <3>1, <4>1 DEF StoredPrefix
      <4>. QED  BY <4>2 DEF AcceptedDataIsKept
    <3>3. \A b \in Cells : /\ b \in Nat /\ PageOf(b) \in Nat /\ Start(b) \in Nat
                           /\ Start(b) <= b /\ Start(b) % 2 = 0
                           /\ Start(b) % PageSize = 0
      BY InItsPage, PageStart, LayoutAssumption DEF Cells, Start
    <3>4. ASSUME NEW b \in Cells, Front + 2 <= Start(b)
          PROVE  PageIsOld(b)' \/ PageIsBlank(b)'
      <4>1. PageIsOld(b) \/ PageIsBlank(b)
        BY <1>2, <3>1, <3>3, <3>4 DEF PagesInv
      <4>2. \A c \in Cells : PageOf(c) = PageOf(b) => flash'[c] = flash[c]
        <5>. SUFFICES ASSUME NEW c \in Cells, PageOf(c) = PageOf(b)
                      PROVE  c # Front /\ c # Front + 1
          BY <2>2
        <5>1. Start(b) <= c
          BY <3>3 DEF Start
        <5>. QED  BY <1>2, <3>3, <3>4, <5>1
      <4>. QED  BY <1>1, <4>1, <4>2 DEF PageIsOld, PageIsBlank
    <3>5. ASSUME NEW b \in Cells, Start(b) < Front + 2, Front + 2 <= b
          PROVE  flash'[b] = FF
      <4>1. flash'[b] = flash[b]
        BY <1>2, <2>2, <3>3, <3>5
      <4>2. CASE Start(b) < Front
        BY <1>2, <3>1, <3>3, <3>5, <4>1, <4>2 DEF PagesInv
      <4>3. CASE Start(b) = Front
        <5>1. /\ PageOf(Front) = PageOf(b)
              /\ PageOf(Front + 1) = PageOf(b)
          <6>1. b < PageSize * PageOf(b) + PageSize /\ PageSize * PageOf(b) = Front
            BY <3>3, <4>3, InItsPage DEF Start
          <6>2. Front + 1 < PageSize * PageOf(b) + PageSize
            BY <1>2, <3>3, <3>5, <6>1, PageAssumption
          <6>3. PICK k \in Nat : k = PageOf(b) /\ PageSize * k \in Nat
            BY <3>3, PageStart
          <6>4. /\ PageSize * k <= Front /\ Front < PageSize * k + PageSize
                /\ Front + 1 < PageSize * k + PageSize
            BY <1>2, <6>1, <6>2, <6>3, PageAssumption
          <6>5. PageOf(Front) = k
            BY <1>2, <6>3, <6>4, PageIs
          <6>6. PageOf(Front + 1) = k
            BY <1>2, <6>3, <6>4, PageIs
          <6>. QED  BY <6>3, <6>5, <6>6
        <5>2. flash[Front] = FF /\ flash[Front + 1] = FF
          BY <1>3 DEF CanProgram
        <5>3. CASE PageIsBlank(b)
          BY <4>1, <5>3 DEF PageIsBlank
        <5>4. CASE PageIsOld(b)
          <6>1. before[Front] = FF /\ before[Front + 1] = FF
            BY <1>2, <5>1, <5>2, <5>4 DEF PageIsOld
          <6>2. before[b] = FF
            BY <1>2, <3>3, <4>3, <5>1, <6>1 DEF Regular
          <6>. QED  BY <4>1, <5>4, <6>2 DEF PageIsOld
        <5>5. PageIsOld(b) \/ PageIsBlank(b)
          BY <1>2, <3>1, <4>3 DEF PagesInv
        <5>. QED  BY <5>3, <5>4, <5>5
      <4>. QED  BY <1>2, <3>3, <3>5, <4>2, <4>3
    <3>. QED  BY <2>3, <3>2, <3>4, <3>5 DEF PagesInv
  <2>. QED  BY <2>4, <2>5, <2>6 DEF EvenInv
<1>4. CASE ~CanProgram(flash, Front)
  <2>1. phase' = "halted" /\ UNCHANGED <<flash, done>>
    BY <1>4 DEF Program, Front
  <2>2. ParityInv'
    BY <1>1, <2>1 DEF EvenInv, ParityInv, Busy
  <2>3. Len(file) % 2 # 0
    <3>. SUFFICES ASSUME Len(file) % 2 = 0 PROVE FALSE
      OBVIOUS
    <3>1. size % 2 = 0 /\ size \in Nat /\ offset_ % 2 = 0
      BY <1>1, BytesAre, SizeAssumption DEF EvenInv, ParityInv, SafeInv, TypeOK
    <3>2. Front + 1 < offset_ + size
      BY <1>2, <3>1
    <3>3. Front \in Target /\ Front + 1 \in Target
      BY <1>2, <3>1, <3>2 DEF Target, Region
    <3>. QED  BY <1>1, <1>2, <1>4, <3>3 DEF EvenInv, BlankInv, CanProgram
  <2>4. BlankInv' /\ FlashAssertionsHold' /\ KeptInv'
    BY <1>1, <2>1, <2>3 DEF BlankInv, FlashAssertionsHold, KeptInv,
                            AcceptedDataIsKept, Downloading
  <2>. QED  BY <2>2, <2>4 DEF EvenInv
<1>. QED  BY <1>3, <1>4

LEMMA WrittenEven == EvenInv /\ Written /\ SafeInv' => EvenInv'
<1>. SUFFICES ASSUME EvenInv, Written, SafeInv' PROVE EvenInv'
  OBVIOUS
<1>1. /\ phase = "programming" /\ Busy /\ SafeInv /\ done = Halfwords(size)
      /\ UNCHANGED flash
      /\ \/ Finish("error")
         \/ /\ \A a \in Target : flash[a] = Source(a)
            /\ size = chunk /\ offset_' = offset_ + chunk /\ phase' = "waiting"
            /\ done' = 0 /\ UNCHANGED <<file, result, before>>
  BY DEF Written, Advance, Busy, EvenInv
<1>2. CASE Finish("error")
  BY <1>2, FailedEven
<1>3. CASE /\ \A a \in Target : flash[a] = Source(a)
           /\ size = chunk /\ offset_' = offset_ + chunk /\ phase' = "waiting"
           /\ done' = 0 /\ UNCHANGED <<file, result, before>>
  <2>1. /\ offset_ \in Nat /\ chunk \in Nat /\ offset_ % 2 = 0
        /\ chunk % 2 = 0 \/ offset_ + chunk = Len(file)
    BY <1>1, BytesAre, SizeAssumption DEF EvenInv, ParityInv, SafeInv, TypeOK
  <2>2. ParityInv'
    BY <1>3, <2>1 DEF ParityInv, Busy
  <2>3. BlankInv' /\ FlashAssertionsHold'
    BY <1>3 DEF BlankInv, FlashAssertionsHold
  <2>4. KeptInv'
    <3>. SUFFICES ASSUME Regular(before) PROVE AcceptedDataIsKept' /\ PagesInv'
      BY <1>3 DEF KeptInv, Regular
    <3>1. StoredPrefix(offset_) /\ PagesInv
      BY <1>1 DEF EvenInv, KeptInv, AcceptedDataIsKept, Downloading
    <3>2. \A a \in Region(0, offset_ + chunk) : flash[a] = file[a + 1]
      <4>. SUFFICES ASSUME NEW a \in Region(0, offset_ + chunk)
                    PROVE  flash[a] = file[a + 1]
        OBVIOUS
      <4>1. CASE a < offset_
        BY <2>1, <3>1, <4>1 DEF StoredPrefix, Region
      <4>2. CASE a >= offset_
        BY <1>3, <2>1, <4>2 DEF Target, Region, Source
      <4>. QED  BY <2>1, <4>1, <4>2 DEF Region
    <3>3. AcceptedDataIsKept'
      BY <1>1, <1>3, <3>2 DEF AcceptedDataIsKept, StoredPrefix
    <3>4. Edge' = Edge
      BY <1>1, <1>3, <2>1 DEF Edge, Halfwords
    <3>5. PagesInv'
      BY <1>1, <1>3, <3>1, <3>4 DEF PagesInv, PageIsOld, PageIsBlank
    <3>. QED  BY <3>3, <3>5
  <2>. QED  BY <2>2, <2>3, <2>4 DEF EvenInv
<1>. QED  BY <1>1, <1>2, <1>3

LEMMA InitEven == Init => EvenInv
<1>. SUFFICES ASSUME Init PROVE EvenInv
  OBVIOUS
<1>1. phase = "off" /\ offset_ = 0 /\ result = "none"
  BY DEF Init
<1>2. ParityInv /\ BlankInv /\ FlashAssertionsHold /\ KeptInv
  BY <1>1 DEF ParityInv, Busy, BlankInv, FlashAssertionsHold, KeptInv,
              AcceptedDataIsKept, Downloading
<1>. QED  BY <1>2, InitSafe DEF EvenInv

\* With chunks of even length: what is behind the edge of a download is as it
\* was or blank, page by page, if the old contents were regular.
THEOREM EvenInvariance ==
  ASSUME EvenChunks
  PROVE  Spec => []EvenInv
<1>1. Init => EvenInv
  BY InitEven
<1>2. EvenInv /\ SafeInv' /\ [Next]_vars => EvenInv'
  <2>. SUFFICES ASSUME EvenInv, SafeInv', [Next]_vars PROVE EvenInv'
    OBVIOUS
  <2>1. CASE StartDownload
    BY <2>1, StartDownloadEven
  <2>2. CASE DeviceStep
    BY <2>2, EndOfFileEven, HandleNextDataChunkEven, EraseEven, BeginWriteEven,
       ProgramEven, WrittenEven DEF DeviceStep
  <2>3. CASE EraseFails
    BY <2>3, FailedEven DEF EraseFails
  <2>4. CASE Interrupt
    BY <2>4, FailedEven DEF Interrupt
  <2>5. CASE UNCHANGED vars
    <3>1. ParityInv' /\ BlankInv' /\ FlashAssertionsHold'
      BY <2>5 DEF vars, EvenInv, ParityInv, Busy, BlankInv, Target, Region,
                  Front, FlashAssertionsHold
    <3>2. KeptInv'
      BY <2>5 DEF vars, EvenInv, KeptInv, AcceptedDataIsKept, Downloading,
                  StoredPrefix, PagesInv, PageIsOld, PageIsBlank, Edge, Regular
    <3>. QED  BY <3>1, <3>2 DEF EvenInv
  <2>. QED  BY <2>1, <2>2, <2>3, <2>4, <2>5 DEF Next
<1>. QED  BY <1>1, <1>2, SafeInvariance, PTL DEF Spec

\* What the sink accepted stays for the rest of the download, and a finished
\* file is in the flash as a whole, over old contents whose pages tell by
\* their first halfword whether they are used.
THEOREM AcceptedDataStays ==
  ASSUME EvenChunks
  PROVE  Spec => []AcceptedDataIsKeptIfRegular
<1>1. EvenInv => AcceptedDataIsKeptIfRegular
  BY DEF EvenInv, KeptInv, AcceptedDataIsKeptIfRegular
<1>. QED  BY <1>1, EvenInvariance, PTL

\* Files of even length never make the flash writer assert.
THEOREM NoAssertionFails ==
  ASSUME EvenChunks
  PROVE  Spec => []FlashAssertionsHold
<1>1. EvenInv => FlashAssertionsHold
  BY DEF EvenInv
<1>. QED  BY <1>1, EvenInvariance, PTL

=============================================================================
