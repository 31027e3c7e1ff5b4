------------------------------ MODULE AppStorage ------------------------------
(***************************************************************************)
(* The path of a firmware file into the flash: the downloader feeds chunks *)
(* to Sink (src/bootloader/src/bootloader.cpp), which calls                *)
(* AppStorageBackend::write() (app_storage_backend.hpp), which erases and  *)
(* programs through FlashWriter (flash_writer.hpp).                        *)
(*                                                                         *)
(* The mutex of the controller is held for every chunk, so nothing         *)
(* interleaves with a write but a power cut, which may come between any    *)
(* two flash operations and in the middle of an erasure.  A device goes    *)
(* through several downloads, each over what the previous one left.        *)
(*                                                                         *)
(* Addresses are relative to APPLICATION_OFFSET.  The last bytes of the    *)
(* flash, from ConfigStart, belong to the configuration of the application *)
(* (src/src/hardware.cpp:49).                                              *)
(***************************************************************************)
EXTENDS FlashWriter, Sequences

CONSTANTS
    FlashEnd,       \* first address past the flash
    ConfigStart,    \* first address of the configuration storage
    MaxImageSize,   \* max_application_image_size_ (more than FlashEnd here)
    ChunkSizes,     \* sizes of the non-empty FileRead responses
    OldContents,    \* what the flash may hold at first
    Files,          \* the firmware files, sequences of bytes
    Stale,          \* what the download buffer holds past the chunk
    MaxDownloads    \* bound on the number of downloads

ASSUME LayoutAssumption ==
    /\ FlashEnd \in Nat /\ FlashEnd % PageSize = 0
    /\ ConfigStart \in 0 .. FlashEnd
ASSUME SizeAssumption ==
    /\ MaxImageSize \in Nat /\ MaxDownloads \in Nat
    /\ ChunkSizes \subseteq Nat \ {0}

VARIABLES
    flash,      \* the bytes [0, FlashEnd)
    phase,      \* what the device is doing
    file,       \* the file being downloaded
    offset_,    \* Sink::offset_
    chunk,      \* size of the chunk given to the sink
    size,       \* the part of it the backend accepts
    done,       \* halfwords programmed so far
    result,     \* of the last download
    before,     \* history: the flash when the download began
    downloads   \* how many were started

vars == <<flash, phase, file, offset_, chunk, size, done, result, before,
          downloads>>

Cells == 0 .. FlashEnd - 1

\* What a byte can be: erased, anything a file or the buffer holds, or what
\* was there before.
Bytes == {FF, Stale} \cup UNION {{f[i] : i \in DOMAIN f} : f \in Files}
                     \cup UNION {{m[a] : a \in Cells} : m \in OldContents}

ASSUME ContentsAssumption ==
    Files \subseteq Seq(Bytes) /\ OldContents \subseteq [Cells -> Bytes]

Phase == {"off", "waiting", "erasing", "programming", "halted"}

TypeOK ==
    /\ flash \in [Cells -> Bytes]
    /\ phase \in Phase
    /\ file \in Files \cup {<<>>}
    /\ offset_ \in 0 .. Len(file)
    /\ chunk \in {0} \cup ChunkSizes \cup 0 .. Len(file)
    /\ size \in 0 .. chunk
    /\ done \in 0 .. Halfwords(size)
    /\ result \in {"none", "ok", "error"}
    /\ before \in [Cells -> Bytes]
    /\ downloads \in 0 .. MaxDownloads

Init ==
    /\ flash \in OldContents
    /\ phase = "off"
    /\ file = <<>>
    /\ offset_ = 0 /\ chunk = 0 /\ size = 0 /\ done = 0
    /\ result = "none"
    /\ before = flash
    /\ downloads = 0

-----------------------------------------------------------------------------
\* The byte of the file, or of the buffer behind it, that goes to address a.
Source(a) == IF a < offset_ + chunk THEN file[a + 1] ELSE Stale

\* The region the current chunk is written to.
Target == Region(offset_, size)

\* download() returns, or is cut short, and Sink goes out of scope.  After a
\* success the file stays known, for the properties.
Finish(r) ==
    /\ phase' = "off"
    /\ result' = r
    /\ chunk' = 0 /\ size' = 0 /\ done' = 0
    /\ IF r = "ok" THEN UNCHANGED <<file, offset_, before>>
                   ELSE file' = <<>> /\ offset_' = 0 /\ before' = flash'

\* upgradeApp() creates a Sink and calls download().
StartDownload ==
    /\ phase = "off"
    /\ downloads < MaxDownloads
    /\ downloads' = downloads + 1
    /\ file' \in Files
    /\ before' = flash
    /\ phase' = "waiting"
    /\ offset_' = 0 /\ chunk' = 0 /\ size' = 0 /\ done' = 0
    /\ result' = "none"
    /\ UNCHANGED flash

\* The server answers with any allowed length; only the end of the file
\* makes a shorter chunk, and an empty one ends the download.
EndOfFile ==
    /\ phase = "waiting"
    /\ offset_ = Len(file)
    /\ UNCHANGED flash
    /\ Finish("ok")

\* Sink::handleNextDataChunk(), and correctOffsetAndSize() of the backend.
\* -ErrAppImageTooLarge, or nothing written because the flash is full.
RejectChunk(n) ==
    /\ offset_ + n > MaxImageSize \/ offset_ >= FlashEnd
    /\ UNCHANGED flash
    /\ Finish("error")

\* A chunk that crosses the end of the flash is cut.
AcceptChunk(n) ==
    /\ offset_ + n <= MaxImageSize
    /\ offset_ < FlashEnd
    /\ chunk' = n
    /\ size' = IF offset_ + n >= FlashEnd THEN FlashEnd - offset_ ELSE n
    /\ done' = 0
    /\ phase' = "erasing"
    /\ UNCHANGED <<flash, file, offset_, result, before>>

HandleNextDataChunk ==
    /\ phase = "waiting"
    /\ offset_ < Len(file)
    /\ \E s \in ChunkSizes :
          LET n == Min({s, Len(file) - offset_})
          IN  RejectChunk(n) \/ AcceptChunk(n)

\* Mutation: the page of the beginning of the chunk.
EraseAtStart ==
    /\ phase = "erasing"
    /\ Dirty(flash, Target) # {}
    /\ flash' = ErasePage(flash, offset_)
    /\ UNCHANGED <<phase, file, offset_, chunk, size, done, result, before>>

\* FlashWriter::erase(): the page of the next byte that is not blank.
Erase ==
    /\ phase = "erasing"
    /\ Dirty(flash, Target) # {}
    /\ flash' = ErasePage(flash, FirstDirty(flash, Target))
    /\ UNCHANGED <<phase, file, offset_, chunk, size, done, result, before>>

\* The immediate blank check failed: -ErrEraseFailed, and the downloader gives
\* up (that Sink advances its offset all the same no longer matters).
EraseFails ==
    /\ phase = "erasing"
    /\ Dirty(flash, Target) # {}
    /\ LET a == FirstDirty(flash, Target)
       IN  \E kept \in SUBSET {b \in Cells : PageOf(b) = PageOf(a)} :
              /\ a \in kept
              /\ flash' = TornErase(flash, a, kept)
    /\ Finish("error")

\* Mutation: only the first byte is checked to be blank.
BeginWriteUnchecked ==
    /\ phase = "erasing"
    /\ flash[offset_] = FF
    /\ phase' = IF offset_ % 2 = 0 THEN "programming" ELSE "halted"
    /\ UNCHANGED <<flash, file, offset_, chunk, size, done, result, before>>

\* erase() succeeded and write() begins; it insists on even addresses.
BeginWrite ==
    /\ phase = "erasing"
    /\ Dirty(flash, Target) = {}
    /\ phase' = IF offset_ % 2 = 0 THEN "programming" ELSE "halted"
    /\ UNCHANGED <<flash, file, offset_, chunk, size, done, result, before>>

\* One halfword; waitReady() asserts that the controller accepted it.
Program ==
    /\ phase = "programming"
    /\ done < Halfwords(size)
    /\ LET a == offset_ + 2 * done
       IN  IF CanProgram(flash, a)
           THEN /\ \/ flash' = ProgramHalfword(flash, a, Source(a), Source(a + 1))
                   \/ flash' = ProgramHalfword(flash, a, Stale, Source(a + 1))
                /\ done' = done + 1
                /\ UNCHANGED phase
           ELSE phase' = "halted" /\ UNCHANGED <<flash, done>>
    /\ UNCHANGED <<file, offset_, chunk, size, result, before>>

\* The end of write(), and what Sink makes of the result: a cut chunk and a
\* failed comparison are errors.
Advance(same, n) ==
    /\ phase = "programming"
    /\ done = Halfwords(size)
    /\ UNCHANGED flash
    /\ IF same /\ size = chunk
       THEN /\ offset_' = offset_ + n
            /\ phase' = "waiting"
            /\ chunk' = 0 /\ size' = 0 /\ done' = 0
            /\ UNCHANGED <<file, result, before>>
       ELSE Finish("error")

\* Mutation: no comparison.
WrittenUnchecked == Advance(TRUE, chunk)

\* write() compares what it wrote (memcmp()).
Written == Advance(\A a \in Target : flash[a] = Source(a), chunk)

\* A power cut, the watchdog after a failed assertion, a download that is
\* given up (timeout, reboot request): nothing but the flash survives.
Interrupt ==
    /\ phase # "off"
    /\ \/ UNCHANGED flash
       \/ /\ phase = "erasing"
          /\ Dirty(flash, Target) # {}
          /\ LET a == FirstDirty(flash, Target)
             IN  \E kept \in SUBSET {b \in Cells : PageOf(b) = PageOf(a)} :
                    flash' = TornErase(flash, a, kept)
    /\ Finish("none")

\* What the device does when nothing fails.
DeviceStep ==
    \/ EndOfFile
    \/ HandleNextDataChunk
    \/ Erase
    \/ BeginWrite
    \/ Program
    \/ Written

Next ==
    \/ StartDownload
    \/ UNCHANGED downloads /\ (DeviceStep \/ EraseFails \/ Interrupt)

Spec == Init /\ [][Next]_vars

\* The device keeps working, and the watchdog ends a halt.  No erasure has to
\* fail for the download to end.
FairSpec ==
    /\ Spec
    /\ WF_vars(UNCHANGED downloads /\ DeviceStep)
    /\ WF_vars(UNCHANGED downloads /\ phase = "halted" /\ Interrupt)

-----------------------------------------------------------------------------
(* Safety.                                                                 *)

StoredPrefix(n) == \A a \in Region(0, n) : flash[a] = file[a + 1]

Downloading == phase \in {"waiting", "erasing", "programming"}

\* IAppStorageBackend::write() returns the number of bytes written
\* (bootloader.hpp:82): what the sink accepted is in the flash for the rest
\* of the download, and all of the file at its end.  The code does not keep
\* this: the blank check of a later chunk may erase the page of an earlier
\* one (flash_writer.hpp:157-185).
AcceptedDataIsKept ==
    Downloading \/ result = "ok" => StoredPrefix(offset_)

\* What the erasure on demand needs: the first halfword of a page tells
\* whether the page is used.
Regular(mem) ==
    \A a \in Cells : a % PageSize = 0 =>
        \/ mem[a] # FF \/ mem[a + 1] # FF
        \/ \A b \in Cells : PageOf(b) = PageOf(a) => mem[b] = FF

\* With it the promise is kept, for chunks of any even length that cross
\* pages as they like: a page is erased before its first byte is programmed
\* and never again in that download.
AcceptedDataIsKeptIfRegular == Regular(before) => AcceptedDataIsKept

\* 1K of the flash is set aside "for configs" (src/ld.ld:26): an image
\* that leaves it alone should not change it.  The code does not keep this,
\* since that kilobyte shares its page with the end of the image space.
ConfigSurvivesUpgrade ==
    Len(file) <= ConfigStart =>
        \A a \in ConfigStart .. FlashEnd - 1 : flash[a] = before[a]

\* It holds of the images that end before the page of the configuration:
\* neither the rounding of write() nor the erasures reach a page the image
\* does not.
ConfigSurvivesIfPageIsFree ==
    Len(file) <= PageSize * PageOf(ConfigStart) => ConfigSurvivesUpgrade

\* The assertions of flash_writer.hpp (37, 119) hold for files of even length:
\* addresses are even, and no halfword is programmed that is not erased.  The
\* blank check of an odd chunk does not cover the last byte it programs.
FlashAssertionsHold == Len(file) % 2 = 0 => phase # "halted"

-----------------------------------------------------------------------------
(* Liveness.                                                               *)

\* Every chunk loop ends: each erasure makes progress, whatever the pages
\* hold and however chunks and pages overlap (flash_writer.hpp:157-185).
DownloadEnds == phase # "off" ~> phase = "off"
=============================================================================
