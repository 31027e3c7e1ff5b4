--------------------------- MODULE MCImageLocator ----------------------------
(* What downloads of images made by the script leave in the storage.  A word   *)
(* is a kind and an argument; the CRC is ideal, it stands for its argument.    *)
EXTENDS FirmwareImage

Code == <<"code", 0>>
Data == <<"data", 0>>
Erased == <<"erased", 0>>
MCSignature == <<"APDesc00", 0>>
MCZero == <<"zero", 0>>
MCPart == <<"part", 0>>
MCPartAndFF == <<"part and FF", 0>>
MCVersions == <<"versions", 0>>
MCSizeWord(bytes) == <<"size", bytes>>
MCCrc(added) == <<"crc", added>>

\* Code and data are of no use as a size.
MCImageSize(w) == IF w[1] = "size" THEN w[2] ELSE IF w = MCZero THEN 0 ELSE 1

Linked == <<MCSignature, MCZero, MCZero, MCVersions>>

\* In front of the descriptor: code, the signature as data, what looks like a
\* descriptor with a CRC, a size and other bytes behind.
Before == {<<Code>>, <<Code, Data>>, <<MCSignature, Data>>,
           <<MCSignature, Data, MCSizeWord(16), Data>>}

\* Behind it: enough for one more, a part of a word, as much as fits and more.
After == {<<Data>>, <<Code, MCPart>>, <<MCSignature, Data>>,
          <<Data, MCSignature, Data, MCSizeWord(8), MCVersions>>,
          <<Code, Code, Data, Data, Code, Data>>,
          <<Code, Code, Data, Data, Code, Data, Data>>}

\* A small image, as the script makes it (6 words).
Old == LET crc0 == <<Code, MCSignature, MCZero, MCSizeWord(48), MCVersions, Data>>
       IN  [crc0 EXCEPT ![3] = MCCrc([a \in 0 .. 5 |-> crc0[a + 1]])]

\* Also images that have it as data, before and behind their own descriptor.
MCFiles == {b \o Linked \o a : b \in Before, a \in After}
           \cup {<<Code>> \o Linked \o Old, <<Data>> \o Old \o <<Data>>}

\* The first words of one, then the remains of another or blank flash.
MCStorages ==
    LET Word(m, a, rest) == IF a < Len(m) THEN m[a + 1] ELSE rest
        Cells == 0 .. StorageSize - 1
        Remains == {[a \in Cells |-> Word(m, a, Erased)] : m \in Images \cup {<<>>}}
    IN  {[a \in Cells |-> Word(SubSeq(m, 1, LeastOf(k, Len(m))), a, old[a])] :
            m \in Images, k \in 0 .. StorageSize, old \in Remains}

MCWords == UNION {{s[a] : a \in DOMAIN s} : s \in MCStorages}
=============================================================================
