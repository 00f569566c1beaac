----------------------------- MODULE KernelImage -----------------------------
(***************************************************************************)
(* The configuration inside a kernel image (src/kdumptool/kerneltool.cc):  *)
(* CONFIG_IKCONFIG stores it compressed between two markers.  The image is *)
(* read in pieces into a buffer that starts with the end of the piece      *)
(* before, and each buffer is searched for a marker (Util::findBytes).     *)
(*                                                                         *)
(* A stream is a record [len, start, stop]: its length and the positions   *)
(* of the markers, Absent where there is none.  The buffer is a function   *)
(* from its indices to the positions of the stream whose bytes it holds;   *)
(* Zero is a byte of memset().                                             *)
(***************************************************************************)
EXTENDS Integers, FiniteSetsExt

CONSTANTS BufSize,     \* BUFSIZ
          MagicLen,    \* MAGIC_LEN
          GzipHeader,  \* the bytes between the marker and the deflated data: 10
          ZipMagicLen  \* the bytes of the gzip magic that bzImages are searched for: 4

ASSUME ImageAssumption ==
    /\ {BufSize, MagicLen, GzipHeader, ZipMagicLen} \subseteq Nat \ {0}
    /\ ZipMagicLen <= MagicLen /\ 2 * MagicLen < BufSize

Absent == -1
Zero == -1
Index == 0..(BufSize - 1)

Piece == BufSize - MagicLen

\* findBytes stops before the last place where the bytes would fit
Places(len) == 0..(BufSize - len - 1)

\* the first place of the bytes; -1 if there is none
FindBytes(buffer, marker, len) ==
    LET hits == {i \in Places(len) :
                    marker # Absent /\ \A k \in 0..(len - 1) : buffer[i + k] = marker + k}
    IN  IF hits = {} THEN -1 ELSE Min(hits)

\* The buffer after read() has put n bytes behind the first `front` ones; what
\* was there before stays behind them
Filled(buffer, front, offset, n) ==
    [i \in Index |-> IF i \in front..(front + n - 1) THEN offset + i - front ELSE buffer[i]]

\* altered: the bytes kept begin one too early
MovedEarly(buffer) ==
    [i \in Index |-> IF i < MagicLen THEN buffer[BufSize - MagicLen + i - 1] ELSE buffer[i]]

\* memmove(buffer, buffer + BUFSIZ - MAGIC_LEN, MAGIC_LEN)
Moved(buffer) == [i \in Index |-> IF i < MagicLen THEN buffer[BufSize - MagicLen + i] ELSE buffer[i]]

Least(a, b) == IF a < b THEN a ELSE b

Blank == [i \in Index |-> Zero]

(* ---- both markers, one after the other: none is what stands for "not yet" ---- *)

RECURSIVE Scan(_, _, _, _, _, _)

Scan(s, none, buffer, offset, begin, end) ==
    LET n   == Least(Piece, s.len - offset)
        buf == Filled(buffer, MagicLen, offset, n)
        pos == FindBytes(buf, IF begin = none THEN s.start ELSE s.stop, MagicLen)
        at  == IF pos > 0 THEN offset + pos - MagicLen ELSE none
    IN  IF n <= 0 \/ (begin # none /\ end # none) THEN [begin |-> begin, end |-> end]
        ELSE IF begin = none THEN Scan(s, none, Moved(buf), offset + n, at, end)
        ELSE Scan(s, none, Moved(buf), offset + n, begin, at)

NoConfig == [kind |-> "throws", from |-> 0, to |-> 0]       \* a KError
BadAlloc == [kind |-> "bad alloc", from |-> 0, to |-> 0]  \* new char[-n]

\* the part of the stream that is given to inflate()
Between(s, found) ==
    LET from == found.begin + MagicLen + GzipHeader
    IN  IF found.end < from THEN BadAlloc
        ELSE IF found.end > s.len THEN NoConfig
        ELSE [kind |-> "part", from |-> from, to |-> found.end]

ExtractKernelConfigELF(s) ==
    LET found == Scan(s, -1, Blank, 0, -1, -1)
    IN  IF found.begin < 0 \/ found.end < 0 THEN NoConfig ELSE Between(s, found)

(* ---- bzImage: first the compressed kernel, then the same in its contents ---- *)

\* The piece is read behind four bytes, but eight are kept of the one before;
\* and the offset is tested before it is put right by the difference
RECURSIVE ScanZip(_, _, _, _)

ScanZip(len, magic, buffer, offset) ==
    LET n   == Least(BufSize - ZipMagicLen, len - offset)
        buf == Filled(buffer, ZipMagicLen, offset, n)
        pos == FindBytes(buf, magic, ZipMagicLen)
    IN  IF n <= 0 THEN Absent
        ELSE IF pos > 0
             THEN IF offset + pos = MagicLen THEN Absent ELSE offset + pos - ZipMagicLen
        ELSE ScanZip(len, magic, Moved(buf), offset + n)

\* here 0 stands for "not found", and the test for it is "< 0"
ExtractKernelConfigbzImage(len, magic, s) ==
    IF ScanZip(len, magic, Blank, 0) = Absent THEN NoConfig
    ELSE Between(s, Scan(s, 0, Blank, 0, 0, 0))

(* ---- the text ---- *)

Config(s) == [kind |-> "part", from |-> s.start + MagicLen + GzipHeader, to |-> s.stop]

\* inflate() ends where the compressed data end; there is room for 20 times
\* their length, and the zero byte behind the text is not counted
ExtractFromIKconfigBuffer(s, part, size) ==
    LET room == 20 * (part.to - part.from)
    IN  CASE part.kind # "part" -> part.kind
          [] part.kind = "part" /\ (part.from # Config(s).from \/ part.to < s.stop \/ size > room) -> "throws"
          [] part.kind = "part" /\ size = room -> "overrun"
          [] OTHER -> "text"

\* type: what getKernelType() has found out; size: of the text
ExtractKernelConfig(type, len, magic, s, size) ==
    CASE type \in {"ELF", "ELF gz", "S390", "AARCH64"} ->
           ExtractFromIKconfigBuffer(s, ExtractKernelConfigELF(s), size)
      [] type = "x86" -> ExtractFromIKconfigBuffer(s, ExtractKernelConfigbzImage(len, magic, s), size)
      [] OTHER -> "throws"

(* ---- what is promised ---- *)

\* the piece that brings the last byte of a marker, and whether it ends there:
\* then findBytes stops before it, and in the next buffer it is at place 0,
\* which the code takes for "not found"
PieceOf(marker) == (marker + MagicLen - 1) \div Piece
EndsPiece(marker) == (marker + MagicLen) % Piece = 0

\* the markers are where the search can see them
Visible(s) ==
    /\ s.start # Absent /\ s.stop # Absent
    /\ ~EndsPiece(s.start) /\ ~EndsPiece(s.stop)
    /\ PieceOf(s.start) < PieceOf(s.stop)

(***************************************************************************)
(* "We overlap the reads, that way searching for the pattern is easier"    *)
(* (kerneltool.cc:505): a marker that lies across two pieces is found.     *)
(* The configuration is extracted whenever no marker ends with a piece and *)
(* the second one is in a later piece than the first one; what is          *)
(* extracted always begins where the configuration does, whatever the      *)
(* buffer still held of earlier pieces.  A compressed kernel in a bzImage  *)
(* is found unless its magic lies across or at the end of a piece, since   *)
(* the overlap of that search is wrong (kerneltool.cc:577, 583), or where  *)
(* its offset, not yet put right, is 0 (kerneltool.cc:587).  A text of     *)
(* less than 20 times the compressed length comes out whole                *)
(* (kerneltool.cc:453), and never another one.                             *)
(***************************************************************************)
MarkersFound(s, len, magic) ==
    LET elf == ExtractKernelConfigELF(s)
        zip == ScanZip(len, magic, Blank, 0)
        image == ExtractKernelConfigbzImage(len, magic, s)
        piece == BufSize - ZipMagicLen
    IN  /\ Visible(s) => elf = Config(s) /\ (zip # Absent => image = elf)
        /\ elf.kind = "part" => elf.from = Config(s).from /\ elf.to >= s.stop
        /\ elf.kind # "bad alloc"
        /\ magic \notin {Absent, MagicLen - ZipMagicLen}
              /\ magic \div piece = (magic + ZipMagicLen) \div piece => zip = magic
        /\ zip \in {magic, Absent}
        /\ \A type \in {"ELF", "x86", "none"}, size \in {1, 20, 21, 100} :
             LET text == ExtractKernelConfig(type, len, magic, s, size)
                 fits == size < 20 * (Config(s).to - Config(s).from)
             IN  /\ Visible(s) /\ fits /\ (type = "ELF" \/ (type = "x86" /\ zip # Absent)) => text = "text"
                 /\ text = "text" => s.start # Absent /\ s.stop # Absent /\ type # "none"
=============================================================================
