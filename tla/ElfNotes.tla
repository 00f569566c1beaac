------------------------------ MODULE ElfNotes ------------------------------
(***************************************************************************)
(* The notes of a dump: class Vmcoreinfo (src/kdumptool/vmcoreinfo.cc)     *)
(* looks for VMCOREINFO, which tells the time of the crash and the release *)
(* of the kernel, and Util::isXenCoreDump (util.cc) for a note of Xen.     *)
(*                                                                         *)
(* A dump is a record                                                      *)
(*   elf, class    whether libelf accepts it, and "32", "64" or "none"     *)
(*   mapped        whether mmap() works; /proc/vmcore has to be read       *)
(*   size, headers the length of the file and the end of its program       *)
(*                 headers, in KiB                                         *)
(*   segments      sequence of [type, notes, cut]: the last `cut` bytes of *)
(*                 the notes are not part of the segment; below 0: the     *)
(*                 file ends before the segment does                       *)
(* A note is [name, namesz, descsz, lines]; namesz counts the zero byte.   *)
(***************************************************************************)
EXTENDS Integers, Sequences, SequencesExt, FiniteSetsExt

Header == 12            \* sizeof(Elf64_Nhdr) = sizeof(Elf32_Nhdr)
VmcoreinfoMap == 100    \* ELF_HEADER_MAPSIZE in vmcoreinfo.cc
XenMap == 128           \* ELF_HEADER_MAPSIZE in util.cc, enlarged on demand

NoRelease == 0          \* the empty text; releases are numbers here, too

Thrown == [kind |-> "throws"]
Undefined == [kind |-> "undefined"]    \* bytes behind the buffer were used

\* altered: no rounding
AlignedNot(n) == n

Aligned(n) == ((n + 3) \div 4) * 4

(* ---- the bytes of a segment ---- *)

\* Where the notes begin; the format rounds each part up to four bytes
Offset(notes, i) ==
    FoldFunctionOnSet(+, 0, [k \in DOMAIN notes |->
        Header + ((notes[k].namesz + 3) \div 4) * 4 + ((notes[k].descsz + 3) \div 4) * 4], 1..(i - 1))

Bytes(segment) == Offset(segment.notes, Len(segment.notes) + 1) - segment.cut

\* the note at an offset; {} if no note begins there
At(notes, offset) == {notes[i] : i \in {k \in DOMAIN notes : Offset(notes, k) = offset}}

After(note) == Header + Aligned(note.namesz) + Aligned(note.descsz)

(* ---- Vmcoreinfo::readVmcoreinfoFromNotes ---- *)

\* The names are compared with their zero bytes.  VMCOREINFO ends the search,
\* the last VMCOREINFO_XEN before it counts if there is none.  Nothing is
\* checked against the size but the offset of a note.
RECURSIVE FromNotes(_, _, _)

FromNotes(segment, offset, best) ==
    LET size == Bytes(segment)
    IN  IF offset >= size THEN best
        ELSE LET here == At(segment.notes, offset)
                 note == CHOOSE n \in here : TRUE
                 found == IF offset + Header + Aligned(note.namesz) + note.descsz > size
                          THEN Undefined
                          ELSE [kind |-> "found", lines |-> note.lines,
                                xen |-> note.name = "VMCOREINFO_XEN" \/ best.kind = "found"]
             IN  IF here = {} \/ offset + Header + note.namesz > size THEN Undefined
                 ELSE CASE note.name = "VMCOREINFO" -> found
                        [] note.name = "VMCOREINFO_XEN" ->
                             FromNotes(segment, offset + After(note), found)
                        [] OTHER -> FromNotes(segment, offset + After(note), best)

(* ---- Vmcoreinfo::readElfNote ---- *)

\* only the first PT_NOTE segment
ReadElfNote(dump) ==
    LET first == SelectInSeq(dump.segments, LAMBDA s : s.type = "PT_NOTE")
        segment == dump.segments[first]
    IN  IF \/ ~dump.mapped /\ dump.size < VmcoreinfoMap    \* read() returns 0
           \/ ~dump.elf \/ dump.class = "none"
           \/ dump.headers > VmcoreinfoMap                  \* gelf_getphdr
           \/ first = 0
           \/ segment.cut < 0                               \* read() comes back short
        THEN Thrown ELSE FromNotes(segment, 0, Thrown)

(* ---- Vmcoreinfo::readFromELF: the lines "key=value" ---- *)

\* of equal keys the last one
ReadFromELF(lines) ==
    FoldLeft(LAMBDA map, line : IF line.key = "" THEN map
                                ELSE [k \in DOMAIN map \cup {line.key} |->
                                        IF k = line.key THEN line.value ELSE map[k]],
             <<>>, lines)

\* Times are in units of 2^16 seconds.  getLLongValue() returns an int.
GetLLongValue(value) == ((value + 2^15) % 2^16) - 2^15

(* ---- SaveDump::fillVmcoreinfo ---- *)

Value(map, key, default) == IF key \in DOMAIN map THEN map[key] ELSE default

\* given: the release on the command line
FillVmcoreinfo(dump, given, now) ==
    LET note == ReadElfNote(dump)
        map  == ReadFromELF(note.lines)
    IN  IF note.kind # "found" THEN note
        ELSE [kind |-> "filled",
              time |-> IF "CRASHTIME" \in DOMAIN map THEN GetLLongValue(map["CRASHTIME"]) ELSE now,
              release |-> IF given # NoRelease THEN given ELSE Value(map, "OSRELEASE", NoRelease)]

(* ---- FindElfNoteByName ---- *)

\* with or without its zero byte; a note that does not fit ends the search
RECURSIVE FindElfNoteByName(_, _, _)

FindElfNoteByName(segment, offset, name) ==
    LET here == At(segment.notes, offset)
        note == CHOOSE n \in here : TRUE
    IN  /\ here # {}
        /\ offset + After(note) <= Bytes(segment)
        /\ \/ note.name = name
           \/ FindElfNoteByName(segment, offset + After(note), name)

(* ---- Util::isXenCoreDump ---- *)

Answer(xen) == [kind |-> "answer", xen |-> xen]

\* The file is mapped again if its program headers do not fit; where it must
\* be read instead, the second read() goes on where the first one ended
IsXenCoreDump(dump) ==
    LET notes == SelectSeq(dump.segments, LAMBDA s : s.type = "PT_NOTE")
        hit   == SelectInSeq(notes, LAMBDA s : s.cut >= 0 /\ FindElfNoteByName(s, 0, "Xen"))
        short == SelectInSeq(notes, LAMBDA s : s.cut < 0)
    IN  IF ~dump.elf THEN Answer(FALSE)
        ELSE IF \/ dump.class = "none"
                \/ ~dump.mapped /\ dump.headers > XenMap
                \/ short # 0 /\ (hit = 0 \/ short < hit)
        THEN Thrown ELSE Answer(hit # 0)

(* ---- what save_dump relies on ---- *)

\* one segment of notes, whole, as /proc/vmcore has
Regular(dump) ==
    /\ dump.elf /\ dump.class # "none"
    /\ dump.headers <= VmcoreinfoMap /\ dump.size >= VmcoreinfoMap
    /\ Cardinality({i \in DOMAIN dump.segments : dump.segments[i].type = "PT_NOTE"}) = 1
    /\ \A i \in DOMAIN dump.segments : dump.segments[i].cut = 0

Notes(dump) == UNION {ToSet(s.notes) : s \in {t \in ToSet(dump.segments) : t.type = "PT_NOTE"}}

(***************************************************************************)
(* The note is found wherever it stands between others, however long the   *)
(* names and descriptions before it are (vmcoreinfo.cc:267-272,            *)
(* util.cc:181-194): a dump with VMCOREINFO gives the time and the release *)
(* that the kernel wrote there, both of one note and the last of equal     *)
(* keys, the time up to the year 2038 (vmcoreinfo.cc:304).  A missing time *)
(* is that of the call, and a release on the command line is kept          *)
(* (savedump.cc:464-477).  A dump is taken for one of Xen if it has a note *)
(* of Xen.  A second segment of notes is not looked at                     *)
(* (vmcoreinfo.cc:164), and program headers beyond the part that is mapped *)
(* throw (util.cc:220).                                                    *)
(***************************************************************************)
Written(note, key, default) ==
    LET places == {i \in DOMAIN note.lines : note.lines[i].key = key}
    IN  IF places = {} THEN default ELSE note.lines[Max(places)].value

NotesAreFound(dump) ==
    LET infos == {n \in Notes(dump) : n.name = "VMCOREINFO"}
        early == \A n \in infos : Written(n, "CRASHTIME", 0) < 2^15
    IN  Regular(dump) =>
          /\ IsXenCoreDump(dump) = Answer(\E n \in Notes(dump) : n.name = "Xen")
          /\ FillVmcoreinfo(dump, NoRelease, -1).kind # "undefined"
          /\ infos # {} /\ early =>
               \A given \in {NoRelease, 500} :
                 \E n \in infos :
                   FillVmcoreinfo(dump, given, -1) =
                     [kind |-> "filled", time |-> Written(n, "CRASHTIME", -1),
                      release |-> IF given # NoRelease THEN given
                                  ELSE Written(n, "OSRELEASE", NoRelease)]
=============================================================================
