---------------------------- MODULE MCAlgorithms ----------------------------
(* The algorithms that work on one input: each state is one input. *)
EXTENDS CanonicalPath, KernelImage

CONSTANTS ChunkAdd, LineSize, Base, Chunk

C == INSTANCE Calibrate
M == INSTANCE Mounts
T == INSTANCE CommandLine
D == INSTANCE DeviceTimeout
N == INSTANCE ElfNotes
K == INSTANCE KernelConfig
U == INSTANCE Urls
P == INSTANCE Multipath
S == INSTANCE SftpPacket

VARIABLE input

Nothing == [kind |-> "none"]

(* ---- calibrate ---- *)

Row(nested, start, end, name) == [nested |-> nested, start |-> start, end |-> end, name |-> name]

Ram(start, next) == Row(FALSE, C!MB(start), C!MB(next) - 1, "System RAM")

Kernel == Row(TRUE, C!MB(16), C!MB(32) - 1, "Kernel code")

\* small, usual with and without memory above 4 GiB, full below, in pieces
Iomems == {<<Ram(0, 1), Ram(1, 192)>>,
           <<Ram(0, 1), Row(FALSE, C!MB(1), C!MB(2) - 1, "Reserved"), Ram(2, 3071), Kernel>>,
           <<Ram(0, 1), Ram(1, 3071), Kernel, Ram(4096, 16384)>>,
           <<Ram(0, 1), Ram(1, 3071), Ram(4096, 4200)>>,
           <<Ram(0, 1), Ram(1, 100), Ram(120, 180), Ram(4096, 4300), Ram(4400, 131072)>>}

Slot(key, value) == [key |-> key, value |-> value]

Dumps == {<<>>, <<<<Slot("Memory", C!MB(1024)), Slot("Threads", 4)>>,
                  <<Slot("Memory", 64), Slot("Memory", C!MB(512))>>, <<Slot("UUID", 1)>>>>}

Configs == {[netconfig |-> n, savedir |-> d, smtp |-> x, mailto |-> x, dumplevel |-> l, format |-> "elf"] :
              n \in {"", "auto", "eth0"}, d \in {<<"file">>, <<"file", "nfs">>, <<"bad">>},
              x \in BOOLEAN, l \in {0, 31}}

Machines == [kind: {"machine"}, arch: DOMAIN C!Platform, hyper: {"none", "domu"}, ram: {C!SystemRam(t) : t \in Iomems},
             fb: {C!Unreadable, <<3072>>, <<8100, 3072>>},
             luks: {C!Unreadable} \cup Dumps,
             slabs: {<<[const |-> TRUE, size |-> 1023], [const |-> FALSE, size |-> 77777]>>},
             cpus: {C!NoCpus, <<<<0, 3>>, <<8, 8>>>>}, offline: {<<>>}, nr: {0}, config: Configs]
            \cup [kind: {"machine"}, arch: {"x86_64", "ppc64"}, hyper: {"none"}, ram: {C!SystemRam(t) : t \in Iomems},
                  fb: {<<3072>>}, luks: Dumps, slabs: {C!Unreadable},
                  cpus: {C!NoCpus, <<<<0, 0>>>>, <<<<0, 1>>, <<4, 4>>, <<6, 9>>>>, <<<<2, 2>>, <<4, 4>>>>},
                  offline: {<<>>, <<<<10, 11>>, <<63, 63>>>>}, nr: {0, 1}, config: {c \in Configs : c.netconfig = "auto" /\ c.mailto}]

(* ---- mount points ---- *)

Entry(target, source, type, use) == [target |-> target, source |-> source, type |-> type, use |-> use]

Entries == {Entry(<<"/", "a">>, "sdb", "ext4", "fs"), Entry(<<"/", "a", "b">>, "sdc", "btrfs", "fs"),
            Entry(<<"/", "a", "/", "b">>, "sdc", "btrfs", "fs"), Entry(<<"/", "a">>, "md0", "ext4", "fs"),
            Entry(<<"/", "a", "/", "b">>, "none", "proc", "pseudo")}

Tables(root) == {<<root>>} \cup {<<root, e>> : e \in Entries}
                  \cup {<<e, root>> : e \in Entries}
                  \cup {<<root, d, e>> : d, e \in Entries}

Hosts == [kind: {"host"}, kernel: Tables(Entry(<<"/">>, "/dev/root", "ext4", "fs")),
          fstab: {<<>>} \cup Tables(Entry(<<"/">>, "sda", "ext4", "fs")),
          btrfs: {<<"sdc", "", "sdd">>}, boot: {"sda"},
          root: {<<>>, <<"sda">>, <<"label">>, <<"8", ":", "1">>, <<"8", ":", "1", ":", "0">>, <<"0", "8", "0", "1">>},
          numbers: {(<<8, 1>> :> "sda") @@ (<<8, 11>> :> "sdb")},
          known: {{"sda", "sdb", "sdc", "sdd", "md0", "/dev/root"}, {"sdb", "sdc", "/dev/root"}},
          holds: {[d \in {"sda", "sdb", "sdc", "sdd", "md0", "/dev/root"} |->
                    {[path |-> d, type |-> "ext4"]} \cup
                    IF d = "md0" THEN {[path |-> "sde", type |-> "crypto_LUKS"]} ELSE {}]}]

(* ---- symbolic links ---- *)

Node(kind, abs, to) == [kind |-> kind, abs |-> abs, to |-> to]

Targets == {<<"b">>, <<"..", "..", "b">>, <<"a", ".">>, <<"b", "..", "..", "a">>}

Nodes == [kind: {"link"}, abs: BOOLEAN, to: Targets] \cup {Node("dir", FALSE, <<>>), Node("file", FALSE, <<>>)}

\* a real root /r with the entries a and b, and the same names at the top
Trees == {(<<"r">> :> Node("dir", FALSE, <<>>)) @@ (<<"r", "a">> :> x) @@ (<<"r", "b">> :> y)
            @@ (<<"a">> :> y) @@ (<<"r", "b", "a">> :> x) : x, y \in Nodes}

Names == {p \in UNION {[1..n -> {"a", "b", "..", "."}] : n \in 1..4} : TRUE}

Trails == [kind: {"trail"}, fs: Trees, root: {<<>>, <<"r">>}, path: Names]

(* ---- the command line ---- *)

Texts(alphabet, n) == UNION {[1..k -> alphabet] : k \in 0..n}

Option(name, value) == [name |-> <<name>>, value |-> value, default |-> <<"0">>, use |-> {"dump"}]

Settings == {<<Option("m", v), Option("n", w)>> :
                v \in Texts({"v", "0", "4", "2", "=", T!Quote, T!Backslash, T!Space, T!Apostrophe}, 4),
                w \in {<<>>, <<"0">>, <<T!Space, T!Apostrophe>>}}

Lines == Texts({"r", "=", "v", T!Quote, T!Space}, 7) \cup Texts({"r", "=", "-", T!Quote, T!Space}, 6)

(* ---- kernel images ---- *)

\* pieces of six bytes, markers of three
Streams == {s \in [len: 0..20, start: {Absent} \cup 1..16, stop: {Absent} \cup 4..18] :
              /\ s.start # Absent => s.start + MagicLen <= s.len
              /\ s.stop # Absent => s.stop + MagicLen <= s.len
              /\ s.start # Absent /\ s.stop # Absent => s.start + MagicLen + GzipHeader < s.stop}

Images == [kind: {"image"}, s: Streams, len: {23}, magic: {Absent} \cup 1..21]

(* ---- time limits for devices ---- *)

Path(name) == <<"/", "dev", "/", "v">> \o name

\* fstab lines with every short value, with a tag and as the name of a device
Values == Texts({"v", "/", "-", ".", "=", "ue", T!Quote, T!Space, T!Backslash}, 3)

Specs == {Path(v) : v \in Values} \cup {<<t, "=">> \o v : t \in {"LABEL", "PARTLABEL", "nfs"}, v \in Values}
           \cup {Path(<<T!Backslash, "0", "4", "0", "v">>)}

Below(spec) == [file |-> <<"/", "kdump", "/", "v">>, spec |-> spec]

Conf(name, text) == [name |-> name, text |-> text]

Valid == <<"r", "=", "4", "2">>

\* values as strtoul() reads them, and some that it does not read to the end
Limits == {Valid \o <<T!Space, "r", "=", T!Quote>> \o v :
             v \in {<<T!Space, T!Space, "4">>, <<"-", "4">>, <<T!Space, "+", "0", "4">>, <<"0", "x", "4", "0">>,
                     <<"0", "x">>, <<"4", T!Space>>, <<T!Space>>, <<"-", T!Space, "4">>, <<"+">>}}

Other == <<"v", "=", "4", T!Space, "r", "=", "0", "4">>

Generators ==
    [kind: {"generator"}, proc: Texts({"r", "=", "4", T!Quote, T!Space}, 5)
                                   \cup {Valid \o <<T!Space>> \o Other} \cup Limits,
     signed: {TRUE}, etc: {{}, {Other}}, fstab: {<<Below(Path(<<>>)), [file |-> <<"/", "v">>, spec |-> Path(<<"r">>)]>>},
     confs: {<<>>, <<Conf(<<"v", ".conf">>, Valid), Conf(<<"v">>, Other)>>}]
    \cup [kind: {"generator"}, proc: {Valid}, signed: BOOLEAN, etc: {{}}, confs: {<<>>}, fstab: {<<Below(s)>> : s \in Specs}]

(* ---- ELF notes ---- *)

Note(name, namesz, descsz, lines) == [name |-> name, namesz |-> namesz, descsz |-> descsz, lines |-> lines]

Line(key, value) == [key |-> key, value |-> value]

\* 40000 * 2^16 seconds: the year 2053
NoteSet == {Note("CORE", 5, 0, <<>>), Note("CORE", 5, 7, <<>>), Note("Xen", 4, 5, <<>>), Note("Xen", 4, 8, <<>>),
            Note("VMCOREINFO_XEN", 15, 10, <<Line("CRASHTIME", 7), Line("OSRELEASE", 412)>>)}
             \cup {Note("VMCOREINFO", 11, 21, l) :
                     l \in {<<>>, <<Line("", 0), Line("CRASHTIME", 24000)>>,
                            <<Line("OSRELEASE", 414), Line("CRASHTIME", 40000)>>,
                            <<Line("CRASHTIME", 1), Line("OSRELEASE", 414), Line("CRASHTIME", 3),
                              Line("OSRELEASE", 415)>>}}

Segment(type, notes, cut) == [type |-> type, notes |-> notes, cut |-> cut]

Layouts == {<<Segment("PT_LOAD", <<>>, 0), Segment("PT_NOTE", n, c)>> :
              n \in UNION {[1..k -> NoteSet] : k \in 0..3}, c \in {0, 1, 20, -1}}
            \cup {<<Segment("PT_NOTE", <<m>>, 0), Segment("PT_NOTE", <<n>>, c)>> :
                    m, n \in NoteSet, c \in {0, -1}}

Shape(elf, class, mapped, size, headers) ==
    [elf |-> elf, class |-> class, mapped |-> mapped, size |-> size, headers |-> headers]

Shapes == {Shape(TRUE, "64", FALSE, 200, 1), Shape(TRUE, "32", TRUE, 90, 1), Shape(TRUE, "64", FALSE, 90, 1),
           Shape(TRUE, "64", TRUE, 200, 140), Shape(TRUE, "64", FALSE, 200, 140),
           Shape(FALSE, "none", TRUE, 200, 1), Shape(TRUE, "none", TRUE, 200, 1)}

Vmcores == {[kind |-> "dump", segments |-> l] @@ s : l \in Layouts, s \in Shapes}

(* ---- options of a kernel ---- *)

OptionValues == {K!Tristate(v) : v \in {"on", "module", "off"}}
                  \cup {K!String(t) : t \in Texts({"y", "4", "#", "=", "-", T!Quote, T!Backslash, T!Space}, 3)}

KOption(name, value) == [name |-> name, value |-> value, digits |-> <<>>]

Integers4 == {[name |-> <<"n">>, value |-> K!Integer(n), digits |-> d] :
                <<n, d>> \in {<<0, <<"0">>>>, <<42, <<"4", "2">>>>, <<-4, <<"-", "4">>>>}}

Kernels == [kind: {"options"},
            options: {<<a, b>> : a \in {KOption(<<"r", "m">>, v) : v \in OptionValues},
                                 b \in Integers4 \cup {KOption(<<"n">>, K!String(<<"v", "v", "v", "v", "v", "v">>))}}]

(* ---- targets of a dump ---- *)

Names2 == Texts({"v", "@", ":", "%", "/", "?", "#"}, 2)

SaveTargets == [kind: {"target"}, scheme: {<<>>, <<"file">>, <<"ftp">>, <<"scp">>, <<"nfs">>, <<"smb">>},
                user: Names2, password: Names2, host: {<<>>, <<"localhost">>, <<"w", "1">>},
                port: {<<>>, <<"2", "1">>}, path: {<<"/">>, <<"/", "v", "@", ":", "?", "#", "1", "%">>}]

(* ---- multipath.conf ---- *)

Opens(name) == <<name, " ", "{", "\n">>

ConfLines == {Opens("blacklist"), Opens("blacklist_exceptions"), Opens("defaults"), <<"#", "blacklist", "{", "\n">>,
              <<" ", "devnode", " ", "\"", "{", "\"", "\n">>, <<"}", "\n">>, <<"}">>}

MultipathConfs == {[kind |-> "conf", text |-> FlattenSeq(l), options |-> o] :
                     l \in UNION {[1..n -> ConfLines] : n \in 0..5}, o \in {<<>>, <<<<"wwid", " ", "v">>>>}}

(* ---- packets of the SFTP upload ---- *)

Bytes == {<<>>, <<1>>, <<1, 2, 3, 0, 2>>}

Requests == [step: {"init", "stat", "mkdir", "open", "close"}, id: {1, 255}, name: Bytes, off: {0}, data: {<<>>}]
              \cup [step: {"write"}, id: {1, 255}, name: Bytes, off: {0, 1027}, data: Bytes]

Bodies == {<<>>, <<0, 0, 0, 0>>, <<0, 0, 0, 2>>, <<0, 0, 0, 0, 0, 0, 0, 1, 7>>, <<0, 0, 0, 1, 9>>}

Replies == [type: {"version", "attrs"}, id: {1, 255}, body: Bodies]
             \cup [type: {"handle", "status"}, id: {1, 255}, body: Bodies \ {<<>>}]

Exchanges == {x \in [kind: {"exchange"}, r: Requests, a: Replies, cut: 0..4] : x.cut <= Len(x.a.body)}

Init == input = Nothing

Calibrated == input = Nothing /\ input' \in Machines
LookedUp == input = Nothing /\ input' \in Hosts
Followed == input = Nothing /\ input' \in Trails
Written == input = Nothing /\ \E s \in Settings : input' = [kind |-> "settings", options |-> s]
Read == input = Nothing /\ \E t \in Lines : input' = [kind |-> "line", text |-> t]
Searched == input = Nothing /\ input' \in Images

Limited == input = Nothing /\ input' \in Generators
Noted == input = Nothing /\ input' \in Vmcores
Configured == input = Nothing /\ input' \in Kernels
Targeted == input = Nothing /\ input' \in SaveTargets
Blacklisted == input = Nothing /\ input' \in MultipathConfs
Exchanged == input = Nothing /\ input' \in Exchanges

Next == \/ Calibrated \/ LookedUp \/ Followed \/ Written \/ Read \/ Searched
        \/ Limited \/ Noted \/ Configured \/ Targeted \/ Blacklisted \/ Exchanged

Spec == Init /\ [][Next]_input

\* What calibrate reserves is enough to boot and to run in, wherever the block is
\* found and whatever could not be read (calibrate.cc:984-1223).
ReservationSuffices == input.kind = "machine" => C!Suffices(input)

\* Every device that holds the save directory is given to lsblk, from both mount
\* tables and for the root device, too (mounts.cc:138-522).
DevicesCovered ==
    input.kind = "host" =>
        \A p \in {<<"/", "a", "/", "b">>, <<"/", "a", "b">>, <<"/", "b">>}, n \in 0..2 :
            M!Covered(input, [k \in 1..n |-> <<"/", "b">>], p)

\* What dumpconfig writes on the kernel command line is read back by the kdump
\* initrd, and by a shell (dumpconfig.cc:129-165, quotedstring.cc:37-101,
\* configparser.cc:132-203).
OptionsReadBack ==
    input.kind = "settings" => \A n \in BOOLEAN : T!ReadsBack(input.options, {"dump"}, n)

\* The three readers of a command line (configparser.cc:132-203, mounts.cc:312-345,
\* device-timeout-generator.c:111-158) find the same words and values.
ReadersAgree == input.kind = "line" => T!Agree(input.text, <<"r">>)

\* The configuration in a kernel image is found, wherever it lies in the pieces
\* that are read (kerneltool.cc:447-670).
ConfigExtracted == input.kind = "image" => MarkersFound(input.s, input.len, input.magic)

\* Every option of a kernel configuration is read as it was written, from a file or
\* from the image (kconfig.cc:57-277, kerneltool.cc:419-444).
OptionsAreRead == input.kind = "options" => K!OptionsAreRead(input.options)

\* The time limit of the command line ends up in the unit of every device that
\* fstab mounts below /kdump (device-timeout-generator.c:160-501).
TimeoutsApply == input.kind = "generator" => D!Applies(input)

\* The note VMCOREINFO and its values, and whether it is a Xen dump, are found in
\* any order of notes and segments (vmcoreinfo.cc:61-307, util.cc:142-313).
NotesAreFound == input.kind = "dump" => N!NotesAreFound(input)

\* A URL is taken apart as it was put together (urlparser.cc:37-227).
UrlsMeanTargets == input.kind = "target" => U!MeansTarget(input)

\* Requests of the SFTP upload are read by the server as they are meant, and only a
\* reply that says so counts as success (sshtransfer.cc:273-349, 461-691).
PacketsAreRead ==
    input.kind = "exchange" =>
        \A next \in {<<>>, S!Reply("status", 3, <<0, 0, 0, 1>>)} :
            S!PacketsAreRead(input.r, input.a, next, input.cut)

\* multipath.conf means what it meant before, and everything but the devices that
\* are needed is on its blacklist (multipath.cc:39-251).
MultipathKeepsFile == input.kind = "conf" => P!KeepsFile(input.text, input.options)

\* The canonical path names the file that the kernel would find below the root
\* directory (fileutil.cc:225-302).
CanonicalFollowsLinks ==
    input.kind = "trail" => FollowsLinks(input.fs, input.root, input.path)
=============================================================================
