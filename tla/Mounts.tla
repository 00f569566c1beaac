------------------------------- MODULE Mounts -------------------------------
(***************************************************************************)
(* The devices under a path (src/kdumptool/mounts.cc, mounts.h): which     *)
(* mount point a path belongs to, which block devices hold that file       *)
(* system, and what lsblk says of them.  calibrate asks for the devices of *)
(* the save directories, because LUKS devices cost memory to open.         *)
(*                                                                         *)
(* A path is a sequence of characters, because mount points are compared   *)
(* as strings; paths are canonical.  A host is a record                    *)
(*   kernel, fstab  the mount tables: sequences of [target, source, type,  *)
(*                  use], use = "fs", "pseudo" or "swap"; fstab may be <<>>*)
(*   btrfs          devices of the btrfs file system; "" if one is missing *)
(*   root           the value of root= on the command line, as characters  *)
(*                  or one name; <<>> if there is none                     *)
(*   boot           the device that the boot loader means by it            *)
(*   numbers        the devices by number: /dev/block/major:minor          *)
(*   known          specifications (LABEL=, /dev/...) that resolve         *)
(*   holds          for each device what lsblk --inverse lists: a set of   *)
(*                  [path, type]; other names make lsblk fail              *)
(***************************************************************************)
EXTENDS Naturals, Sequences, SequencesExt, FiniteSetsExt

None == "none"       \* a specification that does not resolve
DevRoot == "/dev/root"

(* ---- class MountTable ---- *)

\* string comparison over the length of the mount point
Covers(target, path) == IsPrefix(target, path)

\* The longest one, the last of equals; 0 if there is none
FindMount(table, path) ==
    LET fits == {i \in DOMAIN table : table[i].use = "fs" /\ Covers(table[i].target, path)}
        longest == {i \in fits : \A j \in fits : Len(table[j].target) <= Len(table[i].target)}
    IN  Max({0} \cup longest)

\* The entry of the one table or of the other: none or one of them. That of the
\* kernel is taken if its name is longer by the margin.
Best(host, path, margin) ==
    LET k == FindMount(host.kernel, path)
        f == FindMount(host.fstab, path)
    IN  IF k # 0 /\ (f = 0 \/ Len(host.kernel[k].target) >= Len(host.fstab[f].target) + margin)
        THEN {host.kernel[k]}
        ELSE {host.fstab[i] : i \in {f} \ {0}}

\* altered: the kernel's entry wins also when both are equally long
PathMountPointLive(host, path) == Best(host, path, 0)

\* Of both tables the longer one, of equals the one in fstab
PathMountPoint(host, path) == Best(host, path, 1)

(* ---- class PathResolver ---- *)

Digits == {"0", "1", "8"}
HexDigits == Digits \cup {"b"}

Number(text, base) ==
    LET digit == [c \in HexDigits |-> CASE c = "0" -> 0 [] c = "1" -> 1 [] c = "8" -> 8 [] c = "b" -> 11]
    IN  FoldLeft(LAMBDA n, c : base * n + digit[c], 0, text)

IsNumber(text, digits) == text # <<>> /\ ToSet(text) \subseteq digits

\* the name of a link that may be missing
Block(host, major, minor) ==
    IF <<major, minor>> \in DOMAIN host.numbers THEN host.numbers[<<major, minor>>]
    ELSE "/dev/block/0:0"

Colon(text) == SelectInSeq(text, LAMBDA c : c = ":")

\* "major:minor", maybe with a third number that is not used
MajMin(text) ==
    LET pos == Colon(text)
        devmajor == SubSeq(text, 1, pos - 1)
        after == SubSeq(text, pos + 1, Len(text))
        end == Colon(after)
        devminor == IF end = 0 THEN after ELSE SubSeq(after, 1, end - 1)
    IN  IF /\ pos # 0 /\ IsNumber(devmajor, Digits) /\ IsNumber(devminor, Digits)
           /\ end # 0 => IsNumber(SubSeq(after, end + 1, Len(after)), Digits)
        THEN <<Number(devmajor, 10), Number(devminor, 10)>>
        ELSE <<>>

\* major() and minor() of a number with one byte for each
HexHex(text) ==
    IF IsNumber(text, HexDigits)
    THEN <<Number(text, 16) \div 256, Number(text, 16) % 256>>
    ELSE <<>>

Known(host, spec) == IF spec \in host.known THEN spec ELSE None

\* What is not a device number is a name to resolve; without root= it stays.
\* m_devroot is static: if the name was tried before, what is in there is taken,
\* which is the name itself if resolving it threw.
SystemRoot(host, tried) ==
    LET dev == IF MajMin(host.root) # <<>> THEN MajMin(host.root) ELSE HexHex(host.root)
    IN  IF host.root = <<>> THEN DevRoot
        ELSE IF dev # <<>> THEN Block(host, dev[1], dev[2])
        ELSE IF tried THEN host.root[1] ELSE Known(host, host.root[1])

\* /dev/root is no device: the command line tells which one it is
Resolve(host, spec, tried) ==
    IF spec \in host.known /\ spec = DevRoot THEN SystemRoot(host, tried)
    ELSE Known(host, spec)

(* ---- class FilesystemTypeMap ---- *)

\* a directory is below a mount point by whole names
Below(target, path) ==
    \/ target = <<"/">>
    \/ IsPrefix(target, path) /\ (Len(path) = Len(target) \/ path[Len(target) + 1] = "/")

\* the deepest mount points of a table that are over a path
Deepest(table, path) ==
    LET over == {e \in ToSet(table) : e.use = "fs" /\ Below(e.target, path)}
    IN  {e \in over : \A d \in over : Len(d.target) <= Len(e.target)}

\* the ioctls of class Btrfs ask the file system that is mounted now
IsBtrfs(host, target) == \A e \in Deepest(host.kernel, target) : e.type = "btrfs"

\* The sources that addPath() inserts; a device that does not resolve throws,
\* after the devices before it have been inserted
Sources(host, path, tried) ==
    LET devs == SelectSeq(host.btrfs, LAMBDA d : d # "")
        good == {n \in 0..Len(devs) : \A i \in 1..n : Resolve(host, devs[i], tried) # None}
    IN  UNION {IF mnt.type # "btrfs" THEN {Resolve(host, mnt.source, tried)} \ {None}
               ELSE IF IsBtrfs(host, mnt.target)
                    THEN {Resolve(host, devs[i], tried) : i \in 1..Max(good)}
               ELSE {} : mnt \in PathMountPoint(host, path)}

OnDevRoot(host, path) ==
    \E mnt \in PathMountPoint(host, path) : mnt.type # "btrfs" /\ mnt.source = DevRoot

\* One path after the other; what one of them throws is ignored
AddPaths(host, paths) ==
    UNION {Sources(host, paths[n], \E k \in 1..(n - 1) : OnDevRoot(host, paths[k])) :
             n \in DOMAIN paths}

\* lsblk gets all sources at once, and one that it does not know discards all
Devices(host, paths) ==
    LET sources == AddPaths(host, paths)
    IN  IF sources \subseteq DOMAIN host.holds THEN UNION {host.holds[s] : s \in sources} ELSE {}

(* ---- what calibrate relies on ---- *)

Namesake(host, path) ==
    \E e \in ToSet(host.kernel) \cup ToSet(host.fstab) :
        e.use = "fs" /\ IsPrefix(e.target, path) /\ ~Below(e.target, path)

\* The file system that is mounted over the path once all of fstab is
\* mounted: it hides every mount point above it
Really(host, path) ==
    LET wanted == Deepest(host.fstab, path)
        live   == Deepest(host.kernel, path)
    IN  IF wanted # {} /\ (\A w \in wanted, l \in live : Len(w.target) >= Len(l.target))
        THEN wanted ELSE live

\* the devices that hold a file system, if their names resolve to themselves
Held(host, e) == IF e.type = "btrfs" THEN ToSet(host.btrfs) \ {""}
                 ELSE IF e.source = DevRoot /\ host.root # <<>> THEN {host.boot}
                 ELSE {e.source}

\* root= is something that resolves
RootIsKnown(host) == host.root # <<>> => SystemRoot(host, FALSE) # None

(***************************************************************************)
(* Every device that must be opened for a path is found: lsblk is asked    *)
(* about each device that holds the file system which is really going to   *)
(* be mounted there (mounts.cc:138-158, 193-232, 454-474).  It can fail    *)
(* where a mount point's name is the beginning of another name:            *)
(* /var/crash2 is taken for a directory of /var/crash (mounts.cc:152), and *)
(* for a btrfs file system of fstab that is not mounted now                *)
(* (mounts.cc:463).  The root file system is on the device that root=      *)
(* means, however it is written there (mounts.cc:258-298).  Paths before   *)
(* it do no harm unless one of them is on something that lsblk does not    *)
(* know, which discards every device (mounts.cc:498-502).                  *)
(***************************************************************************)
Covered(host, before, path) ==
    ~Namesake(host, path) /\ AddPaths(host, before) \subseteq DOMAIN host.holds =>
      \A e \in Really(host, path) :
        (/\ Cardinality(Really(host, path)) = 1
         /\ Held(host, e) \subseteq (host.known \cap DOMAIN host.holds) \ {DevRoot}
         /\ DevRoot \in host.known
         /\ e.source = DevRoot => RootIsKnown(host)
         /\ e.type = "btrfs" => IsBtrfs(host, e.target)) =>
            \A d \in Held(host, e) :
              host.holds[d] \subseteq Devices(host, Append(before, path))
=============================================================================
