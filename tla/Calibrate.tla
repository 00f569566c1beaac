------------------------------ MODULE Calibrate ------------------------------
(***************************************************************************)
(* kdumptool calibrate (src/kdumptool/calibrate.cc): how much memory the   *)
(* crash kernel needs and where the reservation goes.                      *)
(*                                                                         *)
(* Sizes and addresses are in KiB: a range of System RAM is a record with  *)
(* its first address and the address after its last one, in the order of   *)
(* /proc/iomem.  Every operator is one step of Calibrate::execute(); a     *)
(* machine is a record of what the step finds:                             *)
(*   arch   a name of Platform                                             *)
(*   hyper  "none", "hvm", "dom0", "domu"                                  *)
(*   ram    sequence of ranges                                             *)
(*   fb     sizes of the framebuffers, or Unreadable                       *)
(*   luks   what luksDump says of each LUKS device: a sequence of          *)
(*          [key, value]; or Unreadable                                    *)
(*   slabs  sequence of [const, size], or Unreadable                       *)
(*   cpus   the online CPUs: a sequence of ranges <<first, last>>, or      *)
(*          NoCpus; offline, the same for those that are not               *)
(*   nr     KDUMP_CPUS                                                     *)
(*   config what needsNetwork() and needsMakedumpfile() look at            *)
(* The products of the code are reduced by their common factors, which     *)
(* changes no quotient: all values stay inside TLC's integers.             *)
(***************************************************************************)
EXTENDS Integers, Sequences, SequencesExt, FiniteSetsExt

Unreadable == <<-1>>         \* the step threw a KError
NoCpus == <<<<-1, -1>>>>     \* the file cannot be read
NotFound == -1               \* ~0ULL, the result of MemMap::find
Overflown == 2^30            \* stands for a 32-bit number that wrapped below 0

MB(x) == x * 1024
GB(x) == x * 1024 * 1024

\* shr_round_up: n in units, the last one begun counts
RoundUp(n, unit) == (n + unit - 1) \div unit

(* ---- what differs between architectures ---- *)

\* page: sizeof(struct page); section: granularity of the memmap in pages
Arch(reserve, kernel, kinit, init, net, page, load, word, pagesize, section) ==
    [reserve |-> MB(reserve), kernel |-> MB(kernel), kinit |-> kinit,
     init |-> MB(init), net |-> MB(net), page |-> page, load |-> MB(load),
     word |-> word, pagesize |-> pagesize, section |-> section]

Platform ==
    [x86_64  |-> Arch(192, 38, MB(5), 51, 3, 64,   0, 64,  4096,  1),
     i386    |-> Arch(192, 34, MB(4), 44, 2, 36,   0, 32,  4096,  1),
     ppc64   |-> Arch(384, 38, MB(5), 87, 4, 64, 128, 64, 65536,  1),
     powerpc |-> Arch(192, 29, MB(5), 51, 2, 36, 128, 32,  4096,  1),
     s390x   |-> Arch(192, 31,   512, 51, 2, 64,   0, 64,  4096, 64),
     s390    |-> Arch(192, 29,   512, 44, 2, 36,   0, 32,  4096,  8),
     ia64    |-> Arch(768, 77, MB(3), 66, 4, 64,   0, 64, 16384,  1),
     aarch64 |-> Arch(192, 31, MB(1), 51, 3, 64,   0, 64,  4096,  1),
     arm     |-> Arch(192, 29, MB(1), 44, 2, 36,   0, 32,  4096,  1)]

\* PERCPU_KB: "additional kernel memory for each online CPU"
PerCpu(arch) ==
    CASE arch = "x86_64" -> 108 [] arch = "i386" -> 56 [] arch = "ppc64" -> 172
      [] arch = "s390x" -> 48 [] OTHER -> 0

\* DEF_FRAMEBUFFER_KB: 1024 x 768 at 32 bits, none on a mainframe
DefFramebuffer(arch) == IF arch \in {"s390", "s390x"} THEN 0 ELSE 768 * 4

\* INITRD_COMPRESS: the compressed initrd has half the size of its contents
Initrd(ramfs) == (ramfs * 50) \div 100

\* Default boot-time requirement: with the network
DefBootsize(p) == p.kernel + p.kinit + p.init + p.net + Initrd(p.init + p.net)

(* ---- configuration.cc ---- *)

\* the first target that is no local file decides; a bad URL ("bad") throws
FirstRemote(c) == SelectSeq(c.savedir, LAMBDA u : u # "file")

BadTarget(c) ==
    c.netconfig = "auto" /\ FirstRemote(c) # <<>> /\ Head(FirstRemote(c)) = "bad"

NeedsNetwork(c) ==
    /\ c.netconfig # ""
    /\ \/ c.netconfig # "auto"
       \/ FirstRemote(c) # <<>>
       \/ c.smtp /\ c.mailto

NeedsMakedumpfile(c) == c.dumplevel # 0 \/ c.format \notin {"none", "elf"}

(* ---- class MemMap ---- *)

\* The lines of /proc/iomem that are not indented and say "System RAM"
SystemRam(iomem) ==
    LET rows == SelectSeq(iomem, LAMBDA r : ~r.nested /\ r.name = "System RAM")
    IN  [i \in DOMAIN rows |-> [start |-> rows[i].start, next |-> rows[i].end + 1]]

Total(ram) == FoldSet(LAMBDA i, t : t + ram[i].next - ram[i].start, 0, DOMAIN ram)

\* the largest block below a limit
Largest(ram, limit) ==
    Max({0} \cup {(IF r.next <= limit THEN r.next ELSE limit) - r.start :
                    r \in {ram[i] : i \in {j \in DOMAIN ram : ram[j].start < limit}}})

\* the highest aligned place of a block in a range
Place(r, size, align) == (r.next - size) - ((r.next - size) % align)

Fits(r, size, align) == r.next >= size /\ Place(r, size, align) >= r.start

\* the last range that has room gives the place
Find(ram, size, align) ==
    LET rooms == {i \in DOMAIN ram : Fits(ram[i], size, align)}
    IN  IF rooms = {} THEN NotFound ELSE Place(ram[Max(rooms)], size, align)

(* ---- class SystemCPU ---- *)

Num(n) == [num |-> n]
Delim(c) == [delim |-> c]

IsNum(t) == "num" \in DOMAIN t

\* at: the next token; -1 if the format is wrong
RangeAt(text, at) ==
    LET is(i, c) == i <= Len(text) /\ text[i] = Delim(c)
        range == is(at + 1, "-")
        end   == IF range THEN at + 2 ELSE at
    IN  IF end > Len(text) \/ ~IsNum(text[end]) THEN [at |-> -1, n |-> 0]
        ELSE [at |-> IF end = Len(text) THEN end + 1 ELSE IF is(end + 1, ",") THEN end + 2 ELSE -1,
              n  |-> text[end].num - text[at].num + 1]

\* "0-3,5": the numbers of the ranges' elements
Count(text) ==
    LET step(acc, i) ==
          IF acc.at # i THEN acc
          ELSE IF ~IsNum(text[i]) THEN [at |-> -1, n |-> 0]
          ELSE LET r == RangeAt(text, i) IN [at |-> r.at, n |-> acc.n + r.n]
        end == FoldLeft(step, [at |-> 1, n |-> 0], [i \in DOMAIN text |-> i])
    IN  IF end.at = -1 THEN -1 ELSE end.n

\* /sys/devices/system/cpu/online: a range of one CPU is a number
Listed(cpus) ==
    LET range(r) == IF r[1] = r[2] THEN <<Num(r[1])>> ELSE <<Num(r[1]), Delim("-"), Num(r[2])>>
    IN  FlattenSeq([i \in DOMAIN cpus |-> IF i = 1 THEN range(cpus[i]) ELSE <<Delim(",")>> \o range(cpus[i])])

\* On ppc64 and ppc the crash kernel cannot run with fewer CPUs
CountsCpus(m) == m.arch \in {"ppc64", "powerpc"} \/ m.nr = 0

\* "Total assumed CPUs"
Cpus(m) == IF CountsCpus(m) THEN Count(Listed(m.cpus)) + Count(Listed(m.offline)) ELSE m.nr

(* ---- what is allocated at run time ---- *)

Framebuffers(m) ==
    IF m.fb = Unreadable THEN 2 * DefFramebuffer(m.arch)
    ELSE 2 * FoldSet(LAMBDA i, t : t + m.fb[i], 0, DOMAIN m.fb)

\* the hungriest key slot of a LUKS device; older headers have no such line
CryptInfo(dump) == Max({0} \cup {dump[i].value : i \in {j \in DOMAIN dump : dump[j].key = "Memory"}})

\* Devices are opened one after the other: the hungriest decides.  Any
\* failure (lsblk, cryptsetup) leaves nothing at all.
CryptoMemory(m) == IF m.luks = Unreadable THEN 0
                   ELSE Max({0} \cup {CryptInfo(m.luks[i]) : i \in DOMAIN m.luks})

\* Acpi-* and ftrace_* caches are as large in the crash kernel as here; the
\* table is read as a whole before anything is added
ConstantSlabs(m) ==
    IF m.slabs = Unreadable THEN 0
    ELSE FoldSet(LAMBDA i, t : t + m.slabs[i].size, 0,
                 {i \in DOMAIN m.slabs : m.slabs[i].const})

Ramfs(p, c) == p.init + (IF NeedsNetwork(c) THEN p.net ELSE 0)

Bootsize(p, c) ==
    LET r == Ramfs(p, c)
    IN  IF BadTarget(c) THEN DefBootsize(p)
        ELSE p.kernel + p.kinit + Initrd(r) + r

Userspace(p, m) ==
    LET total == Total(m.ram)
        bitmap == RoundUp(total \div p.pagesize, 4)
    IN  MB(56) + (IF NeedsNetwork(m.config) THEN MB(10) ELSE 0)
        + IF ~NeedsMakedumpfile(m.config) THEN 0
          ELSE (IF bitmap > MB(32) THEN MB(32) ELSE bitmap)
               + 96 * RoundUp(total, 2^27)

\* everything that does not depend on the size of the reservation; Cpus(m) is
\* computed before the user space is added, and not used
Fixed(p, m) ==
    p.kernel + Ramfs(p, m.config) + MB(8)
      + Framebuffers(m) + CryptoMemory(m) + ConstantSlabs(m) + Userspace(p, m)

(* ---- what grows with the reservation: r * a / (a - b) ---- *)

Grow(r, b, a) == r + (r * b) \div (a - b)

\* 20 % dirty pages and 1/16 of that in flight; 32-bit products wrap
WithDirty(p, r) ==
    IF p.word = 64 THEN Grow(r, 17, 80)
    ELSE (((r * 25) % 2^20) * 2^4) \div 315

\* "large hashes": 232 longs for each MiB
WithHashes(p, r) ==
    IF p.word = 64 THEN Grow(r, 29, 16384)
    ELSE ((r % 2^12) * 2^15) \div 32739

\* struct page for every page, in whole sections
WithMemmap(p, r) ==
    LET t == IF p.word = 64 THEN Grow(r, p.page, p.pagesize)
             ELSE ((r % 2^20) * 2^10) \div 1015
        pages == (t - r) \div p.page
    IN  r + RoundUp(pages, p.section) * p.section * p.page

\* the memory below the load address counts for the tables only
RunTime(p, m) ==
    LET beyond(t) == IF t < p.load THEN Overflown ELSE t - p.load
    IN  beyond(WithMemmap(p, WithHashes(p, WithDirty(p, Fixed(p, m)) + p.load)))

\* Not less than the boot needs; the default if a step has thrown
Fails(m) ==
    \/ BadTarget(m.config)
    \/ CountsCpus(m) /\ \E list \in {m.cpus, m.offline} : list = NoCpus \/ Count(Listed(list)) = -1

Required(m) ==
    LET on(p) == IF Fails(m) THEN p.reserve ELSE Max({RunTime(p, m), Bootsize(p, m.config)})
    IN  on(Platform[m.arch])

(* ---- what is printed ---- *)

MinLow == MB(64 + 8)

\* A block that ends above 4 GiB may need SWIOTLB, and so, where none was found,
\* does one that is larger than 4 GiB (~0ULL + need wraps around); a block that
\* starts there leaves a part below 4 GiB
Split(m, need, base, least) ==
    LET all == IF base + need >= GB(4) THEN need + MB(64) ELSE need
    IN  IF m.arch # "x86_64" THEN [low |-> need, high |-> 0]
        ELSE IF base # NotFound /\ base < GB(4) THEN [low |-> 0, high |-> all]
        ELSE [low |-> MinLow, high |-> Max({all - MinLow, least})]

\* altered: the upper part is not checked against the boot-time size
LowHighUnchecked(m, need) == Split(m, need, Find(m.ram, need, MB(16)), 0)

LowHigh(m, need) ==
    Split(m, need, Find(m.ram, need, MB(16)), Bootsize(Platform[m.arch], m.config))

\* A paravirtualised guest of Xen cannot load a crash kernel
Execute(m) ==
    IF m.hyper = "domu" THEN [total |-> 0, low |-> 0, high |-> 0, minlow |-> 0,
                              maxlow |-> 0, maxhigh |-> 0]
    ELSE LET x86 == m.arch = "x86_64"
             top == Max({0} \cup {m.ram[i].next : i \in DOMAIN m.ram})
             print(s) ==
               [total   |-> Total(m.ram) \div 1024,
                low     |-> RoundUp(s.low, 1024),
                high    |-> RoundUp(s.high, 1024),
                minlow  |-> IF x86 THEN RoundUp(s.low, 1024) ELSE 64 + 8,
                maxlow  |-> Largest(m.ram, CASE x86 -> GB(4)
                                             [] m.arch = "i386" -> MB(512)
                                             [] OTHER -> top) \div 1024,
                maxhigh |-> IF x86 THEN Largest(m.ram, top) \div 1024 ELSE 0]
         IN  print(LowHigh(m, Required(m)))

(* ---- what the numbers must satisfy ---- *)

\* What is left of a reservation of n after the tables, the dirty pages and
\* the writes in flight, computed the other way round
Usable(p, n) ==
    LET u == n - RoundUp(n * p.page, p.pagesize)
        v == u - RoundUp(u * 29, 16384) - p.load
    IN  v - RoundUp(v * 17, 80)

\* one KiB for every division, and the memmap is rounded down to pages of it
Slack(p) == 4 + p.page

\* The kernel boots in the part that it is loaded to: it is never smaller than
\* the boot-time need, also if a failed step made calibrate fall back to its
\* default and if the block lies above 4 GiB and is split
\* (calibrate.cc:1174, 1196-1203).
Boots(m, p, s) ==
    (IF m.arch = "x86_64" THEN s.high ELSE s.low) >= Bootsize(p, m.config)

\* What "Add memory based on CPU count" (calibrate.cc:1104) and the table of
\* macros (calibrate.cc:59) announce, and nobody adds.
Omitted(m) == PerCpu(m.arch) * Cpus(m)
Announced(p, m) == Fixed(p, m) + Omitted(m)

\* With 64-bit numbers the reservation leaves what is announced usable, after
\* everything that grows with it (calibrate.cc:1137-1143: "solve the above using
\* integer math"), except for the memory of the CPUs, which the code forgets.
Runs(m, p, s) ==
    ~Fails(m) /\ p.word = 64 =>
        Usable(p, s.low + s.high + p.load) >= Announced(p, m) - Omitted(m) - Slack(p)

\* A block that was found above 4 GiB still holds the upper part after
\* SWIOTLB was added (calibrate.cc:1189-1203).
HoldsUpper(m, s, need, base) ==
    m.arch = "x86_64" /\ base >= GB(4) =>
        /\ s.low + s.high >= need + MB(64)
        /\ \E i \in DOMAIN m.ram :
              m.ram[i].start <= base /\ base + s.high <= m.ram[i].next

\* What is printed, in MiB, is not less
PrintsAll(s, printed) ==
    printed.low * 1024 >= s.low /\ printed.high * 1024 >= s.high

\* Counting the CPUs (calibrate.cc:259-295) succeeds for every list of ranges
\* that the kernel writes, an empty one too: if it threw, all that was found out
\* before would be lost.
CountsAll(m) ==
    \A list \in {m.cpus, m.offline} \ {NoCpus} :
        Count(Listed(list)) = Cardinality(UNION {r[1]..r[2] : r \in ToSet(list)})

Enough(m, p, s, need, base, printed) ==
    /\ CountsAll(m)
    /\ m.hyper # "domu" =>
         /\ Boots(m, p, s) /\ Runs(m, p, s)
         /\ HoldsUpper(m, s, need, base) /\ PrintsAll(s, printed)

Suffices(m) ==
    LET with(need) == Enough(m, Platform[m.arch], LowHigh(m, need), need,
                             Find(m.ram, need, MB(16)), Execute(m))
    IN  with(Required(m))
=============================================================================
