--------------------------- MODULE CalibrateProofs ---------------------------
(***************************************************************************)
(* The sizes that calibrate prints are enough on every machine: whatever   *)
(* memory, devices and configuration it finds.  It finds the devices of    *)
(* the file system that a directory is on, whatever is mounted.            *)
(***************************************************************************)
EXTENDS Calibrate, Mounts, FiniteSetTheorems, WellFoundedInduction, TLAPS

\* A machine that calibrate can find itself on.  That the sums over devices
\* and caches are numbers is part of it: they are sums of numbers.
Machine(m) ==
    /\ m.arch \in DOMAIN Platform
    /\ m.ram \in Seq([start : Nat, next : Nat])
    /\ Fixed(Platform[m.arch], m) \in Nat /\ (~Fails(m) => Omitted(m) \in Nat)

-----------------------------------------------------------------------------
(* The architectures.                                                      *)

Archs == {"x86_64", "i386", "ppc64", "powerpc", "s390x", "s390", "ia64",
          "aarch64", "arm"}

LEMMA Architectures == DOMAIN Platform = Archs
BY DEF Platform, Archs

\* What an architecture may need at boot time is less than its default.
LEMMA DefaultBoots ==
  ASSUME NEW a \in Archs, NEW c
  PROVE  /\ Bootsize(Platform[a], c) \in Nat
         /\ Platform[a].reserve \in Nat
         /\ Platform[a].reserve >= Bootsize(Platform[a], c)
<1> DEFINE p == Platform[a]
<1>1. p.reserve >= DefBootsize(p)
BY DEF Platform, Archs, Arch, MB, DefBootsize, Initrd
<1> QED
BY <1>1 DEF Platform, Archs, Arch, MB, DefBootsize, Bootsize, Initrd, Ramfs

\* The platforms with 64-bit numbers, by what the memmap depends on.
LEMMA SixtyFour ==
  ASSUME NEW a \in Archs, Platform[a].word = 64
  PROVE  /\ Platform[a].page = 64 /\ Platform[a].load \in Nat
         /\ Platform[a].pagesize \in {4096, 16384, 65536}
         /\ Platform[a].section \in {1, 64}
BY DEF Platform, Archs, Arch, MB

-----------------------------------------------------------------------------
(* What grows with the reservation, step by step.                          *)

\* The dirty pages and the writes in flight leave what was asked for.
LEMMA DirtyFits ==
  ASSUME NEW r \in Nat, NEW k \in Nat, NEW v \in Int,
         v >= Grow(r, 17, 80) - k
  PROVE  v - RoundUp(v * 17, 80) >= r - k - 2
BY DEF Grow, RoundUp

\* The hash tables do.
LEMMA HashesFit ==
  ASSUME NEW r \in Nat, NEW k \in Nat, NEW u \in Int,
         u >= Grow(r, 29, 16384) - k
  PROVE  u - RoundUp(u * 29, 16384) >= r - k - 1
BY DEF Grow, RoundUp

\* The memmap does, up to the pages of it that are rounded down.
LEMMA MemmapFits ==
  ASSUME NEW r \in Nat, NEW n \in Int, NEW pagesize \in {4096, 16384, 65536},
         n >= Grow(r, 64, pagesize) - 63
  PROVE  n - RoundUp(n * 64, pagesize) >= r - 64
BY DEF Grow, RoundUp

\* The memmap in whole sections is not less than in pages.
LEMMA MemmapIs ==
  ASSUME NEW a \in Archs, Platform[a].word = 64, NEW r \in Nat
  PROVE  /\ WithMemmap(Platform[a], r) \in Nat
         /\ WithMemmap(Platform[a], r) >= r
         /\ WithMemmap(Platform[a], r) >= Grow(r, 64, Platform[a].pagesize) - 63
<1> DEFINE p == Platform[a]
           t == Grow(r, 64, p.pagesize)
           pages == (t - r) \div 64
<1>1. p.page = 64 /\ p.pagesize \in {4096, 16384, 65536} /\ p.section \in {1, 64}
  BY SixtyFour
<1>2. t \in Nat /\ t >= r
  BY <1>1 DEF Grow
<1>3. WithMemmap(p, r) = r + RoundUp(pages, p.section) * p.section * 64
  BY <1>1 DEF WithMemmap
<1>4. pages \in Nat /\ 64 * pages >= t - r - 63
  <2> HIDE DEF t
  <2> QED
    BY <1>2
<1>5. /\ RoundUp(pages, p.section) * p.section \in Nat
      /\ RoundUp(pages, p.section) * p.section >= pages
  <2> HIDE DEF pages, p
  <2> QED
    BY <1>1, <1>4 DEF RoundUp
<1> DEFINE q == RoundUp(pages, p.section) * p.section
<1> HIDE DEF t, pages, q
<1>6. WithMemmap(p, r) = r + q * 64
  BY <1>3 DEF q
<1> QED
  BY <1>2, <1>4, <1>5, <1>6 DEF q, t

\* What is needed at run time is the memmap of all that has grown, without
\* the memory below the load address.
LEMMA RunTimeIs ==
  ASSUME NEW m, Machine(m), Platform[m.arch].word = 64
  PROVE  LET p == Platform[m.arch]
             f == Fixed(p, m)
             h == Grow(Grow(f, 17, 80) + p.load, 29, 16384)
         IN  /\ Grow(f, 17, 80) \in Nat /\ h \in Nat
             /\ RunTime(p, m) \in Nat
             /\ RunTime(p, m) + p.load >= Grow(h, 64, p.pagesize) - 63
<1> DEFINE p == Platform[m.arch]
           f == Fixed(p, m)
           d == Grow(f, 17, 80)
           h == Grow(d + p.load, 29, 16384)
<1>1. m.arch \in Archs /\ f \in Nat
  BY Architectures DEF Machine
<1>2. p.load \in Nat /\ p.word = 64
  BY <1>1, SixtyFour
<1>3. d \in Nat /\ d = WithDirty(p, f)
  <2> HIDE DEF f
  <2> QED
    BY <1>1, <1>2 DEF Grow, WithDirty
<1>4. h \in Nat /\ h >= p.load /\ h = WithHashes(p, d + p.load)
  <2> HIDE DEF d, p
  <2> QED
    BY <1>2, <1>3 DEF Grow, WithHashes
<1> DEFINE w == WithMemmap(p, h)
<1>5. w \in Nat /\ w >= h /\ w >= Grow(h, 64, p.pagesize) - 63
  <2> HIDE DEF h
  <2> QED
    BY <1>1, <1>2, <1>4, MemmapIs
<1>6. RunTime(p, m) = w - p.load
  <2> RunTime(p, m) = IF w < p.load THEN Overflown ELSE w - p.load
    BY <1>3, <1>4 DEF RunTime
  <2> HIDE DEF w, h, p
  <2> QED
    BY <1>2, <1>4, <1>5
<1> HIDE DEF w, h, p
<1>7. RunTime(p, m) \in Nat /\ RunTime(p, m) + p.load = w
  BY <1>2, <1>4, <1>5, <1>6
<1> QED
  BY <1>3, <1>4, <1>5, <1>7 DEF h, p

\* With 32-bit numbers it is a number, whatever has wrapped.
LEMMA RunTimeWraps ==
  ASSUME NEW m, Machine(m), Platform[m.arch].word # 64
  PROVE  RunTime(Platform[m.arch], m) \in Int
<1> DEFINE p == Platform[m.arch]
           f == Fixed(p, m)
<1>1. m.arch \in Archs /\ f \in Nat
  BY Architectures DEF Machine
<1>2. p.load \in Nat /\ p.word # 64 /\ p.page = 36 /\ p.section \in {1, 8}
  BY <1>1 DEF Platform, Archs, Arch, MB
<1> HIDE DEF p, f
<1>3. WithDirty(p, f) \in Nat
  BY <1>1, <1>2 DEF WithDirty
<1>4. WithHashes(p, WithDirty(p, f) + p.load) \in Nat
  BY <1>2, <1>3 DEF WithHashes
<1>5. ASSUME NEW r \in Nat PROVE WithMemmap(p, r) \in Int
  BY <1>2 DEF WithMemmap, RoundUp
<1>6. WithMemmap(p, WithHashes(p, WithDirty(p, f) + p.load)) \in Int
  BY <1>4, <1>5
<1> QED
  BY <1>2, <1>6 DEF RunTime, Overflown, f, p

\* Of two numbers one is the greater one.
LEMMA MaxOfTwo ==
  ASSUME NEW a \in Int, NEW b \in Int
  PROVE  Max({a, b}) \in {a, b} /\ Max({a, b}) >= a /\ Max({a, b}) >= b
<1>1. \E x \in {a, b} : \A y \in {a, b} : x >= y
  OBVIOUS
<1> QED
  BY <1>1 DEF Max

\* What is required covers the boot, and the run time if no step has failed.
LEMMA RequiredIs ==
  ASSUME NEW m, Machine(m)
  PROVE  LET p == Platform[m.arch]
         IN  /\ Required(m) \in Nat
             /\ Required(m) >= Bootsize(p, m.config)
             /\ ~Fails(m) => Required(m) >= RunTime(p, m)
<1> DEFINE p == Platform[m.arch]
           b == Bootsize(p, m.config)
           t == RunTime(p, m)
<1>1. m.arch \in Archs
  BY Architectures DEF Machine
<1>2. b \in Nat /\ p.reserve \in Nat /\ p.reserve >= b
  BY <1>1, DefaultBoots
<1>3. t \in Int
  BY RunTimeIs, RunTimeWraps
<1>4. Required(m) = IF Fails(m) THEN p.reserve ELSE Max({t, b})
  BY DEF Required
<1> HIDE DEF p, b, t
<1>5. Max({t, b}) \in {t, b} /\ Max({t, b}) >= t /\ Max({t, b}) >= b
  BY <1>2, <1>3, MaxOfTwo
<1> QED
  BY <1>2, <1>3, <1>4, <1>5 DEF p, b, t

-----------------------------------------------------------------------------
(* Where the block is.                                                     *)

\* Some numbers below a bound have a greatest one.
LEMMA Greatest ==
  ASSUME NEW n \in Nat, NEW S \in SUBSET (0..n), S # {}
  PROVE  Max(S) \in S /\ \A y \in S : Max(S) >= y
<1> DEFINE T == {n - x : x \in S}
           R == OpToRel(<, Nat)
<1>1. T \subseteq Nat /\ T # {}
  <2>1. \A x \in S : n - x \in Nat
    OBVIOUS
  <2>2. \E x \in S : n - x \in T
    OBVIOUS
  <2> QED
    BY <2>1, <2>2
<1>2. PICK t \in T : \A y \in T : ~(<<y, t>> \in R)
  BY <1>1, NatLessThanWellFounded, WFMin
<1>3. \A y \in T : t <= y
  <2>1. \A a, b \in Nat : a < b => <<a, b>> \in R
    BY DEF OpToRel
  <2> HIDE DEF T, R
  <2> SUFFICES ASSUME NEW y \in T, ~(t <= y) PROVE FALSE
    OBVIOUS
  <2>2. y \in Nat /\ t \in Nat
    BY <1>1
  <2>3. y < t
    BY <2>2
  <2>4. <<y, t>> \in R
    BY <2>1, <2>2, <2>3, Zenon
  <2> QED
    BY <1>2, <2>4, Zenon
<1>4. \E x \in S : \A y \in S : x >= y
  <2>1. PICK x \in S : t = n - x
    OBVIOUS
  <2>2. \A y \in S : n - x <= n - y
    BY <1>3, <2>1
  <2> QED
    BY <2>2
<1> QED
  BY <1>4 DEF Max

\* An element of a sequence.
LEMMA ElementIs ==
  ASSUME NEW T, NEW seq \in Seq(T), NEW i \in DOMAIN seq
  PROVE  seq[i] \in T
OBVIOUS

\* The block that find() returns lies in a range of memory.
LEMMA FindFits ==
  ASSUME NEW ram \in Seq([start : Nat, next : Nat]), NEW size \in Nat,
         Find(ram, size, MB(16)) # NotFound
  PROVE  LET base == Find(ram, size, MB(16))
         IN  /\ base \in Nat
             /\ \E i \in DOMAIN ram : ram[i].start <= base /\ base + size <= ram[i].next
<1> DEFINE rooms == {i \in DOMAIN ram : Fits(ram[i], size, MB(16))}
           i == Max(rooms)
<1>1. rooms # {} /\ Find(ram, size, MB(16)) = Place(ram[i], size, MB(16))
  BY DEF Find
<1>2. i \in rooms
  <2>1. rooms \in SUBSET (0..Len(ram)) /\ Len(ram) \in Nat
    OBVIOUS
  <2> HIDE DEF rooms
  <2> QED
    BY <1>1, <2>1, Greatest
<1> HIDE DEF i
<1>3. i \in DOMAIN ram /\ Fits(ram[i], size, MB(16)) /\ ram[i] \in [start : Nat, next : Nat]
  <2>1. i \in DOMAIN ram
    BY <1>2
  <2>2. Fits(ram[i], size, MB(16))
    BY <1>2, Zenon
  <2>3. ram[i] \in [start : Nat, next : Nat]
    BY <2>1, ElementIs
  <2> QED
    BY <2>1, <2>2, <2>3, Zenon
<1> DEFINE r == ram[i]
<1>4. /\ Place(r, size, MB(16)) \in Nat /\ r.start <= Place(r, size, MB(16))
      /\ Place(r, size, MB(16)) + size <= r.next
  <2> DEFINE q == r.next - size
  <2>1. q \in Nat
    BY <1>3 DEF Fits
  <2>2. Place(r, size, MB(16)) = q - (q % 16384)
    BY DEF Place, MB
  <2>3. q + size = r.next
    BY <1>3
  <2> HIDE DEF q
  <2>4. q - (q % 16384) \in Nat /\ q - (q % 16384) <= q
    BY <2>1
  <2>5. r.start <= Place(r, size, MB(16))
    BY <1>3, <2>2, <2>4 DEF Fits
  <2> QED
    BY <2>1, <2>2, <2>3, <2>4, <2>5
<1> QED
  BY <1>1, <1>3, <1>4 DEF i

\* What a split block adds up to: at least what is needed, and at least the
\* boot-time size above 4 GiB.
LEMMA SplitIs ==
  ASSUME NEW m, NEW need \in Nat, NEW base \in Int, NEW least \in Nat, need >= least
  PROVE  LET s == Split(m, need, base, least)
         IN  /\ s.low \in Nat /\ s.high \in Nat
             /\ s.low + s.high >= need
             /\ (IF m.arch = "x86_64" THEN s.high ELSE s.low) >= least
             /\ m.arch = "x86_64" /\ base >= GB(4) =>
                   s.low + s.high >= need + MB(64) /\ s.high <= need
<1> DEFINE all == IF base + need >= GB(4) THEN need + MB(64) ELSE need
<1>1. all \in Nat /\ all >= need /\ all <= need + MB(64)
      /\ (base >= GB(4) => all = need + MB(64))
  BY DEF MB, GB, NotFound
<1> HIDE DEF all
<1> DEFINE x == Max({all - MinLow, least})
<1>2. x \in Nat /\ x >= all - MinLow /\ x >= least /\ x \in {all - MinLow, least}
  <2>1. all - MinLow \in Int
    BY <1>1 DEF MinLow, MB
  <2> HIDE DEF x
  <2>2. x \in {all - MinLow, least} /\ x >= all - MinLow /\ x >= least
    BY <2>1, MaxOfTwo DEF x
  <2> QED
    BY <2>1, <2>2
<1>3. Split(m, need, base, least) =
        IF m.arch # "x86_64" THEN [low |-> need, high |-> 0]
        ELSE IF base # NotFound /\ base < GB(4) THEN [low |-> 0, high |-> all]
        ELSE [low |-> MinLow, high |-> x]
  BY DEF Split, all
<1> HIDE DEF x
<1> QED
  BY <1>1, <1>2, <1>3 DEF MinLow, MB, GB, NotFound

-----------------------------------------------------------------------------
(* What is reserved is enough.                                             *)

\* More than enough leaves more than enough.
LEMMA UsableIs ==
  ASSUME NEW m, Machine(m), Platform[m.arch].word = 64, NEW n \in Int,
         n >= RunTime(Platform[m.arch], m) + Platform[m.arch].load
  PROVE  Usable(Platform[m.arch], n) >= Fixed(Platform[m.arch], m) - Slack(Platform[m.arch])
<1> DEFINE p == Platform[m.arch]
           f == Fixed(p, m)
           d == Grow(f, 17, 80)
           h == Grow(d + p.load, 29, 16384)
           u == n - RoundUp(n * p.page, p.pagesize)
           v == u - RoundUp(u * 29, 16384) - p.load
<1>1. m.arch \in Archs /\ f \in Nat
  BY Architectures DEF Machine
<1>2. p.page = 64 /\ p.pagesize \in {4096, 16384, 65536} /\ p.load \in Nat
  BY <1>1, SixtyFour
<1>3. d \in Nat /\ h \in Nat /\ RunTime(p, m) \in Nat
      /\ n >= Grow(h, 64, p.pagesize) - 63
  <2>1. RunTime(p, m) + p.load >= Grow(h, 64, p.pagesize) - 63
    BY RunTimeIs
  <2>2. Grow(h, 64, p.pagesize) \in Int
    <3>1. h \in Nat
      BY RunTimeIs
    <3> HIDE DEF h
    <3> QED
      BY <1>2, <3>1 DEF Grow
  <2> QED
    BY <1>2, <2>1, <2>2, RunTimeIs
<1> HIDE DEF f, p
<1>4. u \in Int /\ u >= h - 64
  <2> HIDE DEF h
  <2> QED
    BY <1>2, <1>3, MemmapFits DEF RoundUp
<1>5. v \in Int /\ v >= d - 65
  <2>1. d + p.load \in Nat
    BY <1>2, <1>3
  <2> HIDE DEF d, u
  <2> DEFINE e == d + p.load
  <2>2. u - RoundUp(u * 29, 16384) >= e - 64 - 1
    <3>1. e \in Nat /\ u >= Grow(e, 29, 16384) - 64
      BY <1>4, <2>1
    <3> HIDE DEF e, h
    <3> QED
      BY <1>4, <3>1, HashesFit
  <2>3. RoundUp(u * 29, 16384) \in Int
    BY <1>4 DEF RoundUp
  <2> QED
    BY <1>2, <1>3, <1>4, <2>2, <2>3
<1>6. v - RoundUp(v * 17, 80) >= f - 65 - 2
  <2> HIDE DEF v
  <2> QED
    BY <1>1, <1>5, DirtyFits
<1>7. Usable(p, n) = v - RoundUp(v * 17, 80)
  BY DEF Usable
<1>8. v - RoundUp(v * 17, 80) \in Int
  <2> HIDE DEF v
  <2> QED
    BY <1>5 DEF RoundUp
<1> QED
  <2> HIDE DEF v
  <2> QED
    BY <1>1, <1>2, <1>6, <1>7, <1>8 DEF Slack, p, f

\* What is printed is rounded up to whole MiB.
LEMMA Printed ==
  ASSUME NEW m, m.hyper # "domu"
  PROVE  LET s == LowHigh(m, Required(m))
         IN  /\ Execute(m).low = RoundUp(s.low, 1024)
             /\ Execute(m).high = RoundUp(s.high, 1024)
BY DEF Execute

\* The reservation that calibrate prints is enough on every machine: the kernel
\* boots in it and finds the memory that it needs, but for that of its CPUs, which
\* the code forgets; what does not fit below 4 GiB has room above, and nothing is
\* lost by rounding (calibrate.cc:984-1223).
THEOREM ReservationIsEnough ==
  ASSUME NEW m, Machine(m), m.hyper # "domu"
  PROVE  LET p    == Platform[m.arch]
             need == Required(m)
             s    == LowHigh(m, need)
         IN  /\ Boots(m, p, s) /\ Runs(m, p, s)
             /\ HoldsUpper(m, s, need, Find(m.ram, need, MB(16)))
             /\ PrintsAll(s, Execute(m))
<1> DEFINE p    == Platform[m.arch]
           need == Required(m)
           base == Find(m.ram, need, MB(16))
           s    == LowHigh(m, need)
           b    == Bootsize(p, m.config)
<1>1. m.arch \in Archs /\ b \in Nat
  BY Architectures, DefaultBoots DEF Machine
<1>2. need \in Nat /\ need >= b /\ (~Fails(m) => need >= RunTime(p, m))
  BY RequiredIs
<1>3. base \in Int /\ (base # NotFound =>
        \E i \in DOMAIN m.ram : m.ram[i].start <= base /\ base + need <= m.ram[i].next)
  <2>1. CASE base = NotFound
    BY <2>1 DEF NotFound
  <2>2. CASE base # NotFound
    <3> HIDE DEF need
    <3>1. m.ram \in Seq([start : Nat, next : Nat])
      BY DEF Machine
    <3> QED
      BY <1>2, <2>2, <3>1, FindFits
  <2> QED
    BY <2>1, <2>2
<1>4. s = Split(m, need, base, b)
  BY DEF LowHigh
<1> HIDE DEF need, base, b
<1>5. /\ s.low \in Nat /\ s.high \in Nat /\ s.low + s.high >= need
      /\ (IF m.arch = "x86_64" THEN s.high ELSE s.low) >= b
      /\ m.arch = "x86_64" /\ base >= GB(4) =>
            s.low + s.high >= need + MB(64) /\ s.high <= need
  BY <1>1, <1>2, <1>3, <1>4, SplitIs
<1> HIDE DEF s
<1>6. Boots(m, p, s)
  BY <1>5 DEF Boots, b
<1>7. Runs(m, p, s)
  <2> SUFFICES ASSUME ~Fails(m), p.word = 64
               PROVE  Usable(p, s.low + s.high + p.load) >= Fixed(p, m) - Slack(p)
    <3>1. ~Fails(m) => Announced(p, m) - Omitted(m) = Fixed(p, m)
      BY DEF Announced, Machine
    <3> QED BY <3>1 DEF Runs
  <2>1. p.load \in Nat /\ RunTime(p, m) \in Nat
    BY <1>1, SixtyFour, RunTimeIs
  <2> DEFINE n == s.low + s.high + p.load
  <2>2. n \in Int /\ n >= RunTime(p, m) + p.load
    <3> HIDE DEF p
    <3> QED
      BY <1>2, <1>5, <2>1
  <2> HIDE DEF n
  <2>3. Usable(p, n) >= Fixed(p, m) - Slack(p)
    BY <2>2, UsableIs
  <2> QED
    BY <2>3 DEF n
<1>8. HoldsUpper(m, s, need, base)
  <2> SUFFICES ASSUME m.arch = "x86_64", base >= GB(4) PROVE HoldsUpper(m, s, need, base)
    BY DEF HoldsUpper
  <2>1. s.low + s.high >= need + MB(64) /\ s.high <= need
    BY <1>5
  <2>2. PICK i \in DOMAIN m.ram : m.ram[i].start <= base /\ base + need <= m.ram[i].next
    BY <1>3 DEF GB, NotFound
  <2>3. m.ram[i].next \in Nat
    <3>1. m.ram \in Seq([start : Nat, next : Nat])
      BY DEF Machine
    <3>2. m.ram[i] \in [start : Nat, next : Nat]
      BY <3>1, ElementIs
    <3> QED
      BY <3>2
  <2>4. base + s.high <= m.ram[i].next
    BY <1>2, <1>3, <1>5, <2>1, <2>2, <2>3
  <2> QED
    BY <2>1, <2>2, <2>4 DEF HoldsUpper
<1>9. PrintsAll(s, Execute(m))
  <2>1. Execute(m).low = RoundUp(s.low, 1024) /\ Execute(m).high = RoundUp(s.high, 1024)
    BY Printed DEF s, need
  <2>2. ASSUME NEW n \in Nat PROVE RoundUp(n, 1024) * 1024 >= n
    BY DEF RoundUp
  <2> QED
    BY <1>5, <2>1, <2>2 DEF PrintsAll
<1> QED
  BY <1>6, <1>7, <1>8, <1>9 DEF need, base, s

-----------------------------------------------------------------------------
(* The file system of a directory.                                         *)

\* The entries of a mount table; names are sequences of characters.
Entries == [target : Seq(STRING), source : STRING, type : STRING,
            use : {"fs", "pseudo", "swap"}]

\* The mount tables that are read, and a path that is absolute.
Tables(host, path) ==
    /\ host.kernel \in Seq(Entries) /\ host.fstab \in Seq(Entries)
    /\ path \in Seq(STRING) /\ path # <<>> /\ path[1] = "/"

\* No mount point's name is merely the beginning of another name.
NoNamesake(table, path) ==
    \A e \in ToSet(table) :
        e.use = "fs" /\ IsPrefix(e.target, path) => Below(e.target, path)

\* The root directory is a beginning of every absolute path, and so is every
\* directory above it.
LEMMA BelowCovers ==
  ASSUME NEW path \in Seq(STRING), path # <<>>, path[1] = "/",
         NEW target \in Seq(STRING), Below(target, path)
  PROVE  Covers(target, path)
<1>1. CASE target = <<"/">>
  <2>1. Len(target) = 1 /\ Len(path) >= 1 /\ Len(path) \in Nat
    BY <1>1
  <2>2. SubSeq(target, 1, 1) = SubSeq(path, 1, 1)
    BY <1>1, <2>1
  <2> QED
    BY <2>1, <2>2 DEF Covers, IsPrefix
<1>2. CASE target # <<"/">>
  BY <1>2 DEF Below, Covers
<1> QED
  BY <1>1, <1>2

\* findMount() returns one of the deepest mount points over a path, if there is
\* one.
LEMMA FindMountIs ==
  ASSUME NEW table \in Seq(Entries), NEW path \in Seq(STRING), path # <<>>,
         path[1] = "/", NoNamesake(table, path)
  PROVE  LET i == FindMount(table, path)
         IN  \/ i = 0 /\ Deepest(table, path) = {}
             \/ i \in DOMAIN table /\ i # 0 /\ table[i] \in Deepest(table, path)
<1> DEFINE fits == {i \in DOMAIN table :
                      table[i].use = "fs" /\ Covers(table[i].target, path)}
           longest == {i \in fits : \A j \in fits :
                         Len(table[j].target) <= Len(table[i].target)}
           over == {e \in ToSet(table) : e.use = "fs" /\ Below(e.target, path)}
           x == Max({0} \cup longest)
<1>1. \A i \in DOMAIN table : table[i] \in ToSet(table) /\ table[i].target \in Seq(STRING)
  <2> TAKE i \in DOMAIN table
  <2>1. table[i] \in Entries
    BY ElementIs
  <2> QED
    BY <2>1 DEF Entries, ToSet
<1>2. \A i \in fits : table[i] \in over
  BY <1>1 DEF NoNamesake, Covers
<1>3. \A e \in over : \E i \in fits : e = table[i]
  <2> TAKE e \in over
  <2>1. PICK i \in DOMAIN table : e = table[i]
    BY DEF ToSet
  <2>2. Covers(table[i].target, path)
    BY <1>1, <2>1, BelowCovers
  <2> QED
    BY <2>1, <2>2
<1>4. \A i \in fits : Len(table[i].target) \in 0..Len(path)
  <2> TAKE i \in fits
  <2>1. Len(table[i].target) \in Nat /\ Len(path) \in Nat
    BY <1>1
  <2>2. Len(table[i].target) <= Len(path)
    BY DEF Covers, IsPrefix
  <2> QED
    BY <2>1, <2>2
<1>5. fits # {} => longest # {}
  <2> SUFFICES ASSUME fits # {} PROVE longest # {}
    OBVIOUS
  <2> DEFINE lens == {Len(table[i].target) : i \in fits}
  <2>1. lens \in SUBSET (0..Len(path)) /\ lens # {} /\ Len(path) \in Nat
    <3> HIDE DEF fits
    <3>1. lens \in SUBSET (0..Len(path))
      BY <1>4
    <3>2. \E i \in fits : Len(table[i].target) \in lens
      OBVIOUS
    <3> QED
      BY <3>1, <3>2
  <2>2. Max(lens) \in lens /\ \A y \in lens : Max(lens) >= y
    <3> HIDE DEF lens
    <3> QED
      BY <2>1, Greatest
  <2>3. PICK i \in fits : Max(lens) = Len(table[i].target)
    BY <2>2
  <2>4. \A j \in fits : Len(table[j].target) <= Len(table[i].target)
    BY <1>4, <2>2, <2>3
  <2> QED
    BY <2>4
<1>6. x \in {0} \cup longest /\ (longest # {} => x \in longest)
  <2>1. {0} \cup longest \in SUBSET (0..Len(table)) /\ Len(table) \in Nat
    OBVIOUS
  <2>2. \A i \in longest : i \in Nat /\ i >= 1
    OBVIOUS
  <2> HIDE DEF longest
  <2>3. Max({0} \cup longest) \in {0} \cup longest
        /\ \A y \in {0} \cup longest : Max({0} \cup longest) >= y
    BY <2>1, Greatest
  <2> HIDE DEF x
  <2>4. ASSUME NEW y \in longest PROVE x \in longest
    <3>1. x >= y /\ y \in Nat /\ y >= 1
      BY <2>2, <2>3 DEF x
    <3> QED
      BY <2>3, <3>1 DEF x
  <2> QED
    BY <2>3, <2>4 DEF x
<1>7. FindMount(table, path) = x
  BY DEF FindMount
<1>8. Deepest(table, path) = {e \in over : \A d \in over : Len(d.target) <= Len(e.target)}
  BY DEF Deepest
<1>9. CASE fits = {}
  <2>1. over = {} /\ longest = {}
    BY <1>3, <1>9
  <2> HIDE DEF over, longest, fits
  <2> QED
    BY <1>6, <1>7, <1>8, <2>1
<1>10. CASE fits # {}
  <2>1. x \in longest
    BY <1>5, <1>6, <1>10
  <2> HIDE DEF x
  <2>2. x \in fits /\ \A j \in fits : Len(table[j].target) <= Len(table[x].target)
    BY <2>1
  <2>3. table[x] \in over /\ \A d \in over : Len(d.target) <= Len(table[x].target)
    BY <1>2, <1>3, <2>2
  <2>4. x \in DOMAIN table /\ x # 0
    BY <2>2
  <2> HIDE DEF over, fits, longest
  <2> QED
    BY <1>7, <1>8, <2>3, <2>4
<1> QED
  BY <1>9, <1>10

\* All of the deepest mount points over a path have names of the same length.
LEMMA DeepestAreEqual ==
  ASSUME NEW table \in Seq(Entries), NEW path
  PROVE  \A d, e \in Deepest(table, path) :
           Len(d.target) \in Nat /\ Len(d.target) = Len(e.target)
<1>1. \A e \in Deepest(table, path) : e \in Entries
  <2> TAKE e \in Deepest(table, path)
  <2>1. e \in ToSet(table)
    BY DEF Deepest
  <2> QED
    BY <2>1, ElementIs DEF ToSet
<1>2. \A e \in Deepest(table, path) : Len(e.target) \in Nat
  BY <1>1 DEF Entries
<1>3. \A d, e \in Deepest(table, path) : Len(d.target) <= Len(e.target)
  BY DEF Deepest
<1> QED
  BY <1>2, <1>3

\* There are only so many.
LEMMA DeepestAreFinite ==
  ASSUME NEW table \in Seq(Entries), NEW path
  PROVE  IsFiniteSet(Deepest(table, path))
<1>1. IsFiniteSet(DOMAIN table)
  <2>1. DOMAIN table = 1..Len(table) /\ Len(table) \in Int
    OBVIOUS
  <2> QED
    BY <2>1, FS_Interval
<1>2. table \in Surjection(DOMAIN table, ToSet(table))
  <2>1. table \in [DOMAIN table -> ToSet(table)]
    BY DEF ToSet
  <2> QED
    BY <2>1 DEF Surjection, ToSet
<1>3. IsFiniteSet(ToSet(table))
  BY <1>1, <1>2, FS_Surjection
<1>4. Deepest(table, path) \in SUBSET ToSet(table)
  BY DEF Deepest
<1> QED
  BY <1>3, <1>4, FS_Subset

\* Of the two mount tables calibrate takes the entry of the file system that is
\* over the path once all of fstab is mounted; it finds none only if there is
\* none (mounts.cc:138-158, 193-232).
THEOREM FindsFileSystem ==
  ASSUME NEW host, NEW path, Tables(host, path), ~Namesake(host, path)
  PROVE  \/ Really(host, path) = {} /\ PathMountPoint(host, path) = {}
         \/ \E e \in Really(host, path) : PathMountPoint(host, path) = {e}
<1> DEFINE k == FindMount(host.kernel, path)
           f == FindMount(host.fstab, path)
           live == Deepest(host.kernel, path)
           wanted == Deepest(host.fstab, path)
<1>1. /\ host.kernel \in Seq(Entries) /\ host.fstab \in Seq(Entries)
      /\ path \in Seq(STRING) /\ path # <<>> /\ path[1] = "/"
  BY DEF Tables
<1>2. NoNamesake(host.kernel, path) /\ NoNamesake(host.fstab, path)
  BY DEF Namesake, NoNamesake
<1>3. \/ k = 0 /\ live = {}
      \/ k # 0 /\ host.kernel[k] \in live
  BY <1>1, <1>2, FindMountIs
<1>4. \/ f = 0 /\ wanted = {}
      \/ f # 0 /\ host.fstab[f] \in wanted
  BY <1>1, <1>2, FindMountIs
<1>5. /\ \A d, e \in live : Len(d.target) \in Nat /\ Len(d.target) = Len(e.target)
      /\ \A d, e \in wanted : Len(d.target) \in Nat /\ Len(d.target) = Len(e.target)
  BY <1>1, DeepestAreEqual
<1>6. PathMountPoint(host, path) =
        IF k # 0 /\ (f = 0 \/ Len(host.kernel[k].target) >= Len(host.fstab[f].target) + 1)
        THEN {host.kernel[k]} ELSE {host.fstab[i] : i \in {f} \ {0}}
  BY DEF PathMountPoint, Best
<1>7. Really(host, path) =
        IF wanted # {} /\ (\A w \in wanted, l \in live : Len(w.target) >= Len(l.target))
        THEN wanted ELSE live
  BY DEF Really
<1>8. f # 0 => {host.fstab[i] : i \in {f} \ {0}} = {host.fstab[f]}
  OBVIOUS
<1>9. f = 0 => {host.fstab[i] : i \in {f} \ {0}} = {}
  OBVIOUS
<1> HIDE DEF k, f, live, wanted
<1>10. CASE f = 0
  BY <1>3, <1>4, <1>6, <1>7, <1>9, <1>10
<1>11. CASE f # 0 /\ k = 0
  BY <1>3, <1>4, <1>6, <1>7, <1>8, <1>11
<1>12. CASE f # 0 /\ k # 0
  <2> DEFINE a == Len(host.kernel[k].target)
             b == Len(host.fstab[f].target)
  <2>1. host.kernel[k] \in live /\ host.fstab[f] \in wanted
    BY <1>3, <1>4, <1>12
  <2>2. a \in Nat /\ b \in Nat
    BY <1>5, <2>1
  <2>3. (\A w \in wanted, l \in live : Len(w.target) >= Len(l.target)) <=> b >= a
    BY <1>5, <2>1
  <2> HIDE DEF a, b
  <2>4. Really(host, path) = IF b >= a THEN wanted ELSE live
    BY <1>7, <2>1, <2>3
  <2>5. PathMountPoint(host, path) =
          IF b >= a THEN {host.fstab[f]} ELSE {host.kernel[k]}
    <3>1. PathMountPoint(host, path) =
            IF a >= b + 1 THEN {host.kernel[k]} ELSE {host.fstab[f]}
      BY <1>6, <1>8, <1>12 DEF a, b
    <3> QED
      BY <2>2, <3>1
  <2> QED
    BY <2>1, <2>4, <2>5
<1> QED
  BY <1>10, <1>11, <1>12

\* The devices of every file system that is no btrfs are asked for, whatever
\* mount tables and links there are and whatever paths came before it. That root=
\* is understood is a premise here: SystemRoot() reads it digit by digit
\* (mounts.cc:258-298); None is no device.
THEOREM DevicesAreCovered ==
  ASSUME NEW host, NEW path, NEW S, NEW before \in Seq(S), Tables(host, path),
         None \notin host.known,
         \A e \in Really(host, path) : e.type # "btrfs",
         host.root # <<>> /\ host.boot \in host.known =>
            \A tried \in BOOLEAN : SystemRoot(host, tried) = host.boot
  PROVE  Covered(host, before, path)
<1> DEFINE all == Append(before, path)
           Tried(paths, n) == \E k \in 1..(n - 1) : OnDevRoot(host, paths[k])
           last == Tried(all, Len(before) + 1)
<1> SUFFICES ASSUME ~Namesake(host, path),
                    AddPaths(host, before) \subseteq DOMAIN host.holds,
                    NEW e \in Really(host, path),
                    Cardinality(Really(host, path)) = 1,
                    Held(host, e) \subseteq (host.known \cap DOMAIN host.holds) \ {DevRoot},
                    DevRoot \in host.known, NEW d \in Held(host, e)
             PROVE  host.holds[d] \subseteq Devices(host, all)
  BY DEF Covered
<1>1. PathMountPoint(host, path) = {e}
  <2>1. PICK x \in Really(host, path) : PathMountPoint(host, path) = {x}
    BY FindsFileSystem
  <2>2. IsFiniteSet(Really(host, path))
    BY DeepestAreFinite DEF Really, Tables
  <2>3. PICK y : Really(host, path) = {y}
    BY <2>2, FS_Singleton
  <2> QED
    BY <2>1, <2>3
<1>2. Resolve(host, e.source, last) = d
  <2>1. CASE e.source = DevRoot /\ host.root # <<>>
    <3>1. d = host.boot /\ host.boot \in host.known
      BY <2>1 DEF Held
    <3>2. last \in BOOLEAN
      OBVIOUS
    <3> QED
      BY <2>1, <3>1, <3>2 DEF Resolve
  <2>2. CASE ~(e.source = DevRoot /\ host.root # <<>>)
    BY <2>2 DEF Held, Resolve, Known
  <2> QED
    BY <2>1, <2>2
<1>3. d # None /\ d \in DOMAIN host.holds
  OBVIOUS
<1>4. Sources(host, path, last) = {d}
  <2> HIDE DEF last
  <2>1. e.type # "btrfs"
    OBVIOUS
  <2>2. {Resolve(host, e.source, last)} \ {None} = {d}
    BY <1>2, <1>3
  <2> QED
    BY <1>1, <2>1, <2>2 DEF Sources
<1>5. DOMAIN all = DOMAIN before \cup {Len(before) + 1} /\ Len(before) + 1 \notin DOMAIN before
  OBVIOUS
<1>6. all[Len(before) + 1] = path /\ \A n \in DOMAIN before : all[n] = before[n]
  OBVIOUS
<1>7. \A n \in DOMAIN before : Tried(all, n) <=> Tried(before, n)
  BY <1>6
<1>8. AddPaths(host, all) = AddPaths(host, before) \cup {d}
  <2>1. AddPaths(host, all) = UNION {Sources(host, all[n], Tried(all, n)) : n \in DOMAIN all}
    BY DEF AddPaths
  <2>2. AddPaths(host, before)
          = UNION {Sources(host, before[n], Tried(before, n)) : n \in DOMAIN before}
    BY DEF AddPaths
  <2>3. Sources(host, all[Len(before) + 1], Tried(all, Len(before) + 1)) = {d}
    BY <1>4, <1>6
  <2>4. \A n \in DOMAIN before :
          Sources(host, all[n], Tried(all, n)) = Sources(host, before[n], Tried(before, n))
    BY <1>6, <1>7
  <2> HIDE DEF all, Tried, last
  <2> QED
    BY <1>5, <2>1, <2>2, <2>3, <2>4
<1> QED
  BY <1>3, <1>8 DEF Devices
=============================================================================
