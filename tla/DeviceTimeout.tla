---------------------------- MODULE DeviceTimeout ----------------------------
(***************************************************************************)
(* The systemd generator of the kdump initrd                               *)
(* (src/init/device-timeout-generator.c): for each device that fstab       *)
(* mounts below /kdump it writes a drop-in with the time limit of          *)
(* rd.timeout, in a directory named after the device's unit.  That name    *)
(* must be the one systemd itself derives from the same line of fstab.     *)
(*                                                                         *)
(* Texts are as in CommandLine: the parameter r stands for rd.timeout; a   *)
(* word without special characters is one character of a path, and "ue" a     *)
(* letter that takes two bytes in UTF-8.  g is a record                    *)
(*   signed     whether char is signed: it is on x86, not on ARM, POWER    *)
(*              and S/390                                                  *)
(*   confs      the texts of /etc/cmdline.d, [name, text], as readdir()    *)
(*              returns them                                               *)
(*   etc, proc  the texts of /etc/cmdline (a set, empty if there is none)  *)
(*              and /proc/cmdline                                          *)
(*   fstab      the lines of fstab, [file, spec], as getfsent() returns    *)
(*              them                                                       *)
(***************************************************************************)
EXTENDS Integers, CommandLine

CONSTANT ChunkAdd    \* READ_CHUNK_ADD: how much one read() asks for

Unset == "?"         \* a byte that was never written

(* ---- slurp_fd: every read() writes to the start of the buffer ---- *)

Slurp(text) ==
    LET n == Len(text)
        last == IF n % ChunkAdd = 0 THEN ChunkAdd ELSE n % ChunkAdd
    IN  IF n <= ChunkAdd THEN text
        ELSE [i \in 1..n |-> CASE i <= last     -> text[n - last + i]
                               [] i > ChunkAdd  -> Unset
                               [] OTHER         -> text[n - last - ChunkAdd + i]]

(* ---- parse_dir, parse_cmdline_files ---- *)

Texts(g) ==
    LET confs == SelectSeq(g.confs, LAMBDA c : Last(c.name) = ".conf")
    IN  Map(LAMBDA c : c.text, confs) \o SetToSeq(g.etc) \o <<g.proc>>

CmdlineFiles(g) == FlattenSeq(Map(LAMBDA t : Args(Slurp(t)), Texts(g)))

(* ---- get_timeout ---- *)

Digit == [c \in Octal |-> CASE c = "0" -> 0 [] c = "2" -> 2 [] c = "4" -> 4]

\* strtoul with base 0: blanks, a sign and the mark of a base, then digits
Number(val) ==
    LET first  == SelectInSeq(val, LAMBDA c : c # Space)
        text   == IF first = 0 THEN <<>> ELSE SubSeq(val, first, Len(val))
        signed == text # <<>> /\ Head(text) \in {"+", "-"}
        abs    == IF signed THEN Tail(text) ELSE text
        hex    == Len(abs) > 2 /\ SubSeq(abs, 1, 2) = <<"0", "x">>
    IN  [minus  |-> signed /\ Head(text) = "-",
         base   |-> IF hex THEN 16 ELSE IF abs # <<>> /\ Head(abs) = "0" THEN 8 ELSE 10,
         digits |-> IF hex THEN SubSeq(abs, 3, Len(abs)) ELSE abs]

IsNumber(val) ==
    /\ val # NoValue /\ val # <<>>
    /\ Number(val).digits # <<>> /\ ToSet(Number(val).digits) \subseteq Octal

\* -n stands for 2^64 - n, what strtoul makes of a minus sign
StrToUL(val) ==
    LET number == Number(val)
        n == FoldLeft(LAMBDA m, c : m * number.base + Digit[c], 0, number.digits)
    IN  IF number.minus THEN -n ELSE n

\* an invalid value leaves the one before; 0 is "no limit"
GetTimeout(timeout, arg) ==
    IF arg[1] = <<"r">> /\ IsNumber(arg[2]) THEN StrToUL(arg[2]) ELSE timeout

Timeout(g) == FoldLeft(GetTimeout, 0, CmdlineFiles(g))

(* ---- unescape_fstab: skips one character too few, writes no end ---- *)

UnescapeFstab(spec) ==
    LET n == Len(spec)
        escape[i \in 1..n] ==
            spec[i] = Backslash /\ i + 3 <= n /\ \A k \in 1..3 : spec[i + k] \in Octal
        rest[i \in 1..(n + 1)] ==
            IF i = n + 1 THEN <<>>
            ELSE IF escape[i] THEN <<Decoded(SubSeq(spec, i + 1, i + 3))>> \o rest[i + 3]
            ELSE <<spec[i]>> \o rest[i + 1]
    IN  rest[1] \o SubSeq(spec, Len(rest[1]) + 1, n)

(* ---- evaluate_spec ---- *)

Lower(char) ==
    CASE char = "LABEL" -> "label" [] char = "UUID" -> "uuid"
      [] char = "PARTLABEL" -> "partlabel" [] OTHER -> char

\* The bytes of the characters that are not letters or digits.
Bytes == [c \in {Space, Quote, Apostrophe, ",", "-", ".", "/", "=", Backslash, "ue"} |->
            CASE c = Space -> <<32>> [] c = Quote -> <<34>> [] c = Apostrophe -> <<39>>
              [] c = "," -> <<44>> [] c = "-" -> <<45>> [] c = "." -> <<46>> [] c = "/" -> <<47>>
              [] c = "=" -> <<61>> [] c = Backslash -> <<92>> [] c = "ue" -> <<195, 188>>]

HexDigits == <<"0", "1", "2", "3", "4", "5", "6", "7", "8", "9", "a", "b", "c", "d", "e", "f">>

\* what systemd writes for a character that may not stand in the name of a unit
SystemdEscape(char) ==
    FlattenSeq(Map(LAMBDA b : <<Backslash, "x", HexDigits[(b \div 16) + 1], HexDigits[(b % 16) + 1]>>,
                   Bytes[char]))

\* blkid_encode_string, which is also what udev does; it leaves UTF-8 alone
Encode(char) == IF char \in {Space, Quote, Apostrophe, "/", Backslash, ","}
                THEN SystemdEscape(char) ELSE <<char>>

DevPrefix == <<"/", "dev", "/", "disk", "/", "by", "-">>

ByTag(tag, value) == DevPrefix \o Map(Lower, tag) \o <<"/">> \o FlattenSeq(Map(Encode, value))

NoDevice == <<"no device">>

\* any "=" makes a tag; the value ends at the last quote of its kind
EvaluateSpec(spec) ==
    LET eq    == SelectInSeq(spec, LAMBDA c : c = "=")
        tag   == SubSeq(spec, 1, eq - 1)
        value == SubSeq(spec, eq + 1, Len(spec))
        close == SelectLastInSeq(value, LAMBDA c : c = Head(value))
    IN  IF eq = 0 THEN spec
        ELSE IF value = <<>> \/ Head(value) \notin {Quote, Apostrophe} THEN ByTag(tag, value)
        ELSE IF close = 1 THEN NoDevice
        ELSE ByTag(tag, SubSeq(value, 2, close - 1))

(* ---- path_escape ---- *)

SafeUnitChar(char) == char \notin DOMAIN Bytes \ {"."}

\* hex_digit() has a char for its result: of 2^28 - 8 .. 2^28 - 1, what is left
\* is one of the letters O .. V.
Letters == <<"O", "P", "Q", "R", "S", "T", "U", "V">>

HexDigit(d) == IF d < 16 THEN HexDigits[d + 1] ELSE Letters[d - (2 ^ 28 - 8) + 1]

\* (unsigned)c >> 4: a signed char is extended to 32 bits before
Shifted(b, signed) == IF signed /\ b >= 128 THEN (2 ^ 28 - 16) + (b \div 16) ELSE b \div 16

HexEscape(char, signed) ==
    FlattenSeq(Map(LAMBDA b : <<Backslash, "x", HexDigit(Shifted(b, signed)), HexDigit(b % 16)>>,
                   Bytes[char]))

\* of a row of slashes the last one stays, none at the end
Dedup(path) ==
    LET keep == {i \in DOMAIN path : path[i] # "/" \/ (i < Len(path) /\ path[i + 1] # "/")}
    IN  FoldLeftDomain(LAMBDA out, i : IF i \in keep THEN Append(out, path[i]) ELSE out, <<>>, path)

UnitChar(char, signed) ==
    IF char = "/" THEN <<"-">> ELSE IF SafeUnitChar(char) THEN <<char>> ELSE HexEscape(char, signed)

\* altered: the slashes at the end stay
PathEscapeTrailing(path, signed) ==
    LET src == IF path # <<>> /\ Head(path) = "/" THEN Tail(path) ELSE path
    IN  FlattenSeq(Map(LAMBDA c : UnitChar(c, signed), src))

PathEscape(path, signed) ==
    LET dedup == Dedup(path)
        src   == IF Head(dedup) = "/" THEN Tail(dedup) ELSE dedup
        dot   == src # <<>> /\ Head(src) = "."
        rest  == FlattenSeq(Map(LAMBDA c : UnitChar(c, signed), IF dot THEN Tail(src) ELSE src))
    IN  IF dedup = <<>> THEN <<"-">>
        ELSE IF dot THEN HexEscape(".", signed) \o rest ELSE rest

(* ---- create_conf, write_conf, main: the drop-ins that are written ---- *)

UnderKdump(line) == IsPrefix(<<"/", "kdump", "/">>, line.file)

Confs(g) ==
    LET lines == SelectSeq(g.fstab, UnderKdump)
        devs  == {EvaluateSpec(UnescapeFstab(lines[i].spec)) : i \in DOMAIN lines}
    IN  {[unit |-> PathEscape(d, g.signed), timeout |-> Timeout(g)] : d \in devs \ {NoDevice}}

(* ---- what systemd-fstab-generator makes of the same line ---- *)

Tags == {"LABEL", "UUID", "PARTLABEL"}

Device(spec) ==
    LET value == SubSeq(spec, 3, Len(spec))
        q == IF value = <<>> THEN Space ELSE Head(value)
        bare == IF q \in {Quote, Apostrophe} /\ Len(value) > 1 /\ Last(value) = q
                THEN SubSeq(value, 2, Len(value) - 1) ELSE value
    IN  IF Len(spec) > 1 /\ spec[1] \in Tags /\ spec[2] = "=" THEN ByTag(<<spec[1]>>, bare) ELSE spec

\* the components of a path, escaped one by one
Unit(path) ==
    LET step(st, c) ==
            IF c = "/" THEN [st EXCEPT !.slash = TRUE]
            ELSE [slash |-> FALSE,
                  out |-> st.out \o (IF st.slash /\ st.out # <<>> THEN <<"-">> ELSE <<>>)
                            \o (IF SafeUnitChar(c) THEN <<c>> ELSE SystemdEscape(c))]
        unit == FoldLeft(step, [slash |-> FALSE, out |-> <<>>], path).out
    IN  IF unit = <<>> THEN <<"-">> ELSE unit

IsDevice(path) == IsPrefix(<<"/", "dev", "/">>, path)

\* lines on which the two agree by what the code does
Plain(spec) ==
    LET eq == SelectInSeq(spec, LAMBDA c : c = "=")
        value == SubSeq(spec, eq + 1, Len(spec))
        marks == {i \in DOMAIN value : value[i] = Head(value)}
    IN  /\ UnescapeFstab(spec) = spec
        /\ eq # 0 => eq = 2 /\ spec[1] \in Tags
        /\ eq # 0 /\ value # <<>> /\ Head(value) \in {Quote, Apostrophe} =>
              Len(value) > 1 /\ Len(value) \in marks

(***************************************************************************)
(* Every device that is mounted below /kdump gets its time limit: the      *)
(* drop-in stands under the name that systemd gives to the device's unit,  *)
(* whatever ASCII characters and slashes its name has                      *)
(* (device-timeout-generator.c:359-401, 296-335), and the limit is the     *)
(* last one of /etc/cmdline.d, /etc/cmdline and /proc/cmdline that         *)
(* strtoul() takes to its end, an invalid one never undoes a valid one.    *)
(* Where char is signed it fails for every name with a byte from 128 up,   *)
(* that is for UTF-8: hex_escape() shifts the sign along (lines 343-351).  *)
(* It also fails for a name with "=" in it (line 307) and for octal        *)
(* escapes that getfsent() left (line 105), which Plain excepts, and for a *)
(* command line longer than one read(), whose first part is overwritten    *)
(* (line 182).                                                             *)
(***************************************************************************)
Wide(spec) == \E i \in DOMAIN spec : spec[i] = "ue"

Applies(g) ==
    LET words == FlattenSeq(Map(Args, Texts(g)))
        valid == SelectSeq(words, LAMBDA a : a[1] = <<"r">> /\ IsNumber(a[2]))
        limit == IF valid = <<>> THEN 0 ELSE StrToUL(Last(valid)[2])
    IN  (\A t \in ToSet(Texts(g)) : Len(t) <= ChunkAdd) =>
          \A i \in DOMAIN g.fstab :
            LET line == g.fstab[i]
            IN  UnderKdump(line) /\ Plain(line.spec) /\ IsDevice(Device(line.spec)) =>
                  ([unit |-> Unit(Device(line.spec)), timeout |-> limit] \in Confs(g)
                     <=> ~(g.signed /\ Wide(line.spec)))
=============================================================================
