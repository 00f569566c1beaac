---------------------------- MODULE KernelConfig ----------------------------
(***************************************************************************)
(* The configuration of a kernel as text (src/kdumptool/kconfig.cc): read  *)
(* line by line from /boot/config-* (a gzFile) or from the text that was   *)
(* extracted from an image.  One line that is not understood throws, and   *)
(* nothing of the configuration is used.                                   *)
(*                                                                         *)
(* A line is a sequence of characters; a word stands for any letters.      *)
(***************************************************************************)
EXTENDS CommandLine, Integers

CONSTANT LineSize    \* BUFSIZ: gzgets() returns at most one character less

Hash == "#"
Letters == {"m", "n", "r", "v", "y", "is", "not", "set"}
Minus == "-"

IsNotSet == <<"is", Space, "not", Space, "set">>

Contained(part, text) == \E i \in 0..(Len(text) - Len(part)) : SubSeq(text, i + 1, i + Len(part)) = part

(* ---- class KconfigValue ---- *)

\* T_INVALID: a line without an option; and a line that throws
Invalid == [invalid |-> TRUE]
Bad == [throws |-> TRUE]

Tristate(v) == [tristate |-> v]
Integer(v) == [integer |-> v]
String(v) == [string |-> v]

\* KString::isNumber: digits after at most one sign
IsInteger(text) ==
    LET body == IF text # <<>> /\ Head(text) = Minus THEN Tail(text) ELSE text
    IN  body # <<>> /\ ToSet(body) \subseteq Octal

AsInt(text) ==
    LET digits == SelectSeq(text, LAMBDA c : c # Minus)
        digit == [c \in Octal |-> CASE c = "0" -> 0 [] c = "2" -> 2 [] c = "4" -> 4]
        n == FoldLeft(LAMBDA k, c : 10 * k + digit[c], 0, digits)
    IN  IF Head(text) = Minus THEN -n ELSE n

\* the one in front; altered: the one at the end stays
UnquoteOne(text) == IF Head(text) = Quote THEN Tail(text) ELSE text

\* each quote for itself
UnquoteBoth(text) ==
    LET tail == UnquoteOne(text)
    IN  IF tail # <<>> /\ Last(tail) = Quote THEN Front(tail) ELSE tail

Value(text) ==
    IF text = <<"y">> THEN Tristate("on")
    ELSE IF text = <<"m">> THEN Tristate("module")
    ELSE IF IsInteger(text) THEN Integer(AsInt(text))
    ELSE String(UnquoteBoth(text))

Named(name, value) == [name |-> name, value |-> value]

\* "# NAME is not set"
Off(str) ==
    LET end == SelectInSubSeq(str, 3, Len(str), LAMBDA c : c = Space)
    IN  IF Len(str) > 2 /\ str[2] = Space /\ str[3] \in Letters
        THEN Named(SubSeq(str, 3, end - 1), Tristate("off"))
        ELSE Named(<<>>, Bad)

FromString(str) ==
    LET eq == SelectInSeq(str, LAMBDA c : c = "=")
    IN  IF str = <<>> THEN Named(<<>>, Invalid)
        ELSE IF str[1] = Hash
             THEN IF Contained(IsNotSet, str) THEN Off(str) ELSE Named(<<>>, Invalid)
        ELSE IF eq = 0 \/ eq = Len(str) THEN Named(<<>>, Bad)
        ELSE Named(SubSeq(str, 1, eq - 1), Value(SubSeq(str, eq + 1, Len(str))))

(* ---- class Kconfig ---- *)

Unread == {Named(<<>>, Bad)}

\* of an option that occurs twice the last value
Read(lines) ==
    LET found == Map(FromString, lines)
        valid == SelectSeq(found, LAMBDA f : f.value # Invalid)
    IN  IF \E i \in DOMAIN found : found[i].value = Bad THEN Unread
        ELSE {valid[i] : i \in {k \in DOMAIN valid :
                                  \A j \in (k + 1)..Len(valid) : valid[j].name # valid[k].name}}

ReadFromKernel(lines) == Read(lines)

\* gzgets: a line that is too long comes in pieces, the last one with the
\* line feed, which is taken off
Pieces(line) ==
    LET full == Append(line, "\n")
        n == LineSize - 1
        count == (Len(full) + n - 1) \div n
        piece(k) == SubSeq(full, (k - 1) * n + 1, IF k = count THEN Len(full) ELSE k * n)
    IN  [k \in 1..count |-> SelectSeq(piece(k), LAMBDA c : c # "\n")]

ReadFromConfig(lines) == Read(FlattenSeq(Map(Pieces, lines)))

\* The file of the kernel's version is taken if there is one, else the text in
\* the image; disk is empty or has the lines of that file
RetrieveKernelConfig(versioned, disk, image) ==
    IF versioned /\ disk # <<>> THEN ReadFromConfig(disk[1]) ELSE ReadFromKernel(image)

Get(configs, name) ==
    LET mine == {c \in configs \ Unread : c.name = name}
    IN  IF mine = {} THEN Invalid ELSE (CHOOSE c \in mine : TRUE).value

(* ---- how the kernel's build writes the options (scripts/kconfig) ---- *)

\* quotes and backslashes in a string get a backslash
Escaped(text) ==
    FlattenSeq(Map(LAMBDA c : IF c \in {Quote, Backslash} THEN <<Backslash, c>> ELSE <<c>>, text))

\* digits: what is written for an integer
Written(option) ==
    LET set == option.name \o <<"=">>
    IN  CASE option.value = Tristate("on")     -> Append(set, "y")
          [] option.value = Tristate("module") -> Append(set, "m")
          [] option.value = Tristate("off")    -> <<Hash, Space>> \o option.name \o <<Space>> \o IsNotSet
          [] "string" \in DOMAIN option.value  -> set \o <<Quote>> \o Escaped(option.value.string) \o <<Quote>>
          [] "integer" \in DOMAIN option.value -> set \o option.digits

\* the backslashes are not taken off
AsRead(value) == IF "string" \in DOMAIN value THEN String(Escaped(value.string)) ELSE value

(***************************************************************************)
(* Every option of a configuration is read back with its type and value,   *)
(* from a file or from the image: a string is a string also if it looks    *)
(* like a number, like "y" or like a comment (kconfig.cc:113-137),         *)
(* and keeps the backslashes before its quotes.  From a file they may be   *)
(* lost, all of them, if one line is longer than BUFSIZ and its rest is no *)
(* option (kconfig.cc:236, 99); the configuration in the image, which      *)
(* would do, is then not looked at (kerneltool.cc:419-444).                *)
(***************************************************************************)
OptionsAreRead(options) ==
    LET lines == Map(Written, options)
        all == {Named(options[i].name, AsRead(options[i].value)) : i \in DOMAIN options}
        long == \E i \in DOMAIN lines : Len(lines[i]) >= LineSize
    IN  \A versioned \in BOOLEAN, disk \in {<<>>, <<lines>>} :
          LET kconfig == RetrieveKernelConfig(versioned, disk, lines)
          IN  /\ kconfig = all \/ (long /\ versioned /\ disk # <<>>)
              /\ kconfig = all => \A o \in all : Get(kconfig, o.name) = o.value
=============================================================================
