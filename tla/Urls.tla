-------------------------------- MODULE Urls --------------------------------
(***************************************************************************)
(* The URLs of KDUMP_SAVEDIR (src/kdumptool/urlparser.cc,                  *)
(* KString::decodeURL): scheme, user, password, host, port and path.       *)
(*                                                                         *)
(* A text is a sequence of characters; a word stands for any letters, so   *)
(* that a scheme or a host name is one character.  A percent sign and two  *)
(* hexadecimal digits are three characters; the second digit is a word     *)
(* that names the code.                                                    *)
(***************************************************************************)
EXTENDS Integers, Sequences, SequencesExt

Digits == {"1", "2"}
Schemes == [file |-> "file", ftp |-> "ftp", sftp |-> "sftp", scp |-> "sftp", ssh |-> "ssh",
            nfs |-> "nfs", cifs |-> "cifs", smb |-> "cifs"]
Letters == DOMAIN Schemes \cup {"v", "w", "localhost"}

NotAUrl == [kind |-> "throws"]

FirstOf(text, chars) == SelectInSeq(text, LAMBDA c : c \in chars)

From(text, i) == SubSeq(text, i, Len(text))
Before(text, i) == SubSeq(text, 1, i - 1)

(* ---- extractScheme, string2protocol ---- *)

\* where the scheme ends; 0 if there is none
ExtractScheme(url) ==
    LET end == FirstOf(url, {":", "/", "?", "#"})
    IN  IF url # <<>> /\ Head(url) \in Letters /\ end # 0 /\ url[end] = ":" THEN end ELSE 0

(* ---- extractAuthority ---- *)

\* how long it is, with the slashes before it
ExtractAuthority(text) ==
    LET end == FirstOf(From(text, 3), {"/", "?", "#"})
    IN  IF ~IsPrefix(<<"/", "/">>, text) THEN 0
        ELSE IF end = 0 THEN Len(text) ELSE 2 + end - 1

(* ---- the port: digits at the end, if a colon is before them ---- *)

PortAt(authority) ==
    LET last == SelectLastInSeq(authority, LAMBDA c : c \notin Digits)
    IN  IF last # 0 /\ authority[last] = ":" THEN last ELSE 0

AsInt(digits) == FoldLeft(LAMBDA n, c : 10 * n + (IF c = "1" THEN 1 ELSE 2), 0, digits)

(* ---- decodeURL ---- *)

Hex == Digits \cup {"0", "3", "4", "5", "a", "f"}

CharOf(high, low) ==
    CASE high = "4" /\ low = "0" -> "@"
      [] high = "3" /\ low = "a" -> ":"
      [] high = "2" /\ low = "f" -> "/"
      [] high = "2" /\ low = "5" -> "%"
      [] high = "2" /\ low = "3" -> "#"
      [] high = "3" /\ low = "f" -> "?"
      [] OTHER -> "other"

DecodeURL(text) ==
    LET n == Len(text)
        rest[i \in 1..(n + 1)] ==
            IF i = n + 1 THEN <<>>
            ELSE IF text[i] = "%" /\ i + 2 <= n /\ text[i + 1] \in Hex /\ text[i + 2] \in Hex
                 THEN <<CharOf(text[i + 1], text[i + 2])>> \o rest[i + 3]
            ELSE <<text[i]>> \o rest[i + 1]
    IN  rest[1]

(* ---- the constructor ---- *)

\* altered: the user ends at the first "@"
UserAtFirst(authority) == SelectInSeq(authority, LAMBDA c : c = "@")

UserAt(authority) == SelectLastInSeq(authority, LAMBDA c : c = "@")

\* without a scheme: a local file, or NFS if there is a host
Protocol(scheme, host) ==
    IF scheme = <<>> THEN (IF host \in {<<>>, <<"localhost">>} THEN "file" ELSE "nfs")
    ELSE IF Len(scheme) = 1 /\ Head(scheme) \in DOMAIN Schemes THEN Schemes[Head(scheme)]
    ELSE "bad"

DefaultUser(protocol) ==
    CASE protocol = "ftp" -> <<"anonymous">>
      [] protocol \in {"sftp", "ssh"} -> <<"root">>
      [] OTHER -> <<>>

\* Everything is split before it is decoded
SplitPort(authority) ==
    LET p == PortAt(authority)
    IN  IF p = 0 THEN [authority |-> authority, digits |-> <<>>]
        ELSE [authority |-> Before(authority, p), digits |-> From(authority, p + 1)]

\* at, colon: where the user's part and the user's name end; 0 if they are not given
SplitUser(authority, at, colon) ==
    LET info == Before(authority, at)
    IN  [host     |-> DecodeURL(From(authority, at + 1)),
         user     |-> DecodeURL(IF at = 0 THEN <<>> ELSE IF colon = 0 THEN info ELSE Before(info, colon)),
         password |-> DecodeURL(IF at = 0 \/ colon = 0 THEN <<>> ELSE From(info, colon + 1))]

Target(protocol, who, digits, path) ==
    LET remote == IF protocol = "file" /\ who.host = <<"localhost">> THEN <<>> ELSE who.host
    IN  IF path = <<>> \/ Head(path) # "/" \/ protocol = "bad"
           \/ (protocol = "file" /\ remote # <<>>)
        THEN NotAUrl
        ELSE [kind |-> "url", protocol |-> protocol,
              user |-> IF who.user = <<>> THEN DefaultUser(protocol) ELSE who.user,
              password |-> who.password, host |-> remote,
              port |-> IF digits = <<>> THEN -1 ELSE AsInt(digits), path |-> DecodeURL(path)]

Parse(url) ==
    LET user(authority, at) == SplitUser(authority, at, FirstOf(Before(authority, at), {":"}))
        target(scheme, who, digits, path) == Target(Protocol(scheme, who.host), who, digits, path)
        split(scheme, port, path) ==
            target(scheme, user(port.authority, UserAt(port.authority)), port.digits, path)
        rest(scheme, text, a) == split(scheme, SplitPort(SubSeq(text, 3, a)), From(text, a + 1))
        after(scheme, text) == rest(scheme, text, ExtractAuthority(text))
        start(s) == after(Before(url, s), From(url, s + 1))
    IN  start(ExtractScheme(url))

(* ---- how an administrator writes the URL of a target (kdump.5) ---- *)

Encode(text, special) ==
    FlattenSeq([i \in DOMAIN text |->
        IF text[i] \notin special \cup {"%"} THEN <<text[i]>>
        ELSE CASE text[i] = "@" -> <<"%", "4", "0">> [] text[i] = ":" -> <<"%", "3", "a">>
               [] text[i] = "/" -> <<"%", "2", "f">> [] text[i] = "%" -> <<"%", "2", "5">>
               [] text[i] = "?" -> <<"%", "3", "f">> [] text[i] = "#" -> <<"%", "2", "3">>])

\* unencoded, each of them would end the authority
Ends == {"/", "?", "#"}

\* t: [scheme, user, password, host, port, path]; <<>> is "not given"
Compose(t) ==
    LET info == IF t.user = <<>> /\ t.password = <<>> THEN <<>>
                ELSE Encode(t.user, Ends \cup {":"})
                     \o (IF t.password = <<>> THEN <<>> ELSE <<":">> \o Encode(t.password, Ends))
                     \o <<"@">>
        port == IF t.port = <<>> THEN <<>> ELSE <<":">> \o t.port
        authority == info \o t.host \o port
    IN  (IF t.scheme = <<>> THEN <<>> ELSE t.scheme \o <<":">>)
        \o (IF authority = <<>> THEN <<>> ELSE <<"/", "/">> \o authority)
        \o Encode(t.path, {})

(***************************************************************************)
(* The URL means the target: whatever characters user, password and path   *)
(* have, "@" and ":" in the password included, the dump goes to that host  *)
(* and path as that user, and to that port (urlparser.cc:149-183); a       *)
(* target without a scheme is a file, or NFS if it has a host.  What has   *)
(* to be percent-encoded, which kdump.5 does not tell, is "%", what ends   *)
(* the authority (line 120: "/", "?" and "#") in user and password, and    *)
(* ":" in the user.  In the path "?" and "#" stand for themselves.         *)
(***************************************************************************)
MeansTarget(t) ==
    LET url == Parse(Compose(t))
        local == t.host \in {<<>>, <<"localhost">>}
        protocol == IF t.scheme = <<>> THEN (IF local THEN "file" ELSE "nfs")
                    ELSE Schemes[Head(t.scheme)]
    IN  IF protocol = "file" /\ ~local THEN url = NotAUrl
        ELSE url = [kind |-> "url", protocol |-> protocol,
                    user |-> IF t.user = <<>> THEN DefaultUser(protocol) ELSE t.user,
                    password |-> t.password,
                    host |-> IF protocol = "file" THEN <<>> ELSE t.host,
                    port |-> IF t.port = <<>> THEN -1 ELSE AsInt(t.port), path |-> t.path]
=============================================================================
