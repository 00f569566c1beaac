----------------------------- MODULE SftpPacket -----------------------------
(***************************************************************************)
(* The packets of the SFTP upload (class SFTPPacket and the requests of    *)
(* SFTPTransfer, src/kdumptool/sshtransfer.cc): how a request is put       *)
(* together, how a reply is taken from the pipe in pieces, and what        *)
(* kdumptool concludes from it.  SftpTransfer models the order of requests *)
(* and replies; here a packet is what goes over the wire.                  *)
(*                                                                         *)
(* A packet is a sequence of bytes that begins with its length.  Strings   *)
(* are sequences of bytes, too.                                            *)
(***************************************************************************)
EXTENDS Integers, Sequences, SequencesExt

CONSTANTS Base,     \* number of values of a byte: 256
          Chunk     \* BUFSIZ

Throws == "out_of_range"     \* std::vector::at(), no KError

(* ---- class SFTPPacket ---- *)

\* the most significant byte first; what does not fit is lost
Digits(val, n) == [i \in 1..n |-> (val \div Base^(n - i)) % Base]

Value(bytes) == FoldLeft(LAMBDA n, b : Base * n + b, 0, bytes)

\* room for the length
Empty == <<0, 0, 0, 0>>

AddByte(pkt, val) == Append(pkt, val)

AddInt32(pkt, val) == pkt \o Digits(val, 4)

AddInt64(pkt, val) == pkt \o Digits(val, 8)

AddString(pkt, val) == AddInt32(pkt, Len(val)) \o val

Update(pkt) == Digits(Len(pkt) - 4, 4) \o SubSeq(pkt, 5, Len(pkt))

\* n bytes from gpos on, the first byte has position 0
GetInt(pkt, gpos, n) ==
    IF gpos + n > Len(pkt) THEN -1 ELSE Value(SubSeq(pkt, gpos + 1, gpos + n))

\* The end is not tested: what is behind it is undefined
GetString(pkt, gpos) ==
    LET len == GetInt(pkt, gpos, 4)
    IN  IF len = -1 THEN Throws
        ELSE IF gpos + 4 + len > Len(pkt) THEN "undefined"
        ELSE "string"

(* ---- the requests of class SFTPTransfer ---- *)

Types == [init |-> 1, version |-> 2, open |-> 3, close |-> 4, write |-> 6, mkdir |-> 14,
          stat |-> 17, status |-> 101, handle |-> 102, attrs |-> 105]

\* SSH_FXF_WRITE | SSH_FXF_CREAT | SSH_FXF_TRUNC
Flags == 2 + 8 + 16

\* name: the path, or the handle
Request(r) ==
    LET head == AddByte(Empty, Types[r.step])
        named == AddString(AddInt32(head, r.id), r.name)
    IN  Update(CASE r.step = "init"             -> AddInt32(head, 3)
                 [] r.step \in {"stat", "close"} -> named
                 [] r.step = "mkdir"            -> AddInt32(named, 0)
                 [] r.step = "open"             -> AddInt32(AddInt32(named, Flags), 0)
                 [] r.step = "write" -> AddInt32(AddInt64(named, r.off), Len(r.data)) \o r.data)

(* ---- recvPacket() ---- *)

\* altered: the buffer keeps its size for the last piece
PieceWhole(length, k) == Chunk

\* the size of the k-th read
Piece(length, k) == IF k * Chunk <= length THEN Chunk ELSE length - (k - 1) * Chunk

\* What is taken from the pipe; its end before the packet's end throws
RecvPacket(pipe) ==
    LET length == GetInt(pipe, 0, 4)
        count == (length + Chunk - 1) \div Chunk
        size == FoldLeft(LAMBDA n, k : n + Piece(length, k), 0, [k \in 1..count |-> k])
    IN  IF length = -1 \/ 4 + size > Len(pipe) THEN [pkt |-> <<>>, rest |-> pipe]
        ELSE [pkt |-> SubSeq(pipe, 1, 4 + size), rest |-> SubSeq(pipe, 5 + size, Len(pipe))]

(* ---- what a reply means to the function that waits for it ---- *)

\* SSH_FX_OK is 0, SSH_FX_NO_SUCH_FILE is 2
Status(step, code) ==
    CASE code = -1                          -> Throws
      [] step = "stat" /\ code = 2          -> "missing"
      [] step \notin {"stat", "open"} /\ code = 0 -> "ok"
      [] OTHER                              -> "error"

Answer(step, pkt, lastid) ==
    LET type == GetInt(pkt, 4, 1)
        id == GetInt(pkt, 5, 4)
    IN  CASE step = "init" -> IF type = -1 \/ (type = Types.version /\ id = -1) THEN Throws
                              ELSE IF type = Types.version THEN "ok" ELSE "error"
          [] type = -1 \/ id = -1 -> Throws
          [] id # lastid -> "error"
          [] step = "stat" /\ type = Types.attrs  -> "present"
          [] step = "open" /\ type = Types.handle -> GetString(pkt, 9)
          [] type = Types.status -> Status(step, GetInt(pkt, 9, 4))
          [] OTHER -> "error"

(* ---- the server's side (draft-ietf-secsh-filexfer-02) ---- *)

\* kinds: how long each field is; 0 for a string
Layout == [init |-> <<1, 4>>, stat |-> <<1, 4, 0>>, close |-> <<1, 4, 0>>, mkdir |-> <<1, 4, 0, 4>>,
           open |-> <<1, 4, 0, 4, 4>>, write |-> <<1, 4, 0, 8, 0>>]

Fields(pkt, kinds) ==
    LET take(acc, n) ==
          LET from == acc.pos
              len == IF n = 0 THEN Value(SubSeq(pkt, from, from + 3)) ELSE n
              first == IF n = 0 THEN from + 4 ELSE from
              bytes == SubSeq(pkt, first, first + len - 1)
          IN  [pos |-> first + len, all |-> Append(acc.all, IF n = 0 THEN bytes ELSE <<Value(bytes)>>)]
    IN  FoldLeft(take, [pos |-> 5, all |-> <<>>], kinds)

Meant(r) ==
    CASE r.step = "init"             -> <<<<1>>, <<3>>>>
      [] r.step \in {"stat", "close"} -> <<<<Types[r.step]>>, <<r.id>>, r.name>>
      [] r.step = "mkdir"            -> <<<<14>>, <<r.id>>, r.name, <<0>>>>
      [] r.step = "open"             -> <<<<3>>, <<r.id>>, r.name, <<26>>, <<0>>>>
      [] r.step = "write"            -> <<<<6>>, <<r.id>>, r.name, <<r.off>>, r.data>>

\* body: what follows the id
Reply(type, id, body) ==
    LET inner == <<Types[type]>> \o Digits(id, 4) \o body
    IN  Digits(Len(inner), 4) \o inner

Right(step, a) ==
    CASE a.type = "version" -> step = "init"
      [] a.type = "attrs"   -> step = "stat"
      [] a.type = "handle"  -> step = "open" /\ 4 + Value(SubSeq(a.body, 1, 4)) <= Len(a.body)
      [] a.type = "status"  -> step \notin {"init", "stat", "open"} /\ Value(SubSeq(a.body, 1, 4)) = 0

(***************************************************************************)
(* The server reads every request as it is meant, to its last byte         *)
(* (sshtransfer.cc:529-610); a reply is taken from the pipe whole and      *)
(* leaves the next one there, however the lengths fall on the buffer       *)
(* (sshtransfer.cc:673-690).  A request counts as done exactly if the      *)
(* reply says so and carries its id, also if the reply is cut short within *)
(* its own length; only a handle is taken without looking at the end of    *)
(* the packet (sshtransfer.cc:333-338).                                    *)
(***************************************************************************)
PacketsAreRead(r, a, next, cut) ==
    LET wire  == Request(r)
        taken == Fields(wire, Layout[r.step])
        reply == Reply(a.type, a.id, a.body)
        got   == RecvPacket(reply \o next)
        short == SubSeq(a.body, 1, Len(a.body) - cut)
        done  == Answer(r.step, Reply(a.type, a.id, short), r.id)
    IN  /\ taken.all = Meant(r) /\ taken.pos = Len(wire) + 1
        /\ Value(SubSeq(wire, 1, 4)) = Len(wire) - 4
        /\ got = [pkt |-> reply, rest |-> next]
        /\ \A n \in 0..(Len(reply) - 1) : RecvPacket(SubSeq(reply, 1, n)).pkt = <<>>
        /\ cut = 0 => (done \in {"ok", "present", "string"} <=>
                         Right(r.step, a) /\ (r.step = "init" \/ a.id = r.id))
        /\ Len(short) < 4 /\ a.type = "status" => done \notin {"ok", "present", "string", "missing"}
=============================================================================
