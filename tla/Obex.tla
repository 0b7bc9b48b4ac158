-------------------------------- MODULE Obex --------------------------------
(***************************************************************************)
(* The packet layer of the transfer library (tools/libexword/src/obex.c):  *)
(* one obex_t from CONNECT to the end of the session, a device that may    *)
(* answer late, and the transfer buffers of DataBuffer.                    *)
(*                                                                         *)
(* A byte is a cell that says what it stands for, so that a byte read in   *)
(* the wrong place is seen to be one.  A packet from the host starts with  *)
(* a sequence number, which the device sends back before its response.     *)
(* The loops over headers and transfers are one step per turn.             *)
(***************************************************************************)
EXTENDS DataBuffer, Integers, SequencesExt

CONSTANTS
  DefaultMtu,    \* OBEX_DEFAULT_MTU
  MtuTx,         \* 0x4006, once connected
  MaxMtu,        \* OBEX_MAXIMUM_MTU
  Threshold,     \* OBEX_OBJECT_ALLOCATIONTRESHOLD
  NameLen,       \* bytes of a file name
  Objects,       \* what is moved: pairs of a size and "file" or "cmd"
  Chunk,         \* body bytes the device puts in one response
  SeqRange,        \* 256: seq_num is a uint8_t
  SeqTries,      \* 100: the empty transfers obex_verify_seq sits through
  RspByte,       \* the byte a response code is sent as
  MaxRequests, MaxFaults, MaxEmpty   \* bounds of the model

ASSUME ObexAssumption ==
  /\ DefaultMtu \in Nat /\ DefaultMtu >= 11
  /\ NameLen \in Nat \ {0} /\ MtuTx \in Nat /\ MtuTx >= NameLen + 15
  /\ MaxMtu \in Nat /\ Threshold \in Nat /\ Chunk \in Nat
  /\ Objects \subseteq Nat \X {"cmd", "file"}
  /\ SeqRange \in Nat \ {0} /\ SeqTries \in Nat \ {0} /\ MaxRequests \in Nat

VARIABLES
  self,          \* obex_t: mtu_tx, mtu_rx, seq_num, rx_msg, tx_msg
  object,        \* obex_object_t of the request
  send,          \* locals of obex_object_send: tx_left, addmore, finished, seq
  pc,            \* where obex_request stands
  tries,         \* count in obex_verify_seq
  rsp,           \* what obex_object_receive is about to return
  progress,      \* cb_filename, cb_filelength, cb_transferred
  device,        \* packets to answer, file received, file to send, transfers
  session,       \* requests made, result of the latest, what went wrong
  file           \* contents the current request is to move

vars == <<self, object, send, pc, tries, rsp, progress, device, session, file>>

Codes == {"CONTINUE", "SUCCESS", "FORBIDDEN"}
NoObject == [cmd |-> "NONE", name |-> "none", nonhdr |-> 0, txq |-> <<>>,
             offset |-> 0, hinted |-> 0, rx_body |-> <<>>, body |-> <<>>,
             seen |-> {}]
Pads(n) == [i \in 1 .. n |-> <<"pad">>]

\* A byte-stream or unicode header, and a 32-bit one.
Stream(hi, bytes) == <<<<"hdr", hi, 3 + Len(bytes), 0>>>> \o Pads(2) \o bytes
Uint(hi, v) == <<<<"hdr", hi, 5, v>>>> \o Pads(4)

\* Seeded fault: any sequence number will do.
MatchesAny(cell, seq) == IF cell[1] = "seq" THEN {TRUE} ELSE BOOLEAN

\* The byte values that a cell can have been sent as.
Matches(cell, seq) ==
  CASE cell[1] = "seq" -> {cell[2] = seq}
    [] cell[1] = "rsp" -> {RspByte[cell[2]] = seq}
    [] OTHER           -> BOOLEAN

\* ntohs of the two bytes behind the first one.  Read from anywhere but the
\* start of a response they make a number that the buffer does not hold.
LengthField(data) ==
  IF Len(data) >= 3 /\ data[1][1] = "rsp" THEN data[2][2] ELSE -1

Init ==
  /\ self = [mtu_tx |-> DefaultMtu, mtu_rx |-> DefaultMtu, seq_num |-> 0,
             rx_msg |-> buf_new(DefaultMtu), tx_msg |-> buf_new(MaxMtu)]
  /\ object = NoObject
  /\ send = [tx_left |-> 0, addmore |-> FALSE, finished |-> FALSE, seq |-> 0]
  /\ pc = "idle"
  /\ tries = 0
  /\ rsp = "none"
  /\ progress = [name |-> 0, length |-> 0, transferred |-> 0]
  /\ device = [inbox |-> <<>>, got |-> <<>>, out |-> <<>>, wire |-> <<>>,
               gone |-> FALSE]
  /\ session = [requests |-> 0, packets |-> 0, status |-> "new", faults |-> 0,
                empties |-> 0, own |-> TRUE, reply |-> 0, collided |-> FALSE]
  /\ file = <<>>
-----------------------------------------------------------------------------
(* A request: obex_object_new, the headers of exword.c, obex_request.      *)

Contents(n) == [i \in 1 .. n |-> <<"byte", session.requests + 1, i>>]

\* Bytes before the headers: obex_connect_hdr and locale, or the path flags.
obex_object_set_nonhdr_data(cmd) ==
  CASE cmd = "CONNECT" -> 7 [] cmd = "SETPATH" -> 2 [] OTHER -> 0

obex_object_new(cmd, name) ==
  [NoObject EXCEPT !.cmd = cmd, !.name = name,
                   !.nonhdr = obex_object_set_nonhdr_data(cmd)]

\* The name says which file is meant: whose request, and how long.
NameHeader(n) ==
  [hi |-> "NAME", buf |-> Stream("NAME",
     [i \in 1 .. NameLen |-> <<"name", session.requests + 1, n>>])]
LengthHeader(n) == [hi |-> "LENGTH", buf |-> Uint("LENGTH", n)]
BodyHeader(bytes) == [hi |-> "BODY", buf |-> bytes]

Headers(cmd, bytes) ==
  CASE cmd = "PUT" ->
         <<NameHeader(Len(bytes)), LengthHeader(Len(bytes)), BodyHeader(bytes)>>
    [] cmd \in {"GET", "SETPATH"} -> <<NameHeader(Len(bytes))>>
    [] OTHER -> <<>>

Ready == pc = "idle" /\ session.requests < MaxRequests

StartRequest(cmd, name, bytes) ==
  /\ Ready
  /\ object' = [obex_object_new(cmd, name) EXCEPT !.txq = Headers(cmd, bytes)]
  /\ file' = bytes
  /\ pc' = "send"
  /\ session' = [session EXCEPT !.requests = @ + 1,
                   !.status = IF @ = "broken" THEN @ ELSE "busy"]
  /\ UNCHANGED <<self, send, tries, rsp, progress, device>>

exword_connect == session.requests = 0 /\ StartRequest("CONNECT", "none", <<>>)

Connected == session.requests > 0

exword_send_file ==
  /\ Connected
  /\ \E o \in Objects : StartRequest("PUT", o[2], Contents(o[1]))

exword_get_file ==
  /\ Connected
  /\ \E o \in Objects : StartRequest("GET", o[2], Contents(o[1]))

exword_setpath == Connected /\ StartRequest("SETPATH", "none", <<>>)
exword_disconnect == Connected /\ StartRequest("DISCONNECT", "none", <<>>)

\* obex_request returns an error: the object is deleted.  What has been read
\* stays in rx_msg, and the session goes on with the next request.
Fail(faults) ==
  /\ pc' = IF object.cmd \in {"CONNECT", "DISCONNECT"} THEN "end" ELSE "idle"
  /\ object' = [object EXCEPT !.txq = <<>>]
  /\ session' = [session EXCEPT !.status = "broken", !.faults = @ + faults]
-----------------------------------------------------------------------------
(* obex_object_send                                                        *)

SendBegin ==
  /\ pc = "send"
  /\ self' = [self EXCEPT !.tx_msg =
                buf_insert_end(buf_reuse(self.tx_msg), Pads(object.nonhdr))]
  /\ object' = [object EXCEPT !.nonhdr = 0]
  /\ send' = [send EXCEPT !.tx_left = self.mtu_tx - 4, !.addmore = TRUE]
  /\ pc' = "fill"
  /\ UNCHANGED <<tries, rsp, progress, device, session, file>>

Put(cells, left, q) ==
  /\ self' = [self EXCEPT !.tx_msg = buf_insert_end(self.tx_msg, cells)]
  /\ send' = [send EXCEPT !.tx_left = left, !.addmore = left # 0]
  /\ object' = [object EXCEPT !.txq = q]
  /\ UNCHANGED <<pc, tries, rsp, progress, device, session, file>>

Filling == pc = "fill" /\ send.addmore /\ object.txq # <<>>

\* Seeded fault: the fragment header is not counted.
FragmentTooLong ==
  LET h == Head(object.txq)
      n == send.tx_left
  IN /\ Filling /\ h.hi = "BODY"
     /\ send.tx_left < Len(h.buf)
     /\ Put(Stream("BODY", SubSeq(h.buf, 1, n)), 0,
            <<[h EXCEPT !.buf = SubSeq(h.buf, n + 1, Len(h.buf))]>>
              \o Tail(object.txq))

\* Seeded fault: the rest of the body starts one byte late.
FragmentSkipsByte ==
  LET h == Head(object.txq)
      n == send.tx_left - 3
  IN /\ Filling /\ h.hi = "BODY"
     /\ send.tx_left < Len(h.buf) + 3
     /\ Put(Stream("BODY", SubSeq(h.buf, 1, n)), 0,
            <<[h EXCEPT !.buf = SubSeq(h.buf, n + 2, Len(h.buf))]>>
              \o Tail(object.txq))

\* send_body, the body does not fit: fill the packet with its first bytes.
SendFragment ==
  LET h == Head(object.txq)
      n == send.tx_left - 3
  IN /\ Filling /\ h.hi = "BODY"
     /\ send.tx_left < Len(h.buf) + 3
     /\ Put(Stream("BODY", SubSeq(h.buf, 1, n)), 0,
            <<[h EXCEPT !.buf = SubSeq(h.buf, n + 1, Len(h.buf))]>>
              \o Tail(object.txq))

\* send_body, the rest of the body fits; tx_left goes down by the body alone.
SendBodyEnd ==
  LET h == Head(object.txq)
  IN /\ Filling /\ h.hi = "BODY"
     /\ send.tx_left >= Len(h.buf) + 3
     /\ Put(Stream("BODY_END", h.buf), send.tx_left - Len(h.buf),
            Tail(object.txq))

\* Names are short: NAME and LENGTH always fit in the first packet.
SendHeader ==
  LET h == Head(object.txq)
  IN /\ Filling /\ h.hi # "BODY"
     /\ Len(h.buf) <= send.tx_left
     /\ Put(h.buf, send.tx_left - Len(h.buf), Tail(object.txq))

Packet == buf_insert_begin(self.tx_msg,
            <<<<"seq", self.seq_num, session.packets + 1>>,
              <<"cmd", object.cmd, object.txq = <<>> >> >> \o Pads(2))

SendPacket ==
  /\ pc = "fill" /\ (~send.addmore \/ object.txq = <<>>)
  /\ self' = [self EXCEPT !.tx_msg = Packet,
                          !.seq_num = (self.seq_num + 1) % SeqRange]
  /\ send' = [send EXCEPT !.finished = object.txq = <<>>, !.seq = self.seq_num]
  /\ tries' = 0
  /\ IF device.gone
     THEN Fail(0) /\ UNCHANGED device
     ELSE /\ device' = [device EXCEPT !.inbox = Append(@, Packet.data)]
          /\ pc' = "verify"
          /\ session' = [session EXCEPT !.packets = @ + 1]
          /\ UNCHANGED object
  /\ UNCHANGED <<rsp, progress, file>>
-----------------------------------------------------------------------------
(* obex_verify_seq and obex_bulk_read                                      *)

\* buf_reserve_end of a whole transfer, the transfer, buf_remove_end of the
\* bytes that did not come.
Landed(bytes) ==
  LET free == self.mtu_rx - Len(bytes)
  IN buf_remove_end(buf_insert_end(self.rx_msg, bytes \o Junk(free)), free)

\* What one libusb_bulk_transfer reads: at most mtu_rx bytes.
Take == SubSeq(Head(device.wire), 1,
               IF Len(Head(device.wire)) < self.mtu_rx
               THEN Len(Head(device.wire)) ELSE self.mtu_rx)
Rest == IF Len(Head(device.wire)) > self.mtu_rx
        THEN <<SubSeq(Head(device.wire), self.mtu_rx + 1,
                      Len(Head(device.wire)))>> \o Tail(device.wire)
        ELSE Tail(device.wire)

Reads == device' = [device EXCEPT !.wire = Rest]

SeqEmpty ==
  /\ pc = "verify" /\ device.wire # <<>> /\ Take = <<>>
  /\ Reads
  /\ tries' = tries + 1
  /\ IF tries + 1 < SeqTries THEN UNCHANGED <<pc, object, session>> ELSE Fail(0)
  /\ self' = IF tries + 1 < SeqTries THEN self
             ELSE [self EXCEPT !.rx_msg = Landed(<<>>)]
  /\ UNCHANGED <<send, rsp, progress, file>>

\* The first byte of the transfer decides; the first byte of the buffer goes.
SeqMatches ==
  /\ pc = "verify" /\ device.wire # <<>> /\ Take # <<>>
  /\ TRUE \in Matches(Head(Take), send.seq)
  /\ Reads
  /\ self' = [self EXCEPT !.rx_msg = buf_remove_begin(Landed(Take), 1)]
  /\ session' = [session EXCEPT
       !.collided = @ \/ Head(Take)[1] # "seq"]
  /\ pc' = "read"
  /\ UNCHANGED <<object, tries, send, rsp, progress, file>>

SeqMismatch ==
  /\ pc = "verify" /\ device.wire # <<>> /\ Take # <<>>
  /\ FALSE \in Matches(Head(Take), send.seq)
  /\ Reads
  /\ self' = [self EXCEPT !.rx_msg = Landed(Take)]
  /\ Fail(0)
  /\ UNCHANGED <<tries, send, rsp, progress, file>>

\* The device is slow by more than 1245 ms, or gone.
TimedOut ==
  /\ pc \in {"verify", "read"} /\ device.wire = <<>>
  /\ device.inbox = <<>> \/ session.faults < MaxFaults

Late == IF device.inbox = <<>> THEN 0 ELSE 1

SeqTimeout ==
  /\ pc = "verify" /\ TimedOut
  /\ self' = [self EXCEPT !.rx_msg = Landed(<<>>)]
  /\ Fail(Late)
  /\ UNCHANGED <<send, tries, rsp, progress, device, file>>

Whole == self.rx_msg.data # <<>>
           /\ LengthField(self.rx_msg.data) = Len(self.rx_msg.data)

obex_bulk_read ==
  /\ pc = "read" /\ ~Whole /\ device.wire # <<>>
  /\ Reads
  /\ self' = [self EXCEPT !.rx_msg = Landed(Take)]
  /\ UNCHANGED <<object, send, pc, tries, rsp, progress, session, file>>

\* Seeded fault: a timed out read is tried again for ever.
ReadRetries ==
  /\ pc = "read" /\ ~Whole /\ TimedOut
  /\ self' = [self EXCEPT !.rx_msg = Landed(<<>>)]
  /\ UNCHANGED <<object, send, pc, tries, rsp, progress, device, session, file>>

\* obex_request calls the callback also for a failed obex_object_receive.
ReadTimeout ==
  /\ pc = "read" /\ ~Whole /\ TimedOut
  /\ self' = [self EXCEPT !.rx_msg = Landed(<<>>)]
  /\ session' = [session EXCEPT !.faults = @ + Late]
  /\ rsp' = "error"
  /\ pc' = "callback"
  /\ UNCHANGED <<object, send, tries, progress, device, file>>
-----------------------------------------------------------------------------
(* obex_object_receive                                                     *)

\* The common header of a whole response, and the bytes before the headers.
ReceiveHeader ==
  LET code == self.rx_msg.data[1][2]
      short == object.cmd = "CONNECT" /\ code = "SUCCESS"
                 /\ Len(self.rx_msg.data) < 7
      offset == IF object.cmd = "CONNECT" THEN 8 ELSE object.offset
      rest == buf_remove_begin(buf_remove_begin(self.rx_msg, 3), offset)
      tx == CASE object.cmd = "DISCONNECT" -> DefaultMtu
              [] object.cmd = "CONNECT" /\ code = "SUCCESS" -> MtuTx
              [] OTHER -> self.mtu_tx
  IN /\ pc = "read" /\ Whole
     /\ ~short
     /\ self' = [self EXCEPT !.rx_msg = rest, !.mtu_tx = tx]
     /\ object' = [object EXCEPT !.offset = 0]
     /\ session' = [session EXCEPT !.reply = self.rx_msg.data[1][3]]
     /\ rsp' = code
     /\ pc' = "parse"
     /\ UNCHANGED <<send, tries, progress, device, file>>

\* The bytes behind a header.  Its length is checked against the message
\* without the three bytes it starts with: a copy may run past the data.
Fragment(data, n) ==
  [i \in 1 .. n |-> IF i + 3 <= Len(data) THEN data[i + 3] ELSE <<"junk">>]

\* obex_object_receive_body: the buffer the fragment goes to.
BodyBuffer(n) ==
  LET b == IF object.rx_body = <<>>
           THEN buf_new(IF object.hinted # 0 THEN object.hinted
                        ELSE Threshold + n)
           ELSE object.rx_body[1]
  IN IF b.avail + b.tail < n
     THEN buf_resize(b, buf_total_size(b) + Threshold + n) ELSE b

Parsing == pc = "parse" /\ self.rx_msg.data # <<>>

ParseBody ==
  LET data == self.rx_msg.data
      h == data[1]
      b == buf_insert_end(BodyBuffer(h[3] - 3), Fragment(data, h[3] - 3))
  IN /\ Parsing /\ h[1] = "hdr" /\ h[2] \in {"BODY", "BODY_END"}
     /\ object' = IF h[2] = "BODY"
                  THEN [object EXCEPT !.rx_body = <<b>>]
                  ELSE [object EXCEPT !.rx_body = <<>>, !.body = b.data,
                                      !.seen = @ \cup {"BODY"}]
     /\ self' = [self EXCEPT !.rx_msg = buf_remove_begin(@, h[3])]
     /\ UNCHANGED <<send, pc, tries, rsp, progress, device, session, file>>

ParseHeader ==
  LET h == self.rx_msg.data[1]
  IN /\ Parsing /\ h[1] = "hdr" /\ h[2] \notin {"BODY", "BODY_END"}
     /\ object' = IF h[2] = "LENGTH" THEN [object EXCEPT !.hinted = h[4], !.seen = @ \cup {"LENGTH"}]
                  ELSE object
     /\ self' = [self EXCEPT !.rx_msg = buf_remove_begin(@, h[3])]
     /\ UNCHANGED <<send, pc, tries, rsp, progress, device, session, file>>

\* Seeded fault: only the first header of a response is read.
ParseStopsEarly ==
  /\ pc = "parse"
  /\ pc' = "callback"
  /\ UNCHANGED <<self, object, send, tries, rsp, progress, device, session, file>>

ParseDone ==
  /\ pc = "parse" /\ self.rx_msg.data = <<>>
  /\ pc' = "callback"
  /\ UNCHANGED <<self, object, send, tries, rsp, progress, device, session, file>>
-----------------------------------------------------------------------------
(* exword_handle_callbacks reads the packet sent and the headers received. *)

HeaderAt(i) ==
  IF i <= Len(self.tx_msg.data) THEN self.tx_msg.data[i]
  ELSE <<"junk", "none", 0, 0>>

\* Seeded fault: the count goes on from the file before.
PutProgressNoReset ==
  LET h == HeaderAt(5)
      named == h[1] = "hdr" /\ h[2] = "NAME" /\ object.name = "file"
      p == IF named THEN [progress EXCEPT !.name = session.requests,
                                          !.length = HeaderAt(5 + h[3])[4]]
           ELSE progress
      b == IF named THEN HeaderAt(5 + h[3] + 5) ELSE h
  IN IF b[1] = "hdr" /\ b[2] \in {"BODY", "BODY_END"}
     THEN [p EXCEPT !.transferred = @ + (b[3] - 3)] ELSE p

\* A NAME header starts a file: its LENGTH follows it, then the body.
PutProgress ==
  LET h == HeaderAt(5)
      named == h[1] = "hdr" /\ h[2] = "NAME" /\ object.name = "file"
      p == IF named THEN [name |-> session.requests, transferred |-> 0,
                          length |-> HeaderAt(5 + h[3])[4]]
           ELSE progress
      b == IF named THEN HeaderAt(5 + h[3] + 5) ELSE h
  IN IF b[1] = "hdr" /\ b[2] \in {"BODY", "BODY_END"}
     THEN [p EXCEPT !.transferred = @ + (b[3] - 3)] ELSE p

\* obex_object_getnextheader: the headers received so far are looked through.
Received(hi) == hi \in object.seen

\* cb_filename is forgotten for a command, kept for the packets that follow.
GetProgress ==
  LET h == HeaderAt(5)
      named == Len(self.tx_msg.data) > 4 /\ h[1] = "hdr" /\ h[2] = "NAME"
      p == IF named THEN [progress EXCEPT !.name =
                            IF object.name = "file" THEN session.requests ELSE 0]
           ELSE progress
  IN IF p.name = 0 THEN p
     ELSE [p EXCEPT
        !.transferred = IF Received("BODY") THEN Len(object.body)
                        ELSE IF object.rx_body # <<>> THEN Len(object.rx_body[1].data)
                        ELSE @,
        !.length = IF Received("LENGTH") THEN object.hinted ELSE @]

exword_handle_callbacks ==
  progress' = CASE object.cmd = "PUT" -> PutProgress
                [] object.cmd = "GET" -> GetProgress
                [] OTHER              -> progress

\* The loop of obex_request: a CONTINUE sends what is left of the object.
RequestContinues ==
  /\ pc = "callback" /\ rsp = "CONTINUE"
  /\ exword_handle_callbacks
  /\ pc' = "send"
  /\ UNCHANGED <<self, object, send, tries, rsp, device, session, file>>

RequestReturns ==
  /\ pc = "callback" /\ rsp # "CONTINUE"
  /\ exword_handle_callbacks
  /\ pc' = IF object.cmd = "DISCONNECT"
              \/ (object.cmd = "CONNECT" /\ rsp # "SUCCESS")
           THEN "end" ELSE "idle"
  /\ session' = [session EXCEPT
       !.own = @ /\ (rsp = "SUCCESS" => session.reply = session.packets),
       !.status = IF @ = "broken" \/ rsp = "error" THEN "broken"
                  ELSE IF rsp = "SUCCESS" THEN "success" ELSE "refused"]
  /\ UNCHANGED <<self, object, send, tries, rsp, device, file>>
-----------------------------------------------------------------------------
(* The device, as the packets it is sent and the answers obex.c expects of *)
(* it describe it.  It answers in order, perhaps after the host gave up.   *)

Reply(code, id, cells) ==
  <<<<"rsp", code, id>>, <<"len", 3 + Len(cells)>>, <<"len">>>> \o cells

\* The next part of a file being fetched, with its length in the first one.
Part(out, first) ==
  (IF first THEN Uint("LENGTH", Len(out)) ELSE <<>>)
    \o (IF Len(out) > Chunk THEN Stream("BODY", SubSeq(out, 1, Chunk))
        ELSE Stream("BODY_END", out))

\* The transfers that carry an answer; a short one may come empty first.
Transfers(s, r) ==
  {[wire |-> <<s, r>>, empties |-> 0], [wire |-> <<s \o r>>, empties |-> 0],
   [wire |-> <<s, <<>>, r>>, empties |-> 1],
   [wire |-> [i \in 1 .. SeqTries |-> <<>>] \o <<s, r>>,
    empties |-> SeqTries]}

Answers(t) ==
  /\ session.empties + t.empties <= MaxEmpty
  /\ session' = [session EXCEPT !.empties = @ + t.empties]

\* What a packet says: the file it names, and the bytes behind its body header,
\* as many as that says.
Named(p) == {c \in ToSet(p) : c[1] = "name"}
BodyAt(p) == {i \in DOMAIN p : p[i][1] = "hdr" /\ p[i][2] \in {"BODY", "BODY_END"}}
Carried(p) ==
  LET i == CHOOSE j \in BodyAt(p) : TRUE
  IN IF BodyAt(p) = {} THEN <<>> ELSE SubSeq(p, i + 3, i + p[i][3] - 1)

\* The file a GET asks for; its later packets ask for the rest of it.
Fetched(p) ==
  LET name == CHOOSE c \in Named(p) : TRUE
  IN IF Named(p) # {} THEN [i \in 1 .. name[3] |-> <<"byte", name[2], i>>]
     ELSE device.out

\* The device may refuse; otherwise it asks for more until the last packet.
Response(p, refuse) ==
  LET cmd == p[2][2]
      more == \/ cmd = "PUT" /\ ~p[2][3]
              \/ cmd = "GET" /\ Len(Fetched(p)) > Chunk
      cells == CASE cmd = "CONNECT" -> Pads(8)
                 [] cmd = "GET"     -> Part(Fetched(p), Named(p) # {})
                 [] OTHER           -> <<>>
  IN IF refuse THEN Reply("FORBIDDEN", p[1][3], <<>>)
     ELSE Reply(IF more THEN "CONTINUE" ELSE "SUCCESS", p[1][3], cells)

DeviceAnswer ==
  LET p == Head(device.inbox)
      got == (IF Named(p) # {} THEN <<>> ELSE device.got) \o Carried(p)
      left == IF Len(Fetched(p)) > Chunk
              THEN SubSeq(Fetched(p), Chunk + 1, Len(Fetched(p))) ELSE <<>>
  IN /\ device.inbox # <<>>
     /\ \E refuse \in BOOLEAN : \E t \in Transfers(<<p[1]>>, Response(p, refuse)) :
          /\ Answers(t)
          /\ device' = [device EXCEPT
               !.inbox = Tail(@), !.wire = @ \o t.wire,
               !.got = IF p[2][2] = "PUT" THEN got ELSE @,
               !.out = IF p[2][2] = "GET" THEN left ELSE @]
     /\ UNCHANGED <<self, object, send, pc, tries, rsp, progress, file>>

\* Where the host would notice: the steps in between do not touch the bus.
Unplug ==
  /\ pc \in {"idle", "verify", "read"} /\ ~device.gone /\ session.faults < MaxFaults
  /\ session' = [session EXCEPT !.faults = @ + 1]
  /\ device' = [device EXCEPT !.gone = TRUE, !.inbox = <<>>, !.wire = <<>>]
  /\ UNCHANGED <<self, object, send, pc, tries, rsp, progress, file>>
-----------------------------------------------------------------------------
Request == exword_connect \/ exword_send_file \/ exword_get_file
             \/ exword_setpath \/ exword_disconnect

obex_object_send == SendBegin \/ SendFragment \/ SendBodyEnd \/ SendHeader
                      \/ SendPacket
obex_verify_seq == SeqEmpty \/ SeqMatches \/ SeqMismatch \/ SeqTimeout
obex_object_receive == obex_bulk_read \/ ReadTimeout \/ ReceiveHeader
                         \/ ParseBody \/ ParseHeader \/ ParseDone
obex_request == obex_object_send \/ obex_verify_seq \/ obex_object_receive
                  \/ RequestContinues \/ RequestReturns

\* The program goes no further once the session has ended.
Ended ==
  /\ pc = "end" \/ (pc = "idle" /\ session.requests = MaxRequests)
  /\ UNCHANGED vars

Next == Request \/ obex_request \/ DeviceAnswer \/ Unplug \/ Ended

\* A transfer ends by itself, with data or after 1245 ms; the device that is
\* there answers what it was sent.
Spec == Init /\ [][Next]_vars /\ WF_vars(obex_request) /\ WF_vars(DeviceAnswer)
-----------------------------------------------------------------------------
(* Properties                                                              *)

\* The counters of every buffer in use account for its whole block, so that
\* no reservation of obex_bulk_read, obex_verify_seq or obex_object_send
\* runs past it, whatever sequence of packets went through.  rx_msg, whose
\* head is not reclaimed within a session, grows by what it has received and
\* never by more than one transfer beyond that.
BufferSound ==
  /\ Sound(self.rx_msg) /\ Sound(self.tx_msg)
  /\ self.rx_msg.block
       <= self.rx_msg.head + Len(self.rx_msg.data) + DefaultMtu
  /\ \A i \in DOMAIN object.rx_body : Sound(object.rx_body[i])

\* A packet never exceeds the transfer unit in force, however the headers and
\* the body fragment share it (obex_object_send, send_body).
PacketFits ==
  pc \in {"verify", "read"} => Len(self.tx_msg.data) <= self.mtu_tx

\* Until a request ends with an error nothing is left in rx_msg: bytes behind
\* a response would be taken for the start of the next one.
CleanBetweenRequests ==
  pc = "idle" /\ session.status # "broken" => self.rx_msg.data = <<>>

\* After a timeout the late answers of earlier packets are still read.  A
\* request reports success from another packet's response only when
\* obex_verify_seq took something else than a sequence number for one.
StaleOnlyByCollision == session.own \/ session.collided

\* When a file transfer has succeeded the progress callback has reported the
\* whole of it, and never more than the length it announced.
ProgressMatches ==
  /\ pc = "idle" /\ session.status = "success" /\ object.name = "file" =>
       /\ progress.name = session.requests
       /\ progress.transferred = Len(file) /\ progress.length = Len(file)

\* Every request ends, also when the device answers late, with empty
\* transfers, or is unplugged.
RequestEnds == pc # "idle" ~> pc \in {"idle", "end"}

\* What has arrived of the file of the current request.
Moved ==
  CASE object.cmd = "PUT" ->
         IF \A i \in DOMAIN device.got : device.got[i][2] = session.requests
         THEN device.got ELSE <<>>
    [] object.cmd = "GET" ->
         IF Received("BODY") THEN object.body
         ELSE IF object.rx_body # <<>> THEN object.rx_body[1].data ELSE <<>>
    [] OTHER -> <<>>

Promise(x) == IF session.status = "broken" THEN <<>> ELSE x

Abstract == INSTANCE FileTransfer WITH
  Files  <- {[i \in 1 .. n |-> <<"byte", r, i>>] :
               n \in {o[1] : o \in Objects} \cup {0}, r \in 1 .. MaxRequests},
  status <- session.status,
  file   <- Promise(file),
  moved  <- Promise(Moved)

\* obex_request implements FileTransfer: fragments, coalesced and empty
\* transfers included, the file arrives in order, and success means all of it.
TransferExact == Abstract!Spec
=============================================================================
