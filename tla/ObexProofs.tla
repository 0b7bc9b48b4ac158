----------------------------- MODULE ObexProofs -----------------------------
(* Proofs about the transfer buffers (DataBuffer) and the packet layer     *)
(* (Obex), for any transfer units, files, sequence range and number of     *)
(* requests and faults.                                                    *)
EXTENDS Obex, SequenceTheorems, TLAPS

-----------------------------------------------------------------------------
(* The buffer operations keep the counters natural and add them up to the  *)
(* block.  Each one is described by the fields of the buffer it returns.   *)

Buffers(S) == [block : Nat, head : Nat, avail : Nat, tail : Nat, data : Seq(S)]

GoodBuffer(b, S) == b \in Buffers(S) /\ Sound(b)

Exactly(bl, h, a, t, d) ==
  [block : {bl}, head : {h}, avail : {a}, tail : {t}, data : {d}]

\* What an insertion makes of a block of bl bytes: behind the data the head
\* stays, before the data the tail.
GrownBehind(g, bl, h, d) ==
  \E bl2, a2, t2 \in Nat :
    /\ bl2 = h + a2 + t2 + Len(d)
    /\ bl2 = bl \/ bl2 = h + Len(d)
    /\ g \in Exactly(bl2, h, a2, t2, d)

GrownBefore(g, bl, t, d) ==
  \E bl2, h2, a2 \in Nat :
    /\ bl2 = h2 + a2 + t + Len(d)
    /\ bl2 = bl \/ bl2 = t + Len(d)
    /\ g \in Exactly(bl2, h2, a2, t, d)

\* A good buffer has natural counters that add up.
LEMMA OpenedBuffer ==
  ASSUME NEW S, NEW b, GoodBuffer(b, S)
  PROVE  \E bl, h, a, t \in Nat, d \in Seq(S) :
           /\ bl = h + a + t + Len(d)
           /\ b \in Exactly(bl, h, a, t, d)
<1>1. b \in Exactly(b.block, b.head, b.avail, b.tail, b.data)
  BY DEF GoodBuffer, Buffers, Exactly
<1>2. /\ b.block \in Nat /\ b.head \in Nat /\ b.avail \in Nat /\ b.tail \in Nat
      /\ b.data \in Seq(S)
      /\ b.block = b.head + b.avail + b.tail + Len(b.data)
  BY DEF GoodBuffer, Buffers, Sound, buf_total_size
<1>3. QED
  BY <1>1, <1>2, Zenon

\* Counters and data that add up make a good buffer.
LEMMA MadeBuffer ==
  ASSUME NEW S, NEW bl \in Nat, NEW h \in Nat, NEW a \in Nat, NEW t \in Nat,
         NEW d \in Seq(S), bl = h + a + t + Len(d),
         NEW g \in Exactly(bl, h, a, t, d)
  PROVE  GoodBuffer(g, S)
  BY DEF GoodBuffer, Buffers, Sound, buf_total_size, Exactly

\* The fields of a buffer are the ones it is described by.
LEMMA BufferFields ==
  ASSUME NEW bl, NEW h, NEW a, NEW t, NEW d, NEW b \in Exactly(bl, h, a, t, d)
  PROVE  b.block = bl /\ b.head = h /\ b.avail = a /\ b.tail = t /\ b.data = d
  BY Zenon DEF Exactly

\* buf_new: an empty block.
LEMMA NewBuffer ==
  ASSUME NEW S, NEW n \in Nat
  PROVE  /\ GoodBuffer(buf_new(n), S)
         /\ buf_new(n).data = <<>> /\ buf_new(n).block = n
         /\ buf_new(n).head = 0
  BY DEF GoodBuffer, Buffers, Sound, buf_new, buf_total_size

\* buf_resize: the new bytes are behind the bytes in use.
LEMMA ResizedFields ==
  ASSUME NEW S, NEW bl \in Nat, NEW h \in Nat, NEW a \in Nat, NEW t \in Nat,
         NEW d \in Seq(S), bl = h + a + t + Len(d),
         NEW b \in Exactly(bl, h, a, t, d),
         NEW n
  PROVE  buf_resize(b, n) \in Exactly(n, h, a + (n - bl), t, d)
<1>0. b.block = bl /\ b.head = h /\ b.avail = a /\ b.tail = t /\ b.data = d
  BY BufferFields
<1>1. buf_total_size(b) = bl
  BY <1>0 DEF buf_total_size
<1>2. buf_resize(b, n) = [b EXCEPT !.block = n, !.avail = a + (n - bl)]
  BY <1>1, <1>0, Zenon DEF buf_resize
<1>3. QED
  BY <1>2, Zenon DEF Exactly

\* buf_resize to a larger block keeps the bytes in use.
LEMMA ResizeBuffer ==
  ASSUME NEW S, NEW b, GoodBuffer(b, S), NEW n \in Nat, n >= b.block
  PROVE  GoodBuffer(buf_resize(b, n), S) /\ buf_resize(b, n).data = b.data
<1>1. PICK bl \in Nat, h \in Nat, a \in Nat, t \in Nat, d \in Seq(S) :
             bl = h + a + t + Len(d) /\ b \in Exactly(bl, h, a, t, d)
  BY OpenedBuffer, Zenon
<1>2. buf_resize(b, n) \in Exactly(n, h, a + (n - bl), t, d)
  BY <1>1, ResizedFields
<1>3. b.block = bl /\ b.data = d
  BY <1>1, Zenon DEF Exactly
<1>4. Len(d) \in Nat
  OBVIOUS
<1>5. a + (n - bl) \in Nat /\ n = h + (a + (n - bl)) + t + Len(d)
  BY <1>1, <1>3, <1>4
<1>6. GoodBuffer(buf_resize(b, n), S)
  BY <1>2, <1>5, MadeBuffer
<1>7. buf_resize(b, n).data = d
  BY <1>2, Zenon DEF Exactly
<1>8. QED
  BY <1>3, <1>6, <1>7

\* buf_reuse: all of the block is free again.
LEMMA ReuseBuffer ==
  ASSUME NEW S, NEW b, GoodBuffer(b, S)
  PROVE  GoodBuffer(buf_reuse(b), S) /\ buf_reuse(b).data = <<>>
<1>1. PICK bl \in Nat, h \in Nat, a \in Nat, t \in Nat, d \in Seq(S) :
             bl = h + a + t + Len(d) /\ b \in Exactly(bl, h, a, t, d)
  BY OpenedBuffer, Zenon
<1>2. b.block = bl /\ b.head = h /\ b.avail = a /\ b.tail = t /\ b.data = d
  BY <1>1, Zenon DEF Exactly
<1>3. buf_total_size(b) = bl
  BY <1>1, <1>2 DEF buf_total_size
<1>4. buf_reuse(b) = [b EXCEPT !.head = 0, !.avail = bl, !.tail = 0,
                               !.data = <<>>]
  BY <1>3, Zenon DEF buf_reuse
<1>5. buf_reuse(b) \in Exactly(bl, 0, bl, 0, <<>>)
  BY <1>1, <1>4, Zenon DEF Exactly
<1>6. <<>> \in Seq(S) /\ bl = 0 + bl + 0 + Len(<<>>)
  OBVIOUS
<1>7. GoodBuffer(buf_reuse(b), S)
  BY <1>5, <1>6, MadeBuffer
<1>8. buf_reuse(b).data = <<>>
  BY <1>5, Zenon DEF Exactly
<1>9. QED
  BY <1>7, <1>8

\* buf_insert_end: the bytes come behind the others, and the block grows only
\* by what does not fit behind the data.
LEMMA InsertedEnd ==
  ASSUME NEW S, NEW bl \in Nat, NEW h \in Nat, NEW a \in Nat, NEW t \in Nat,
         NEW d \in Seq(S), bl = h + a + t + Len(d),
         NEW b \in Exactly(bl, h, a, t, d),
         NEW bytes \in Seq(S)
  PROVE  GrownBehind(buf_insert_end(b, bytes), bl, h, d \o bytes)
<1> DEFINE n == Len(bytes)
           dd == d \o bytes
           l == Len(d)
<1>1. b.block = bl /\ b.head = h /\ b.avail = a /\ b.tail = t /\ b.data = d
  BY BufferFields
<1>2. buf_total_size(b) = bl
  BY <1>1 DEF buf_total_size
<1>3. n \in Nat /\ l \in Nat /\ Len(dd) = l + n /\ bl = h + a + t + l
  OBVIOUS
<1>4. CASE t >= n
  <2>1. buf_insert_end(b, bytes) = [b EXCEPT !.tail = t - n, !.data = dd]
    BY <1>1, <1>4 DEF buf_insert_end
  <2> HIDE DEF n, l, dd
  <2>2. buf_insert_end(b, bytes) \in Exactly(bl, h, a, t - n, dd)
    BY <2>1, Zenon DEF Exactly
  <2>3. t - n \in Nat /\ bl = h + a + (t - n) + Len(dd)
    BY <1>3, <1>4
  <2>4. QED
    BY <2>2, <2>3, Zenon DEF dd, GrownBehind
<1>5. CASE ~(t >= n) /\ ~(n > t + a)
  <2> DEFINE rest == a - (n - t)
  <2>1. buf_insert_end(b, bytes) = [b EXCEPT !.tail = 0, !.avail = rest, !.data = dd]
    BY <1>1, <1>5 DEF buf_insert_end
  <2> HIDE DEF n, l, dd
  <2>2. buf_insert_end(b, bytes) \in Exactly(bl, h, rest, 0, dd)
    BY <2>1, Zenon DEF Exactly
  <2>3. rest \in Nat /\ 0 \in Nat /\ bl = h + rest + 0 + Len(dd)
    BY <1>3, <1>5
  <2> HIDE DEF rest
  <2>4. QED
    BY <2>2, <2>3, Zenon DEF dd, GrownBehind
<1>6. CASE ~(t >= n) /\ n > t + a
  <2> DEFINE size == bl + n - t - a
             r == buf_resize(b, size)
  <2>1. buf_insert_end(b, bytes)
          = [r EXCEPT !.tail = 0, !.avail = r.avail - (n - r.tail), !.data = dd]
    BY <1>1, <1>2, <1>6 DEF buf_insert_end
  <2>2. r \in Exactly(size, h, a + (size - bl), t, d)
    BY ResizedFields
  <2>3. r.avail = a + (size - bl) /\ r.tail = t
    BY <2>2, BufferFields
  <2> HIDE DEF n, l, dd, r
  <2>4. /\ (a + (size - bl)) - (n - t) = 0 /\ size \in Nat /\ 0 \in Nat
        /\ size = h + 0 + 0 + Len(dd) /\ size = h + Len(dd)
    BY <1>3, <1>6
  <2> HIDE DEF size
  <2>5. buf_insert_end(b, bytes) = [r EXCEPT !.tail = 0, !.avail = 0, !.data = dd]
    BY <2>1, <2>3, <2>4, Zenon
  <2>6. buf_insert_end(b, bytes) \in Exactly(size, h, 0, 0, dd)
    BY <2>2, <2>5, Zenon DEF Exactly
  <2>7. QED
    BY <2>4, <2>6, Zenon DEF dd, GrownBehind
<1>7. QED
  BY <1>4, <1>5, <1>6

\* A good buffer stays good under buf_insert_end.
LEMMA InsertEnd ==
  ASSUME NEW S, NEW b, GoodBuffer(b, S), NEW bytes \in Seq(S)
  PROVE  /\ GoodBuffer(buf_insert_end(b, bytes), S)
         /\ buf_insert_end(b, bytes).data = b.data \o bytes
         /\ buf_insert_end(b, bytes).head = b.head
         /\ \/ buf_insert_end(b, bytes).block = b.block
            \/ buf_insert_end(b, bytes).block = b.head + Len(b.data \o bytes)
<1>1. PICK bl \in Nat, h \in Nat, a \in Nat, t \in Nat, d \in Seq(S) :
             bl = h + a + t + Len(d) /\ b \in Exactly(bl, h, a, t, d)
  BY OpenedBuffer, Zenon
<1>2. b.block = bl /\ b.head = h /\ b.data = d
  BY <1>1, Zenon DEF Exactly
<1>0. GrownBehind(buf_insert_end(b, bytes), bl, h, d \o bytes)
  BY <1>1, InsertedEnd
<1>3. PICK bl2 \in Nat, a2 \in Nat, t2 \in Nat :
        /\ bl2 = h + a2 + t2 + Len(d \o bytes)
        /\ bl2 = bl \/ bl2 = h + Len(d \o bytes)
        /\ buf_insert_end(b, bytes) \in Exactly(bl2, h, a2, t2, d \o bytes)
  BY <1>0, Zenon DEF GrownBehind
<1>4. d \o bytes \in Seq(S)
  OBVIOUS
<1>5. GoodBuffer(buf_insert_end(b, bytes), S)
  BY <1>3, <1>4, MadeBuffer
<1>6. /\ buf_insert_end(b, bytes).block = bl2 /\ buf_insert_end(b, bytes).data = d \o bytes
      /\ buf_insert_end(b, bytes).head = h
  BY <1>3, Zenon DEF Exactly
<1>7. QED
  BY <1>2, <1>3, <1>5, <1>6, Zenon

\* buf_insert_begin: the bytes come before the others.
LEMMA InsertedBegin ==
  ASSUME NEW S, NEW bl \in Nat, NEW h \in Nat, NEW a \in Nat, NEW t \in Nat,
         NEW d \in Seq(S), bl = h + a + t + Len(d),
         NEW b \in Exactly(bl, h, a, t, d),
         NEW bytes \in Seq(S)
  PROVE  GrownBefore(buf_insert_begin(b, bytes), bl, t, bytes \o d)
<1> DEFINE n == Len(bytes)
           dd == bytes \o d
           l == Len(d)
<1>1. b.block = bl /\ b.head = h /\ b.avail = a /\ b.tail = t /\ b.data = d
  BY BufferFields
<1>2. buf_total_size(b) = bl
  BY <1>1 DEF buf_total_size
<1>3. n \in Nat /\ l \in Nat /\ Len(dd) = l + n /\ bl = h + a + t + l
  OBVIOUS
<1>4. CASE h >= n
  <2>1. buf_insert_begin(b, bytes) = [b EXCEPT !.head = h - n, !.data = dd]
    BY <1>1, <1>4 DEF buf_insert_begin
  <2> HIDE DEF n, l, dd
  <2>2. buf_insert_begin(b, bytes) \in Exactly(bl, h - n, a, t, dd)
    BY <2>1, Zenon DEF Exactly
  <2>3. h - n \in Nat /\ bl = (h - n) + a + t + Len(dd)
    BY <1>3, <1>4
  <2>4. QED
    BY <2>2, <2>3, Zenon DEF dd, GrownBefore
<1>5. CASE ~(h >= n) /\ ~(n > h + a)
  <2> DEFINE rest == a - (n - h)
  <2>1. buf_insert_begin(b, bytes) = [b EXCEPT !.head = 0, !.avail = rest, !.data = dd]
    BY <1>1, <1>5 DEF buf_insert_begin
  <2> HIDE DEF n, l, dd
  <2>2. buf_insert_begin(b, bytes) \in Exactly(bl, 0, rest, t, dd)
    BY <2>1, Zenon DEF Exactly
  <2>3. rest \in Nat /\ 0 \in Nat /\ bl = 0 + rest + t + Len(dd)
    BY <1>3, <1>5
  <2> HIDE DEF rest
  <2>4. QED
    BY <2>2, <2>3, Zenon DEF dd, GrownBefore
<1>6. CASE ~(h >= n) /\ n > h + a
  <2> DEFINE size == bl + n - h - a
             r == buf_resize(b, size)
  <2>1. buf_insert_begin(b, bytes)
          = [r EXCEPT !.head = 0, !.avail = r.avail - (n - r.head), !.data = dd]
    BY <1>1, <1>2, <1>6 DEF buf_insert_begin
  <2>2. r \in Exactly(size, h, a + (size - bl), t, d)
    BY ResizedFields
  <2>3. r.avail = a + (size - bl) /\ r.head = h
    BY <2>2, BufferFields
  <2> HIDE DEF n, l, dd, r
  <2>4. /\ (a + (size - bl)) - (n - h) = 0 /\ size \in Nat /\ 0 \in Nat
        /\ size = 0 + 0 + t + Len(dd) /\ size = t + Len(dd)
    BY <1>3, <1>6
  <2> HIDE DEF size
  <2>5. buf_insert_begin(b, bytes) = [r EXCEPT !.head = 0, !.avail = 0, !.data = dd]
    BY <2>1, <2>3, <2>4, Zenon
  <2>6. buf_insert_begin(b, bytes) \in Exactly(size, 0, 0, t, dd)
    BY <2>2, <2>5, Zenon DEF Exactly
  <2>7. QED
    BY <2>4, <2>6, Zenon DEF dd, GrownBefore
<1>7. QED
  BY <1>4, <1>5, <1>6

\* A good buffer stays good under buf_insert_begin.
LEMMA InsertBegin ==
  ASSUME NEW S, NEW b, GoodBuffer(b, S), NEW bytes \in Seq(S)
  PROVE  /\ GoodBuffer(buf_insert_begin(b, bytes), S)
         /\ buf_insert_begin(b, bytes).data = bytes \o b.data
<1>1. PICK bl \in Nat, h \in Nat, a \in Nat, t \in Nat, d \in Seq(S) :
             bl = h + a + t + Len(d) /\ b \in Exactly(bl, h, a, t, d)
  BY OpenedBuffer, Zenon
<1>2. b.block = bl /\ b.head = h /\ b.data = d
  BY <1>1, Zenon DEF Exactly
<1>0. GrownBefore(buf_insert_begin(b, bytes), bl, t, bytes \o d)
  BY <1>1, InsertedBegin
<1>3. PICK bl2 \in Nat, h2 \in Nat, a2 \in Nat :
        /\ bl2 = h2 + a2 + t + Len(bytes \o d)
        /\ bl2 = bl \/ bl2 = t + Len(bytes \o d)
        /\ buf_insert_begin(b, bytes) \in Exactly(bl2, h2, a2, t, bytes \o d)
  BY <1>0, Zenon DEF GrownBefore
<1>4. bytes \o d \in Seq(S)
  OBVIOUS
<1>5. GoodBuffer(buf_insert_begin(b, bytes), S)
  BY <1>3, <1>4, MadeBuffer
<1>6. /\ buf_insert_begin(b, bytes).block = bl2 /\ buf_insert_begin(b, bytes).data = bytes \o d
      /\ buf_insert_begin(b, bytes).head = h2
  BY <1>3, Zenon DEF Exactly
<1>7. QED
  BY <1>2, <1>3, <1>5, <1>6, Zenon

\* What is left of a sequence without its first k elements.
LEMMA CutFront ==
  ASSUME NEW S, NEW s \in Seq(S), NEW k \in Nat, k <= Len(s)
  PROVE  /\ SubSeq(s, k + 1, Len(s)) \in Seq(S)
         /\ Len(SubSeq(s, k + 1, Len(s))) = Len(s) - k
<1>1. Len(s) \in Nat
  OBVIOUS
<1>2. k + 1 \in 1 .. Len(s) + 1 /\ Len(s) \in k .. Len(s)
  BY <1>1
<1>3. QED
  BY <1>1, <1>2

\* buf_remove_begin: the head grows by what is cut off the data.
LEMMA RemoveBegin ==
  ASSUME NEW S, NEW b, GoodBuffer(b, S), NEW n \in Nat
  PROVE  /\ GoodBuffer(buf_remove_begin(b, n), S)
         /\ buf_remove_begin(b, n).block = b.block
         /\ buf_remove_begin(b, n).head + Len(buf_remove_begin(b, n).data)
              = b.head + Len(b.data)
<1>1. PICK bl \in Nat, h \in Nat, a \in Nat, t \in Nat, d \in Seq(S) :
             bl = h + a + t + Len(d) /\ b \in Exactly(bl, h, a, t, d)
  BY OpenedBuffer, Zenon
<1>2. b.block = bl /\ b.head = h /\ b.data = d
  BY <1>1, Zenon DEF Exactly
<1> DEFINE k == IF n < Len(d) THEN n ELSE Len(d)
           dd == SubSeq(d, k + 1, Len(d))
           l == Len(d)
<1>3. l \in Nat /\ k \in Nat /\ k <= l /\ bl = h + a + t + l
  BY <1>1
<1>4. dd \in Seq(S) /\ Len(dd) = l - k
  BY <1>3, CutFront
<1>5. buf_remove_begin(b, n) = [b EXCEPT !.head = h + k, !.data = dd]
  BY <1>2, Zenon DEF buf_remove_begin, Removed
<1> HIDE DEF k, dd, l
<1>6. buf_remove_begin(b, n) \in Exactly(bl, h + k, a, t, dd)
  BY <1>1, <1>5, Zenon DEF Exactly
<1>7. h + k \in Nat /\ bl = (h + k) + a + t + Len(dd) /\ (h + k) + Len(dd) = h + l
  BY <1>3, <1>4
<1>8. GoodBuffer(buf_remove_begin(b, n), S)
  BY <1>4, <1>6, <1>7, MadeBuffer
<1>9. /\ buf_remove_begin(b, n).block = bl
      /\ buf_remove_begin(b, n).head = h + k /\ buf_remove_begin(b, n).data = dd
  BY <1>6, Zenon DEF Exactly
<1>10. QED
  BY <1>2, <1>7, <1>8, <1>9, Zenon DEF l

\* buf_remove_end: the tail grows by what is cut off the data.
LEMMA RemoveEnd ==
  ASSUME NEW S, NEW b, GoodBuffer(b, S), NEW n \in Nat, n <= Len(b.data)
  PROVE  /\ GoodBuffer(buf_remove_end(b, n), S)
         /\ buf_remove_end(b, n).block = b.block
         /\ buf_remove_end(b, n).head = b.head
         /\ buf_remove_end(b, n).data = SubSeq(b.data, 1, Len(b.data) - n)
         /\ Len(buf_remove_end(b, n).data) = Len(b.data) - n
<1>1. PICK bl \in Nat, h \in Nat, a \in Nat, t \in Nat, d \in Seq(S) :
             bl = h + a + t + Len(d) /\ b \in Exactly(bl, h, a, t, d)
  BY OpenedBuffer, Zenon
<1>2. b.block = bl /\ b.head = h /\ b.tail = t /\ b.data = d
  BY <1>1, Zenon DEF Exactly
<1> DEFINE dd == SubSeq(d, 1, Len(d) - n)
           l == Len(d)
<1>3. l \in Nat /\ n <= l /\ bl = h + a + t + l
  BY <1>1, <1>2
<1>4. dd \in Seq(S) /\ Len(dd) = l - n
  BY <1>3, SubSeqProperties
<1>5. Removed(b, n) = n
  BY <1>2, <1>3 DEF Removed
<1>6. buf_remove_end(b, n) = [b EXCEPT !.tail = t + n, !.data = dd]
  BY <1>2, <1>5, Zenon DEF buf_remove_end
<1> HIDE DEF dd, l
<1>7. buf_remove_end(b, n) \in Exactly(bl, h, a, t + n, dd)
  BY <1>1, <1>6, Zenon DEF Exactly
<1>8. t + n \in Nat /\ bl = h + a + (t + n) + Len(dd)
  BY <1>3, <1>4
<1>9. GoodBuffer(buf_remove_end(b, n), S)
  BY <1>4, <1>7, <1>8, MadeBuffer
<1>10. /\ buf_remove_end(b, n).block = bl /\ buf_remove_end(b, n).head = h
       /\ buf_remove_end(b, n).data = dd
  BY <1>7, Zenon DEF Exactly
<1>11. QED
  BY <1>2, <1>4, <1>9, <1>10, Zenon DEF dd, l

-----------------------------------------------------------------------------
(* The bytes on the way, and what the packet layer keeps of them.  Only a  *)
(* header cell is read for numbers: its length and, in LENGTH, its value.  *)

\* Commands, kinds of file, header identifiers and response codes.
Words == {"NONE", "CONNECT", "DISCONNECT", "PUT", "GET", "SETPATH",
          "none", "cmd", "file", "NAME", "LENGTH", "BODY", "BODY_END",
          "CONTINUE", "SUCCESS", "FORBIDDEN"}

HeaderCells == {"hdr"} \X Words \X {n \in Nat : n >= 3} \X Nat
NameCells == {"name"} \X Nat \X Nat
SeqCells == {"seq"} \X Int \X Nat
CmdCells == {"cmd"} \X Words \X BOOLEAN
OtherCells == ({"byte"} \X Nat \X Nat) \cup ({"rsp"} \X Words \X Nat)
                \cup ({"len"} \X Nat)
                \cup {<<"len">>, <<"pad">>, <<"junk">>}
Cells == HeaderCells \cup NameCells \cup SeqCells \cup CmdCells \cup OtherCells

\* A packet in the device's inbox starts with its number and its command.
Packets == {p \in Seq(Cells) : Len(p) >= 2 /\ p[1] \in SeqCells /\ p[2] \in CmdCells}

SoundBuffers == {b \in Buffers(Cells) : Sound(b)}
RxBuffers == {b \in SoundBuffers : b.block <= b.head + Len(b.data) + DefaultMtu}

Selves == [mtu_tx : {DefaultMtu, MtuTx}, mtu_rx : {DefaultMtu}, seq_num : Int,
           rx_msg : RxBuffers, tx_msg : SoundBuffers]

\* What is still to be sent: all of a request, or what is left of its body.
NameHeaders == [hi : {"NAME"}, buf : {s \in Seq(Cells) : Len(s) = 3 + NameLen}]
LengthHeaders == [hi : {"LENGTH"}, buf : {s \in Seq(Cells) : Len(s) = 5}]
BodyHeaders == [hi : {"BODY"}, buf : Seq(Cells)]

NameQueue(q) == Len(q) = 1 /\ q[1] \in NameHeaders
BodyQueue(q) == Len(q) = 1 /\ q[1] \in BodyHeaders
LengthQueue(q) == Len(q) = 2 /\ q[1] \in LengthHeaders /\ q[2] \in BodyHeaders
FullQueue(q) == Len(q) = 3 /\ q[1] \in NameHeaders /\ q[2] \in LengthHeaders
                  /\ q[3] \in BodyHeaders

Queues == {q \in Seq(NameHeaders \cup LengthHeaders \cup BodyHeaders) :
             q = <<>> \/ NameQueue(q) \/ BodyQueue(q) \/ LengthQueue(q)
               \/ FullQueue(q)}

Wanted == [cmd : Words, name : Words, nonhdr : 0 .. 7, txq : Queues,
           offset : {0}, hinted : Nat, rx_body : Seq(SoundBuffers),
           body : Seq(Cells), seen : SUBSET Words]

SelfOK == self \in Selves
ObjectOK == object \in Wanted
SendOK == send \in [tx_left : Int, addmore : BOOLEAN, finished : BOOLEAN,
                  seq : Int]
SessionOK == /\ {"requests", "packets", "status"} \subseteq DOMAIN session
             /\ session.requests \in Nat /\ session.packets \in Nat
DeviceOK == /\ {"inbox", "wire", "out"} \subseteq DOMAIN device
            /\ device.inbox \in Seq(Packets) /\ device.wire \in Seq(Seq(Cells))
            /\ device.out \in Seq(Cells)

\* The bytes before the headers, and the requests that have headers.
CommandOK ==
  /\ pc # "idle" =>
       object.cmd \in {"CONNECT", "DISCONNECT", "PUT", "GET", "SETPATH"}
  /\ object.nonhdr # 0 => object.cmd \in {"CONNECT", "SETPATH"}
  /\ object.txq # <<>> => object.cmd \in {"PUT", "GET", "SETPATH"}
  /\ object.cmd = "SETPATH" =>
       object.nonhdr <= 2 /\ (object.txq = <<>> \/ NameQueue(object.txq))

\* The larger transfer unit is in force for every request after CONNECT.
MtuOK ==
  /\ pc = "idle" /\ session.requests > 0 => self.mtu_tx = MtuTx
  /\ pc \notin {"idle", "end"} /\ object.cmd \in {"PUT", "GET", "SETPATH"} =>
       self.mtu_tx = MtuTx
  /\ pc \in {"parse", "callback"} /\ object.cmd = "CONNECT" /\ rsp = "SUCCESS" =>
       self.mtu_tx = MtuTx

\* While a packet is filled, what is left of the transfer unit is enough for
\* the headers before the body, and for the start of a body fragment.
FillOK ==
  pc = "fill" =>
    /\ Len(self.tx_msg.data) + 4 <= self.mtu_tx
    /\ object.txq # <<>> /\ send.addmore =>
         /\ object.cmd # "SETPATH" =>
              Len(self.tx_msg.data) + send.tx_left + 4 <= self.mtu_tx
         /\ object.cmd = "SETPATH" => Len(self.tx_msg.data) <= 2
         /\ send.tx_left >= 3
         /\ LengthQueue(object.txq) => send.tx_left >= 8
         /\ FullQueue(object.txq) => send.tx_left >= NameLen + 11

ObexInv == SelfOK /\ ObjectOK /\ SendOK /\ SessionOK /\ DeviceOK /\ CommandOK
             /\ MtuOK /\ FillOK /\ PacketFits

\* Nothing is left in rx_msg where the next response is waited for.
CleanInv ==
  /\ pc \in {"idle", "send", "fill"} /\ session.status # "broken" =>
       self.rx_msg.data = <<>>
  /\ pc = "callback" => self.rx_msg.data = <<>> \/ rsp = "error"

\* What a cell of a kind holds.
LEMMA CellKinds ==
  ASSUME NEW c \in Cells
  PROVE  /\ c[1] = "hdr" => c[3] \in Nat /\ c[3] >= 3 /\ c[4] \in Nat
         /\ c[1] = "name" => c[2] \in Nat /\ c[3] \in Nat
<1>1. /\ c \in HeaderCells => c[3] \in Nat /\ c[3] >= 3 /\ c[4] \in Nat
      /\ c \in HeaderCells => c[1] = "hdr"
  BY DEF HeaderCells
<1>2. c \in NameCells => c[1] = "name" /\ c[2] \in Nat /\ c[3] \in Nat
  BY DEF NameCells
<1>3. c \in SeqCells => c[1] = "seq"
  BY DEF SeqCells
<1>4. c \in CmdCells => c[1] = "cmd"
  BY DEF CmdCells
<1>5. c \in OtherCells => c[1] \in {"byte", "rsp", "len", "pad", "junk"}
  BY DEF OtherCells
<1>6. QED
  BY <1>1, <1>2, <1>3, <1>4, <1>5 DEF Cells

\* The cells the packet layer and the device make.
LEMMA NewCells ==
  /\ <<"pad">> \in Cells /\ <<"junk">> \in Cells /\ <<"len">> \in Cells
  /\ \A n \in Nat : <<"len", n>> \in Cells
  /\ \A hi \in Words, n \in Nat, v \in Nat : n >= 3 => <<"hdr", hi, n, v>> \in Cells
  /\ \A r \in Nat, n \in Nat : <<"name", r, n>> \in Cells /\ <<"byte", r, n>> \in Cells
  /\ \A c \in Words, n \in Nat : <<"rsp", c, n>> \in Cells
  /\ \A q \in Int, n \in Nat : <<"seq", q, n>> \in SeqCells
  /\ \A c \in Words, f \in BOOLEAN : <<"cmd", c, f>> \in CmdCells
  /\ SeqCells \subseteq Cells /\ CmdCells \subseteq Cells
<1>1. <<"pad">> \in Cells /\ <<"junk">> \in Cells /\ <<"len">> \in Cells
  BY DEF Cells, OtherCells
<1>2. \A n \in Nat : <<"len", n>> \in Cells
  BY DEF Cells, OtherCells
<1>3. \A hi \in Words, n \in Nat, v \in Nat : n >= 3 => <<"hdr", hi, n, v>> \in Cells
  BY DEF Cells, HeaderCells
<1>4. \A r \in Nat, n \in Nat : <<"name", r, n>> \in Cells
  BY DEF Cells, NameCells
<1>5. \A r \in Nat, n \in Nat : <<"byte", r, n>> \in Cells
  BY DEF Cells, OtherCells
<1>6. \A c \in Words, n \in Nat : <<"rsp", c, n>> \in Cells
  BY DEF Cells, OtherCells
<1>7. \A q \in Int, n \in Nat : <<"seq", q, n>> \in SeqCells
  BY DEF SeqCells
<1>8. \A c \in Words, f \in BOOLEAN : <<"cmd", c, f>> \in CmdCells
  BY Zenon DEF CmdCells
<1>9. SeqCells \subseteq Cells /\ CmdCells \subseteq Cells
  BY Zenon DEF Cells
<1>10. QED
  BY <1>1, <1>2, <1>3, <1>4, <1>5, <1>6, <1>7, <1>8, <1>9, Zenon

\* Padding and reserved bytes.
LEMMA Fillers ==
  ASSUME NEW n \in Nat
  PROVE  /\ Pads(n) \in Seq(Cells) /\ Len(Pads(n)) = n
         /\ Junk(n) \in Seq(Cells) /\ Len(Junk(n)) = n
  BY NewCells DEF Pads, Junk

\* The headers of a packet or of an answer.
LEMMA NewHeaders ==
  ASSUME NEW hi \in Words, NEW bytes \in Seq(Cells), NEW v \in Nat
  PROVE  /\ Stream(hi, bytes) \in Seq(Cells) /\ Len(Stream(hi, bytes)) = 3 + Len(bytes)
         /\ Uint(hi, v) \in Seq(Cells) /\ Len(Uint(hi, v)) = 5
<1>1. Len(bytes) \in Nat /\ 3 + Len(bytes) \in Nat /\ 3 + Len(bytes) >= 3
  OBVIOUS
<1>2. <<"hdr", hi, 3 + Len(bytes), 0>> \in Cells /\ <<"hdr", hi, 5, v>> \in Cells
  BY <1>1, NewCells
<1>3. /\ Pads(2) \in Seq(Cells) /\ Len(Pads(2)) = 2
      /\ Pads(4) \in Seq(Cells) /\ Len(Pads(4)) = 4
  BY Fillers
<1>4. \A c \in Cells, p \in Seq(Cells) :
        <<c>> \o p \in Seq(Cells) /\ Len(<<c>> \o p) = 1 + Len(p)
  OBVIOUS
<1>5. Uint(hi, v) \in Seq(Cells) /\ Len(Uint(hi, v)) = 1 + 4
  BY <1>2, <1>3, <1>4, Zenon DEF Uint
<1> DEFINE front == <<<<"hdr", hi, 3 + Len(bytes), 0>>>> \o Pads(2)
<1>6. front \in Seq(Cells) /\ Len(front) = 1 + 2 /\ Stream(hi, bytes) = front \o bytes
  BY <1>2, <1>3, <1>4, Zenon DEF Stream
<1> HIDE DEF front
<1>7. /\ Stream(hi, bytes) \in Seq(Cells)
      /\ Len(Stream(hi, bytes)) = Len(front) + Len(bytes)
  <2>1. /\ front \o bytes \in Seq(Cells)
        /\ Len(front \o bytes) = Len(front) + Len(bytes)
    BY <1>6, ConcatProperties, Zenon
  <2>2. QED
    BY <2>1, <1>6, Zenon
<1>8. QED
  BY <1>1, <1>5, <1>6, <1>7
\* The fields of obex_t.
LEMMA SelfFields ==
  ASSUME SelfOK
  PROVE  /\ self.mtu_tx \in {DefaultMtu, MtuTx} /\ self.mtu_rx = DefaultMtu
         /\ self.seq_num \in Int
         /\ self.rx_msg \in RxBuffers /\ self.tx_msg \in SoundBuffers
  BY DEF SelfOK, Selves

\* A transfer read into rx_msg: room for a whole one is reserved, and what
\* did not come is given back.
LEMMA LandedFits ==
  ASSUME SelfOK, NEW bytes \in Seq(Cells), Len(bytes) <= DefaultMtu
  PROVE  Landed(bytes) \in RxBuffers
<1> DEFINE rx == self.rx_msg
           free == DefaultMtu - Len(bytes)
           all == bytes \o Junk(free)
           b == buf_insert_end(rx, all)
<1>1. rx \in RxBuffers /\ self.mtu_rx = DefaultMtu
  BY SelfFields
<1>2. GoodBuffer(rx, Cells) /\ rx.block <= rx.head + Len(rx.data) + DefaultMtu
  BY <1>1 DEF RxBuffers, SoundBuffers, GoodBuffer
<1>3. Len(bytes) \in Nat /\ free \in Nat
  BY ObexAssumption
<1>4. Junk(free) \in Seq(Cells) /\ Len(Junk(free)) = free
  BY <1>3, Fillers
<1>5. all \in Seq(Cells) /\ Len(all) = Len(bytes) + free
  BY <1>4, ConcatProperties, Zenon
<1>6. /\ GoodBuffer(b, Cells) /\ b.data = rx.data \o all /\ b.head = rx.head
      /\ b.block = rx.block \/ b.block = rx.head + Len(rx.data \o all)
  BY <1>2, <1>5, InsertEnd, ZenonT(60)
<1>7. rx.data \in Seq(Cells) /\ rx.block \in Nat /\ rx.head \in Nat
  BY <1>2 DEF GoodBuffer, Buffers
<1>8. Len(rx.data \o all) = Len(rx.data) + Len(all) /\ Len(rx.data) \in Nat
  BY <1>5, <1>7, ConcatProperties, LenProperties, Zenon
<1> DEFINE r == buf_remove_end(b, free)
<1>9. Landed(bytes) = r
  BY <1>1, Zenon DEF Landed
<1> HIDE DEF rx, all, b
<1>10. Len(b.data) = Len(rx.data) + (Len(bytes) + free)
  BY <1>5, <1>6, <1>8, Zenon
<1> DEFINE lb == Len(bytes)
           lx == Len(rx.data)
           ld == Len(b.data)
           lr == Len(r.data)
<1>0. /\ lb \in Nat /\ lx \in Nat /\ free \in Nat /\ ld = lx + (lb + free)
      /\ rx.block <= rx.head + lx + DefaultMtu /\ free = DefaultMtu - lb
      /\ b.block = rx.block \/ b.block = rx.head + ld
  BY <1>2, <1>3, <1>6, <1>8, <1>10, Zenon
<1> HIDE DEF lb, lx, ld, free
<1>11. free <= ld
  BY <1>0
<1>12. /\ GoodBuffer(r, Cells) /\ r.block = b.block /\ r.head = b.head
       /\ lr = ld - free
  BY <1>0, <1>6, <1>11, RemoveEnd DEF ld
<1> HIDE DEF r, lr
<1>13. r.block <= r.head + lr + DefaultMtu
  <2>1. lr = lx + lb
    BY <1>0, <1>12
  <2>2. r.head = rx.head /\ (r.block = rx.block \/ r.block = rx.head + ld)
    BY <1>0, <1>6, <1>12, Zenon
  <2>3. rx.block \in Nat /\ rx.head \in Nat /\ DefaultMtu \in Nat
    BY <1>7, ObexAssumption
  <2>4. CASE r.block = rx.block
    BY <2>1, <2>2, <2>3, <2>4, <1>0
  <2>5. CASE r.block = rx.head + ld
    BY <2>1, <2>2, <2>3, <2>5, <1>0
  <2>6. QED
    BY <2>2, <2>4, <2>5
<1>14. QED
  BY <1>9, <1>12, <1>13 DEF RxBuffers, SoundBuffers, GoodBuffer, lr

\* Bytes taken off the front of rx_msg stay in its block as head.
LEMMA RxShortened ==
  ASSUME NEW b \in RxBuffers, NEW n \in Nat
  PROVE  buf_remove_begin(b, n) \in RxBuffers
<1> DEFINE r == buf_remove_begin(b, n)
<1>1. GoodBuffer(b, Cells) /\ b.block <= b.head + Len(b.data) + DefaultMtu
  BY DEF RxBuffers, SoundBuffers, GoodBuffer
<1>2. /\ GoodBuffer(r, Cells) /\ r.block = b.block
      /\ r.head + Len(r.data) = b.head + Len(b.data)
  BY <1>1, RemoveBegin
<1> HIDE DEF r
<1>3. r.block <= r.head + Len(r.data) + DefaultMtu
  BY <1>1, <1>2
<1>4. r \in RxBuffers
  BY <1>2, <1>3 DEF RxBuffers, SoundBuffers, GoodBuffer
<1>5. QED
  BY <1>4 DEF r

\* What one transfer reads, and what it leaves to be read.
LEMMA TakeFits ==
  ASSUME SelfOK, DeviceOK, device.wire # <<>>
  PROVE  /\ Take \in Seq(Cells) /\ Len(Take) <= DefaultMtu
         /\ Rest \in Seq(Seq(Cells))
<1> DEFINE w == device.wire
           h == Head(w)
           n == IF Len(h) < DefaultMtu THEN Len(h) ELSE DefaultMtu
<1>1. self.mtu_rx = DefaultMtu /\ DefaultMtu \in Nat
  BY SelfFields, ObexAssumption
<1>2. h \in Seq(Cells) /\ Tail(w) \in Seq(Seq(Cells))
  BY DEF DeviceOK
<1>3. Take = SubSeq(h, 1, n)
  BY <1>1, Zenon DEF Take
<1>4. /\ Len(h) > DefaultMtu =>
           Rest = <<SubSeq(h, DefaultMtu + 1, Len(h))>> \o Tail(w)
      /\ ~(Len(h) > DefaultMtu) => Rest = Tail(w)
  BY <1>1, Zenon DEF Rest
<1> HIDE DEF w, h
<1>5. Len(h) \in Nat
  BY <1>2
<1>6. n \in 0 .. Len(h) /\ n <= DefaultMtu
  BY <1>1, <1>5
<1>7. SubSeq(h, 1, n) \in Seq(Cells) /\ Len(SubSeq(h, 1, n)) = n
  BY <1>2, <1>6, SubSeqProperties
<1>8. CASE Len(h) > DefaultMtu
  <2>1. SubSeq(h, DefaultMtu + 1, Len(h)) \in Seq(Cells)
    BY <1>1, <1>2, <1>5, <1>8, CutFront
  <2>2. <<SubSeq(h, DefaultMtu + 1, Len(h))>> \o Tail(w) \in Seq(Seq(Cells))
    BY <2>1, <1>2
  <2>3. QED
    BY <2>2, <1>3, <1>4, <1>6, <1>7, <1>8, Zenon
<1>9. CASE ~(Len(h) > DefaultMtu)
  BY <1>2, <1>3, <1>4, <1>6, <1>7, <1>9
<1>10. QED
  BY <1>8, <1>9

\* The first header of a queue, and the queue behind it.
LEMMA QueueParts ==
  ASSUME NEW q \in Queues, q # <<>>
  PROVE  /\ Head(q).hi = "BODY" =>
              BodyQueue(q) /\ Head(q) \in BodyHeaders /\ Tail(q) = <<>>
         /\ Head(q).hi # "BODY" =>
              \/ NameQueue(q) /\ Head(q) \in NameHeaders /\ Tail(q) = <<>>
              \/ FullQueue(q) /\ Head(q) \in NameHeaders /\ LengthQueue(Tail(q))
              \/ LengthQueue(q) /\ Head(q) \in LengthHeaders /\ BodyQueue(Tail(q))
         /\ Tail(q) \in Queues
<1> DEFINE H == NameHeaders \cup LengthHeaders \cup BodyHeaders
<1>1. q \in Seq(H) /\ (NameQueue(q) \/ BodyQueue(q) \/ LengthQueue(q) \/ FullQueue(q))
  BY DEF Queues
<1>2. /\ \A h \in NameHeaders : h.hi = "NAME"
      /\ \A h \in LengthHeaders : h.hi = "LENGTH"
      /\ \A h \in BodyHeaders : h.hi = "BODY"
  BY DEF NameHeaders, LengthHeaders, BodyHeaders
<1> HIDE DEF H
<1>3. /\ Head(q) = q[1] /\ Tail(q) \in Seq(H) /\ Len(Tail(q)) = Len(q) - 1
      /\ \A i \in 1 .. Len(q) - 1 : Tail(q)[i] = q[i + 1]
  BY <1>1
<1>4. <<>> \in Queues
  BY DEF Queues
<1>5. CASE NameQueue(q)
  <2>1. Len(q) = 1 /\ q[1] \in NameHeaders
    BY <1>5 DEF NameQueue
  <2>2. Tail(q) = <<>>
    <3>1. Len(Tail(q)) = 0
      BY <1>3, <2>1
    <3>2. QED
      BY <3>1, <1>3, EmptySeq, Zenon
  <2>3. QED
    BY <1>2, <1>3, <1>4, <1>5, <2>1, <2>2
<1>6. CASE BodyQueue(q)
  <2>1. Len(q) = 1 /\ q[1] \in BodyHeaders
    BY <1>6 DEF BodyQueue
  <2>2. Tail(q) = <<>>
    <3>1. Len(Tail(q)) = 0
      BY <1>3, <2>1
    <3>2. QED
      BY <3>1, <1>3, EmptySeq, Zenon
  <2>3. QED
    BY <1>2, <1>3, <1>4, <1>6, <2>1, <2>2
<1>7. CASE LengthQueue(q)
  <2>1. Len(q) = 2 /\ q[1] \in LengthHeaders /\ q[2] \in BodyHeaders
    BY <1>7 DEF LengthQueue
  <2>2. Len(Tail(q)) = 1 /\ Tail(q)[1] = q[2]
    BY <1>3, <2>1
  <2>3. BodyQueue(Tail(q)) /\ Tail(q) \in Queues
    BY <1>3, <2>1, <2>2 DEF BodyQueue, Queues, H
  <2>4. QED
    BY <1>2, <1>3, <1>7, <2>1, <2>3
<1>8. CASE FullQueue(q)
  <2>1. /\ Len(q) = 3 /\ q[1] \in NameHeaders /\ q[2] \in LengthHeaders
        /\ q[3] \in BodyHeaders
    BY <1>8 DEF FullQueue
  <2>2. Len(Tail(q)) = 2 /\ Tail(q)[1] = q[2] /\ Tail(q)[2] = q[3]
    <3>1. Len(Tail(q)) = 2 /\ 1 \in 1 .. Len(q) - 1 /\ 2 \in 1 .. Len(q) - 1
      BY <1>3, <2>1
    <3>2. Tail(q)[1] = q[1 + 1] /\ Tail(q)[2] = q[2 + 1]
      BY <3>1, <1>3, Zenon
    <3>3. QED
      BY <3>1, <3>2
  <2>3. LengthQueue(Tail(q)) /\ Tail(q) \in Queues
    BY <1>3, <2>1, <2>2 DEF LengthQueue, Queues, H
  <2>4. QED
    BY <1>2, <1>3, <1>8, <2>1, <2>3
<1>9. QED
  BY <1>1, <1>5, <1>6, <1>7, <1>8

\* The queues a request starts with, and the rest of a body.
LEMMA NewQueues ==
  ASSUME NEW n \in NameHeaders, NEW l \in LengthHeaders, NEW b \in BodyHeaders,
         NEW s \in Seq(Cells)
  PROVE  /\ <<>> \in Queues
         /\ <<n>> \in Queues /\ NameQueue(<<n>>) /\ <<n, l, b>> \in Queues
         /\ <<[b EXCEPT !.buf = s]>> \o <<>> \in Queues
<1>1. <<>> \in Queues
  BY DEF Queues
<1>2. NameQueue(<<n>>) /\ <<n>> \in Queues
  BY DEF Queues, NameQueue
<1>3. <<n, l, b>> \in Queues
  BY DEF Queues, FullQueue
<1>4. [b EXCEPT !.buf = s] \in BodyHeaders
  BY Zenon DEF BodyHeaders
<1>5. \A c \in BodyHeaders : <<c>> \o <<>> \in Queues
  BY DEF Queues, BodyQueue
<1>6. QED
  BY <1>1, <1>2, <1>3, <1>4, <1>5, Zenon

\* The fields of the object in progress.
LEMMA ObjectFields ==
  ASSUME ObjectOK
  PROVE  /\ object.cmd \in Words /\ object.nonhdr \in Nat /\ object.nonhdr <= 7
         /\ object.txq \in Queues /\ object.offset = 0 /\ object.hinted \in Nat
         /\ object.rx_body \in Seq(SoundBuffers)
  BY DEF ObjectOK, Wanted

-----------------------------------------------------------------------------
(* A request is set up.                                                    *)

Commands == {"CONNECT", "DISCONNECT", "PUT", "GET", "SETPATH"}

\* The literals that name commands, headers and responses are words.
LEMMA SomeWords ==
  /\ Commands \subseteq Words
  /\ {"none", "NONE", "cmd", "file", "NAME", "LENGTH", "BODY", "BODY_END",
      "CONTINUE", "SUCCESS", "FORBIDDEN"} \subseteq Words
  BY DEF Commands, Words

\* The headers of a request.
LEMMA StartHeaders ==
  ASSUME SessionOK, NEW bytes \in Seq(Cells)
  PROVE  /\ NameHeader(Len(bytes)) \in NameHeaders
         /\ LengthHeader(Len(bytes)) \in LengthHeaders
         /\ BodyHeader(bytes) \in BodyHeaders
<1> DEFINE n == Len(bytes)
           r == session.requests + 1
           name == [i \in 1 .. NameLen |-> <<"name", r, n>>]
<1>1. n \in Nat /\ r \in Nat /\ NameLen \in Nat
  BY ObexAssumption DEF SessionOK
<1>2. <<"name", r, n>> \in Cells
  BY <1>1, NewCells
<1> HIDE DEF n, r
<1>3. name \in Seq(Cells) /\ Len(name) = NameLen
  BY <1>1, <1>2
<1> HIDE DEF name
<1>4. "NAME" \in Words /\ "LENGTH" \in Words
  BY SomeWords
<1>5. /\ Stream("NAME", name) \in Seq(Cells)
      /\ Len(Stream("NAME", name)) = 3 + NameLen
      /\ Uint("LENGTH", n) \in Seq(Cells) /\ Len(Uint("LENGTH", n)) = 5
  BY <1>1, <1>3, <1>4, NewHeaders
<1>6. NameHeader(n) = [hi |-> "NAME", buf |-> Stream("NAME", name)]
  BY Zenon DEF NameHeader, name, r
<1>7. NameHeader(n) \in NameHeaders
  BY <1>5, <1>6 DEF NameHeaders
<1>8. LengthHeader(n) \in LengthHeaders
  BY <1>5, Zenon DEF LengthHeaders, LengthHeader
<1>9. BodyHeader(bytes) \in BodyHeaders
  BY Zenon DEF BodyHeaders, BodyHeader
<1>10. QED
  BY <1>7, <1>8, <1>9 DEF n

StartedObject(cmd, name, bytes) ==
  [obex_object_new(cmd, name) EXCEPT !.txq = Headers(cmd, bytes)]

Started(o, cmd) ==
  /\ o \in Wanted /\ o.cmd = cmd
  /\ o.nonhdr # 0 => cmd \in {"CONNECT", "SETPATH"}
  /\ o.txq # <<>> => cmd \in {"PUT", "GET", "SETPATH"}
  /\ cmd = "SETPATH" => o.nonhdr <= 2 /\ NameQueue(o.txq)

\* The object of a new request.
LEMMA StartObject ==
  ASSUME SessionOK, NEW cmd \in Commands, NEW name \in Words,
         NEW bytes \in Seq(Cells)
  PROVE  Started(StartedObject(cmd, name, bytes), cmd)
<1> DEFINE o == StartedObject(cmd, name, bytes)
<1> DEFINE q == Headers(cmd, bytes)
           k == obex_object_set_nonhdr_data(cmd)
<1>1. /\ NameHeader(Len(bytes)) \in NameHeaders
      /\ LengthHeader(Len(bytes)) \in LengthHeaders
      /\ BodyHeader(bytes) \in BodyHeaders
  BY StartHeaders
<1>2. /\ cmd = "PUT" => q = <<NameHeader(Len(bytes)), LengthHeader(Len(bytes)),
                              BodyHeader(bytes)>>
      /\ cmd \in {"GET", "SETPATH"} => q = <<NameHeader(Len(bytes))>>
      /\ cmd \notin {"PUT", "GET", "SETPATH"} => q = <<>>
  BY Zenon DEF Headers
<1>3. /\ q \in Queues /\ (q # <<>> => cmd \in {"PUT", "GET", "SETPATH"})
      /\ cmd = "SETPATH" => NameQueue(q)
  BY <1>1, <1>2, NewQueues, Zenon
<1>4. /\ cmd = "CONNECT" => k = 7
      /\ cmd = "SETPATH" => k = 2
      /\ cmd \notin {"CONNECT", "SETPATH"} => k = 0
  BY Zenon DEF obex_object_set_nonhdr_data
<1>5. /\ k \in 0 .. 7 /\ (k # 0 => cmd \in {"CONNECT", "SETPATH"})
      /\ cmd = "SETPATH" => k <= 2
  BY <1>4
<1> DEFINE none == {}
           empty == <<>>
           zero == 0
<1>6. /\ empty \in Seq(Cells) /\ empty \in Seq(SoundBuffers)
      /\ zero \in Nat /\ zero \in {0} /\ cmd \in Words /\ none \in SUBSET Words
  BY SomeWords
<1> HIDE DEF q, k
<1>7. o = [cmd |-> cmd, name |-> name, nonhdr |-> k, txq |-> q, offset |-> zero,
           hinted |-> zero, rx_body |-> empty, body |-> empty, seen |-> none]
  <2>1. o = [[NoObject EXCEPT !.cmd = cmd, !.name = name, !.nonhdr = k]
               EXCEPT !.txq = q]
    BY Zenon DEF StartedObject, obex_object_new, q, k
  <2> HIDE DEF o
  <2>2. QED
    BY <2>1 DEF NoObject
<1> HIDE DEF none, empty, zero, o
<1>8. o \in Wanted
  <2>1. name \in Words /\ q \in Queues /\ k \in 0 .. 7
    BY <1>3, <1>5
  <2>2. [cmd |-> cmd, name |-> name, nonhdr |-> k, txq |-> q, offset |-> zero,
         hinted |-> zero, rx_body |-> empty, body |-> empty, seen |-> none]
          \in Wanted
    BY <2>1, <1>6, SMT DEF Wanted
  <2>3. QED
    BY <2>2, <1>7, Zenon
<1>9. o.cmd = cmd /\ o.nonhdr = k /\ o.txq = q
  BY <1>7
<1>10. QED
  BY <1>3, <1>5, <1>8, <1>9, Zenon DEF Started, o

\* The session with fields changed that are not counts of requests or packets.
LEMMA SessionKept ==
  ASSUME SessionOK, NEW g, NEW v, NEW w,
         \/ g = [session EXCEPT !.status = v, !.faults = w]
         \/ g = [session EXCEPT !.own = v, !.status = w]
         \/ g = [session EXCEPT !.collided = v]
         \/ g = [session EXCEPT !.faults = v]
         \/ g = [session EXCEPT !.reply = v]
         \/ g = [session EXCEPT !.empties = v]
  PROVE  /\ {"requests", "packets", "status"} \subseteq DOMAIN g
         /\ g.requests = session.requests /\ g.packets = session.packets
         /\ g.requests \in Nat /\ g.packets \in Nat
<1>1. DOMAIN g = DOMAIN session
  BY Zenon
<1>2. g.requests = session.requests /\ g.packets = session.packets
  BY Zenon DEF SessionOK
<1>3. QED
  BY <1>1, <1>2, Zenon DEF SessionOK

\* The session with another request or another packet.
LEMMA SessionCounts ==
  ASSUME SessionOK, NEW g, NEW v,
         \/ g = [session EXCEPT !.requests = session.requests + 1, !.status = v]
         \/ g = [session EXCEPT !.packets = session.packets + 1]
  PROVE  /\ {"requests", "packets", "status"} \subseteq DOMAIN g
         /\ g.requests \in Nat /\ g.packets \in Nat
         /\ g.requests = session.requests + 1 \/ g.requests = session.requests
<1>1. DOMAIN g = DOMAIN session
  BY Zenon
<1>2. /\ g.requests = session.requests + 1 \/ g.requests = session.requests
      /\ g.packets = session.packets + 1 \/ g.packets = session.packets
  BY Zenon DEF SessionOK
<1>3. session.requests \in Nat /\ session.packets \in Nat
  BY DEF SessionOK
<1>4. g.requests \in Nat /\ g.packets \in Nat
  BY <1>2, <1>3
<1>5. QED
  BY <1>1, <1>2, <1>4, Zenon DEF SessionOK

\* A new request keeps the invariant.
LEMMA StartKeeps ==
  ASSUME ObexInv, NEW cmd \in Commands, NEW name, name \in Words,
         NEW bytes \in Seq(Cells), StartRequest(cmd, name, bytes),
         cmd # "CONNECT" => session.requests > 0
  PROVE  ObexInv'
<1>1. SelfOK /\ SendOK /\ SessionOK /\ DeviceOK /\ MtuOK
  BY DEF ObexInv
<1>2. /\ object' = [obex_object_new(cmd, name) EXCEPT !.txq = Headers(cmd, bytes)]
      /\ pc = "idle" /\ pc' = "send"
      /\ self' = self /\ send' = send /\ device' = device
      /\ session' = [session EXCEPT !.requests = session.requests + 1,
                       !.status = IF session.status = "broken"
                                  THEN session.status ELSE "busy"]
  BY Zenon DEF StartRequest, Ready
<1>3. /\ object' \in Wanted /\ object'.cmd = cmd
      /\ object'.nonhdr # 0 => cmd \in {"CONNECT", "SETPATH"}
      /\ object'.txq # <<>> => cmd \in {"PUT", "GET", "SETPATH"}
      /\ cmd = "SETPATH" => object'.nonhdr <= 2 /\ NameQueue(object'.txq)
  <2>1. Started(StartedObject(cmd, name, bytes), cmd)
    BY <1>1, StartObject
  <2>2. object' = StartedObject(cmd, name, bytes)
    BY <1>2, Zenon DEF StartedObject
  <2>3. QED
    BY <2>1, <2>2, Zenon DEF Started
<1>4. SessionOK'
  BY <1>1, <1>2, SessionCounts, Zenon DEF SessionOK
<1>5. SelfOK' /\ SendOK' /\ DeviceOK'
  BY <1>1, <1>2, Zenon DEF SelfOK, SendOK, DeviceOK
<1>6. ObjectOK' /\ CommandOK'
  BY <1>2, <1>3, Zenon DEF ObjectOK, CommandOK, Commands
<1>7. MtuOK'
  <2>1. cmd \in {"PUT", "GET", "SETPATH"} => self.mtu_tx = MtuTx
    BY <1>1, <1>2, Zenon DEF MtuOK
  <2>2. QED
    BY <1>2, <1>3, <2>1, Zenon DEF MtuOK
<1>8. FillOK' /\ PacketFits'
  BY <1>2, Zenon DEF FillOK, PacketFits
<1>9. QED
  BY <1>4, <1>5, <1>6, <1>7, <1>8 DEF ObexInv

\* The contents of a file are cells.
LEMMA ContentsCells ==
  ASSUME SessionOK, NEW n \in Nat
  PROVE  Contents(n) \in Seq(Cells)
<1>1. \A i \in 1 .. n : <<"byte", session.requests + 1, i>> \in Cells
  <2>1. session.requests + 1 \in Nat /\ (1 .. n) \subseteq Nat
    BY DEF SessionOK
  <2>2. QED
    BY <2>1, NewCells, Zenon
<1>2. QED
  BY <1>1 DEF Contents

\* Every request of exword.c keeps the invariant.
LEMMA RequestKeeps ==
  ASSUME ObexInv, Request
  PROVE  ObexInv'
<1>1. SessionOK
  BY DEF ObexInv
<1>2. /\ <<>> \in Seq(Cells) /\ "none" \in Words
      /\ "CONNECT" \in Commands /\ "PUT" \in Commands /\ "GET" \in Commands
      /\ "SETPATH" \in Commands /\ "DISCONNECT" \in Commands
  BY SomeWords DEF Commands
<1>3. CASE exword_connect
  BY <1>2, <1>3, StartKeeps, Zenon DEF exword_connect
<1>4. CASE exword_send_file \/ exword_get_file
  <2>1. PICK o \in Objects :
          /\ session.requests > 0
          /\ \/ StartRequest("PUT", o[2], Contents(o[1]))
             \/ StartRequest("GET", o[2], Contents(o[1]))
    BY <1>4, Zenon DEF exword_send_file, exword_get_file, Connected
  <2>2. o[1] \in Nat /\ o[2] \in {"cmd", "file"}
    BY ObexAssumption
  <2>3. Contents(o[1]) \in Seq(Cells) /\ o[2] \in Words
    BY <2>2, <1>1, ContentsCells, SomeWords
  <2>4. QED
    BY <2>1, <2>3, <1>2, StartKeeps, Zenon
<1>5. CASE exword_setpath
  BY <1>2, <1>5, StartKeeps, Zenon DEF exword_setpath, Connected
<1>6. CASE exword_disconnect
  BY <1>2, <1>6, StartKeeps, Zenon DEF exword_disconnect, Connected
<1>7. QED
  BY <1>3, <1>4, <1>5, <1>6, Zenon DEF Request

-----------------------------------------------------------------------------
(* A packet is filled.                                                     *)

\* obex_t with another tx_msg: the rest stays.
LEMMA SelfNewTx ==
  ASSUME SelfOK, NEW t \in SoundBuffers, NEW q \in Int, NEW g,
         \/ g = [self EXCEPT !.tx_msg = t]
         \/ g = [self EXCEPT !.tx_msg = t, !.seq_num = q]
  PROVE  /\ g \in Selves /\ g.tx_msg = t /\ g.mtu_tx = self.mtu_tx
         /\ g.rx_msg = self.rx_msg
  BY Zenon DEF SelfOK, Selves

\* A sound buffer with bytes behind it.
LEMMA TxInsert ==
  ASSUME NEW b \in SoundBuffers, NEW bytes \in Seq(Cells)
  PROVE  /\ buf_insert_end(b, bytes) \in SoundBuffers
         /\ Len(buf_insert_end(b, bytes).data) = Len(b.data) + Len(bytes)
         /\ Len(b.data) \in Nat
<1>1. GoodBuffer(b, Cells) /\ b.data \in Seq(Cells)
  BY DEF SoundBuffers, GoodBuffer, Buffers
<1>2. /\ GoodBuffer(buf_insert_end(b, bytes), Cells)
      /\ buf_insert_end(b, bytes).data = b.data \o bytes
  BY <1>1, InsertEnd, Zenon
<1>3. Len(b.data \o bytes) = Len(b.data) + Len(bytes) /\ Len(b.data) \in Nat
  BY <1>1, ConcatProperties, LenProperties, Zenon
<1>4. QED
  BY <1>2, <1>3, Zenon DEF GoodBuffer, SoundBuffers

\* The locals of obex_object_send.
LEMMA SendFields ==
  ASSUME SendOK, NEW x \in Int, NEW c \in BOOLEAN, NEW g,
         g = [send EXCEPT !.tx_left = x, !.addmore = c]
  PROVE  /\ g.tx_left = x /\ g.addmore = c
         /\ g \in [tx_left : Int, addmore : BOOLEAN, finished : BOOLEAN, seq : Int]
  BY Zenon DEF SendOK

\* The start of obex_object_send: an empty packet with the bytes before the
\* headers.
LEMMA SendBeginKeeps ==
  ASSUME ObexInv, SendBegin
  PROVE  ObexInv'
<1> DEFINE t == buf_insert_end(buf_reuse(self.tx_msg), Pads(object.nonhdr))
           k == object.nonhdr
           left == self.mtu_tx - 4
<1>1. /\ SelfOK /\ ObjectOK /\ SendOK /\ SessionOK /\ DeviceOK /\ CommandOK
      /\ MtuOK
  BY DEF ObexInv
<1>2. /\ self' = [self EXCEPT !.tx_msg = t]
      /\ object' = [object EXCEPT !.nonhdr = 0]
      /\ send' = [send EXCEPT !.tx_left = left, !.addmore = TRUE]
      /\ pc = "send" /\ pc' = "fill" /\ session' = session /\ device' = device
  BY Zenon DEF SendBegin
<1>3. k \in Nat /\ k <= 7
  BY <1>1, ObjectFields
<1>4. self.mtu_tx \in {DefaultMtu, MtuTx} /\ self.tx_msg \in SoundBuffers
  BY <1>1, SelfFields
<1>5. buf_reuse(self.tx_msg) \in SoundBuffers /\ buf_reuse(self.tx_msg).data = <<>>
  BY <1>4, ReuseBuffer DEF SoundBuffers, GoodBuffer
<1>6. Pads(k) \in Seq(Cells) /\ Len(Pads(k)) = k
  BY <1>3, Fillers
<1>7. t \in SoundBuffers /\ Len(t.data) = Len(<<>>) + k
  BY <1>5, <1>6, TxInsert, Zenon
<1>8. Len(t.data) = k
  BY <1>3, <1>7
<1> HIDE DEF t
<1>9. /\ self' \in Selves /\ self'.tx_msg = t /\ self'.mtu_tx = self.mtu_tx
      /\ left \in Int
  <2>1. 0 \in Int /\ left \in Int
    BY <1>4, ObexAssumption
  <2>2. QED
    BY <2>1, <1>1, <1>2, <1>7, SelfNewTx, Zenon
<1> HIDE DEF left
<1>10. /\ send'.tx_left = left /\ send'.addmore = TRUE
       /\ SendOK'
  BY <1>1, <1>2, <1>9, SendFields, Zenon DEF SendOK
<1>11. /\ object' \in Wanted /\ object'.cmd = object.cmd
       /\ object'.nonhdr = 0 /\ object'.txq = object.txq
  <2>1. 0 \in 0 .. 7
    OBVIOUS
  <2>2. QED
    BY <2>1, <1>1, <1>2, Zenon DEF ObjectOK, Wanted
<1>12. SelfOK' /\ ObjectOK' /\ SessionOK' /\ DeviceOK'
  BY <1>1, <1>2, <1>9, <1>11, Zenon DEF SelfOK, ObjectOK, SessionOK, DeviceOK
<1>13. 0 <= 2
  OBVIOUS
<1>14. CommandOK'
  BY <1>1, <1>2, <1>11, <1>13, Zenon DEF CommandOK
<1>15. MtuOK'
  BY <1>1, <1>2, <1>9, <1>11, Zenon DEF MtuOK
<1>16. FillOK'
  <2>1. self.mtu_tx \in Nat /\ self.mtu_tx >= 11 /\ NameLen \in Nat
    BY <1>4, ObexAssumption
  <2>2. k + 4 <= self.mtu_tx
    BY <2>1, <1>3
  <2>3. ASSUME object.txq # <<>>
        PROVE  /\ object.cmd # "SETPATH" => k + left + 4 <= self.mtu_tx
               /\ object.cmd = "SETPATH" => k <= 2
               /\ left >= 3 /\ left >= 8 /\ left >= NameLen + 11
    <3>1. object.cmd \in {"PUT", "GET", "SETPATH"}
      BY <2>3, <1>1, Zenon DEF CommandOK
    <3>2. self.mtu_tx = MtuTx
      BY <3>1, <1>1, <1>2, Zenon DEF MtuOK
    <3>3. left >= NameLen + 11
      BY <3>2, <2>1, ObexAssumption DEF left
    <3>4. left \in Int /\ left = self.mtu_tx - 4
      BY <1>9 DEF left
    <3>5. left >= 3 /\ left >= 8
      BY <3>3, <3>4, <2>1
    <3>6. object.cmd = "SETPATH" => k <= 2
      BY <1>1, Zenon DEF CommandOK
    <3>7. object.cmd # "SETPATH" => k = 0
      BY <1>1, <3>1, Zenon DEF CommandOK
    <3>8. k = 0 => k + left + 4 <= self.mtu_tx
      BY <2>1, <3>4
    <3>9. QED
      BY <3>3, <3>5, <3>6, <3>7, <3>8, Zenon
  <2> HIDE DEF k
  <2>4. QED
    BY <2>2, <2>3, <1>8, <1>9, <1>10, <1>11, Zenon DEF FillOK
<1>17. PacketFits'
  BY <1>2, Zenon DEF PacketFits
<1>18. QED
  BY <1>10, <1>12, <1>14, <1>15, <1>16, <1>17 DEF ObexInv

\* What fits: the new length of the packet, and what is left of the unit for
\* the headers still queued.
Fits(n, left, q) ==
  LET len == Len(self.tx_msg.data) + n
  IN /\ len + 4 <= self.mtu_tx
     /\ q # <<>> /\ left # 0 =>
          /\ object.cmd # "SETPATH"
          /\ len + left + 4 <= self.mtu_tx
          /\ left >= 3
          /\ LengthQueue(q) => left >= 8
          /\ FullQueue(q) => left >= NameLen + 11

\* A header or a body fragment that fits keeps the invariant.
LEMMA PutKeeps ==
  ASSUME ObexInv, Filling, NEW cells \in Seq(Cells), NEW left \in Int,
         NEW q \in Queues, Put(cells, left, q), Fits(Len(cells), left, q),
         object.cmd = "SETPATH" => q = <<>>
  PROVE  ObexInv'
<1> DEFINE t == buf_insert_end(self.tx_msg, cells)
           more == left # 0
<1>1. /\ SelfOK /\ ObjectOK /\ SendOK /\ SessionOK /\ DeviceOK /\ CommandOK
      /\ MtuOK
  BY DEF ObexInv
<1>2. /\ self' = [self EXCEPT !.tx_msg = t]
      /\ object' = [object EXCEPT !.txq = q]
      /\ send' = [send EXCEPT !.tx_left = left, !.addmore = more]
      /\ pc = "fill" /\ object.txq # <<>>
      /\ pc' = pc /\ session' = session /\ device' = device /\ rsp' = rsp
  BY Zenon DEF Put, Filling
<1>3. self.tx_msg \in SoundBuffers
  BY <1>1, SelfFields
<1>4. t \in SoundBuffers /\ Len(t.data) = Len(self.tx_msg.data) + Len(cells)
  BY <1>3, TxInsert, Zenon
<1>5. more \in BOOLEAN /\ 0 \in Int
  OBVIOUS
<1> HIDE DEF t
<1>6. self' \in Selves /\ self'.tx_msg = t /\ self'.mtu_tx = self.mtu_tx
  BY <1>1, <1>2, <1>4, <1>5, SelfNewTx, Zenon
<1>7. /\ send'.tx_left = left /\ send'.addmore = more /\ SendOK'
  BY <1>1, <1>2, <1>5, SendFields, Zenon DEF SendOK
<1>8. /\ object' \in Wanted /\ object'.cmd = object.cmd
      /\ object'.nonhdr = object.nonhdr /\ object'.txq = q
  BY <1>1, <1>2, Zenon DEF ObjectOK, Wanted
<1>9. SelfOK' /\ ObjectOK' /\ SessionOK' /\ DeviceOK'
  BY <1>1, <1>2, <1>6, <1>8, Zenon DEF SelfOK, ObjectOK, SessionOK, DeviceOK
<1>10. CommandOK'
  BY <1>1, <1>2, <1>8, Zenon DEF CommandOK
<1>11. MtuOK'
  BY <1>1, <1>2, <1>6, <1>8, Zenon DEF MtuOK
<1>12. FillOK'
  BY <1>4, <1>6, <1>7, <1>8, Zenon DEF FillOK, Fits
<1>13. PacketFits'
  BY <1>2, Zenon DEF PacketFits
<1>14. QED
  BY <1>7, <1>9, <1>10, <1>11, <1>12, <1>13 DEF ObexInv

\* What the invariant says while a packet is filled.
LEMMA FillingFacts ==
  ASSUME ObexInv, Filling
  PROVE  /\ object.txq \in Queues /\ object.txq # <<>>
         /\ send.tx_left \in Int /\ send.tx_left >= 3
         /\ Len(self.tx_msg.data) \in Nat /\ self.mtu_tx = MtuTx
         /\ object.cmd # "SETPATH" =>
              Len(self.tx_msg.data) + send.tx_left + 4 <= self.mtu_tx
         /\ object.cmd = "SETPATH" =>
              Len(self.tx_msg.data) <= 2 /\ NameQueue(object.txq)
         /\ LengthQueue(object.txq) => send.tx_left >= 8
         /\ FullQueue(object.txq) => send.tx_left >= NameLen + 11
<1>1. SelfOK /\ ObjectOK /\ SendOK /\ CommandOK /\ MtuOK /\ FillOK
  BY DEF ObexInv
<1>2. pc = "fill" /\ send.addmore /\ object.txq # <<>>
  BY DEF Filling
<1>3. object.txq \in Queues
  BY <1>1, ObjectFields
<1>4. send.tx_left \in Int
  BY <1>1 DEF SendOK
<1>5. self.tx_msg.data \in Seq(Cells)
  BY <1>1, SelfFields DEF SoundBuffers, Buffers
<1>6. Len(self.tx_msg.data) \in Nat
  BY <1>5, LenProperties
<1>7. self.mtu_tx = MtuTx
  BY <1>1, <1>2, Zenon DEF CommandOK, MtuOK
<1>8. object.cmd = "SETPATH" => NameQueue(object.txq)
  BY <1>1, <1>2, Zenon DEF CommandOK
<1>9. QED
  BY <1>1, <1>2, <1>3, <1>4, <1>6, <1>7, <1>8, Zenon DEF FillOK

\* send_body: a fragment fills the packet up to the transfer unit, the rest of
\* the body stays queued.
LEMMA FragmentKeeps ==
  ASSUME ObexInv, SendFragment
  PROVE  ObexInv'
<1> DEFINE h == Head(object.txq)
           n == send.tx_left - 3
           cells == Stream("BODY", SubSeq(h.buf, 1, n))
           left == 0
           q == <<[h EXCEPT !.buf = SubSeq(h.buf, n + 1, Len(h.buf))]>>
                  \o Tail(object.txq)
<1>1. /\ Filling /\ h.hi = "BODY" /\ send.tx_left < Len(h.buf) + 3
      /\ Put(cells, left, q)
  BY Zenon DEF SendFragment
<1>2. /\ object.txq \in Queues /\ object.txq # <<>>
      /\ send.tx_left \in Int /\ send.tx_left >= 3
      /\ Len(self.tx_msg.data) \in Nat /\ self.mtu_tx = MtuTx
      /\ object.cmd # "SETPATH" =>
           Len(self.tx_msg.data) + send.tx_left + 4 <= self.mtu_tx
      /\ object.cmd = "SETPATH" => NameQueue(object.txq)
  BY <1>1, FillingFacts, Zenon
<1>3. BodyQueue(object.txq) /\ h \in BodyHeaders /\ Tail(object.txq) = <<>>
  BY <1>1, <1>2, QueueParts, Zenon
<1>4. h.buf \in Seq(Cells)
  BY <1>3 DEF BodyHeaders
<1>5. object.cmd # "SETPATH"
  <2>1. ~NameQueue(object.txq)
    BY <1>3 DEF NameQueue, BodyQueue, NameHeaders, BodyHeaders
  <2>2. QED
    BY <2>1, <1>2, Zenon
<1>6. Len(h.buf) \in Nat /\ n \in Nat /\ n <= Len(h.buf)
  <2>1. Len(h.buf) \in Nat
    BY <1>4, LenProperties
  <2>2. QED
    BY <2>1, <1>1, <1>2
<1>7. SubSeq(h.buf, 1, n) \in Seq(Cells) /\ Len(SubSeq(h.buf, 1, n)) = n
  BY <1>4, <1>6, SubSeqProperties
<1>8. SubSeq(h.buf, n + 1, Len(h.buf)) \in Seq(Cells)
  BY <1>4, <1>6, CutFront
<1>9. "BODY" \in Words /\ 0 \in Nat
  BY SomeWords
<1>10. cells \in Seq(Cells) /\ Len(cells) = 3 + n
  BY <1>7, <1>9, NewHeaders, Zenon
<1>11. q \in Queues
  <2>1. [h EXCEPT !.buf = SubSeq(h.buf, n + 1, Len(h.buf))] \in BodyHeaders
    BY <1>3, <1>8, Zenon DEF BodyHeaders
  <2>2. \A c \in BodyHeaders : <<c>> \o <<>> \in Queues
    BY DEF Queues, BodyQueue
  <2>3. QED
    BY <2>1, <2>2, <1>3, Zenon
<1> HIDE DEF cells, q
<1>12. Fits(Len(cells), left, q)
  <2>1. Len(self.tx_msg.data) + Len(cells) + 4 <= self.mtu_tx
    BY <1>2, <1>5, <1>6, <1>10, ObexAssumption
  <2>2. QED
    BY <2>1, Zenon DEF Fits
<1>13. left \in Int
  OBVIOUS
<1>14. QED
  BY <1>1, <1>5, <1>10, <1>11, <1>12, <1>13, PutKeeps, Zenon

\* send_body: the rest of the body fits.
LEMMA BodyEndKeeps ==
  ASSUME ObexInv, SendBodyEnd
  PROVE  ObexInv'
<1> DEFINE h == Head(object.txq)
           cells == Stream("BODY_END", h.buf)
           left == send.tx_left - Len(h.buf)
           q == Tail(object.txq)
<1>1. /\ Filling /\ h.hi = "BODY" /\ send.tx_left >= Len(h.buf) + 3
      /\ Put(cells, left, q)
  BY Zenon DEF SendBodyEnd
<1>2. /\ object.txq \in Queues /\ object.txq # <<>> /\ send.tx_left \in Int
      /\ Len(self.tx_msg.data) \in Nat /\ self.mtu_tx = MtuTx
      /\ object.cmd # "SETPATH" =>
           Len(self.tx_msg.data) + send.tx_left + 4 <= self.mtu_tx
      /\ object.cmd = "SETPATH" => NameQueue(object.txq)
  BY <1>1, FillingFacts, Zenon
<1>3. BodyQueue(object.txq) /\ h \in BodyHeaders /\ q = <<>> /\ q \in Queues
  BY <1>1, <1>2, QueueParts, Zenon
<1>4. h.buf \in Seq(Cells)
  BY <1>3 DEF BodyHeaders
<1>5. object.cmd # "SETPATH"
  <2>1. ~NameQueue(object.txq)
    BY <1>3 DEF NameQueue, BodyQueue, NameHeaders, BodyHeaders
  <2>2. QED
    BY <2>1, <1>2, Zenon
<1>6. Len(h.buf) \in Nat
  BY <1>4, LenProperties
<1>7. left \in Int
  BY <1>2, <1>6
<1>8. "BODY_END" \in Words /\ 0 \in Nat
  BY SomeWords
<1>9. cells \in Seq(Cells) /\ Len(cells) = 3 + Len(h.buf)
  BY <1>4, <1>8, NewHeaders, Zenon
<1> HIDE DEF cells, q, left
<1>10. Len(self.tx_msg.data) + Len(cells) + 4 <= self.mtu_tx
  <2> DEFINE lh == Len(h.buf)
             lt == Len(self.tx_msg.data)
  <2>1. /\ lh \in Nat /\ lt \in Nat /\ send.tx_left \in Int
        /\ send.tx_left >= lh + 3 /\ Len(cells) = 3 + lh
        /\ lt + send.tx_left + 4 <= self.mtu_tx /\ self.mtu_tx = MtuTx
    BY <1>1, <1>2, <1>5, <1>6, <1>9, Zenon
  <2>2. MtuTx \in Nat
    BY ObexAssumption
  <2> HIDE DEF lh, lt
  <2>3. lt + Len(cells) + 4 <= self.mtu_tx
    BY <2>1, <2>2
  <2>4. QED
    BY <2>3 DEF lt
<1>11. Fits(Len(cells), left, q)
  BY <1>3, <1>10, Zenon DEF Fits
<1>12. QED
  BY <1>1, <1>3, <1>7, <1>9, <1>11, PutKeeps, Zenon

\* A queue is of one kind.
LEMMA QueueKinds ==
  ASSUME NEW s
  PROVE  /\ ~(LengthQueue(s) /\ BodyQueue(s)) /\ ~(LengthQueue(s) /\ FullQueue(s))
         /\ ~(BodyQueue(s) /\ FullQueue(s)) /\ ~(NameQueue(s) /\ FullQueue(s))
         /\ ~(NameQueue(s) /\ LengthQueue(s))
<1>1. /\ (LengthQueue(s) => Len(s) = 2) /\ (FullQueue(s) => Len(s) = 3)
      /\ (BodyQueue(s) => Len(s) = 1) /\ (NameQueue(s) => Len(s) = 1)
  BY Zenon DEF LengthQueue, BodyQueue, FullQueue, NameQueue
<1>2. QED
  BY <1>1

\* obex_object_send: a header that is not the body.
LEMMA HeaderKeeps ==
  ASSUME ObexInv, SendHeader
  PROVE  ObexInv'
<1> DEFINE h == Head(object.txq)
           left == send.tx_left - Len(h.buf)
           q == Tail(object.txq)
           lt == Len(self.tx_msg.data)
           lh == Len(h.buf)
<1>1. /\ Filling /\ h.hi # "BODY" /\ lh <= send.tx_left
      /\ Put(h.buf, left, q)
  BY Zenon DEF SendHeader
<1>2. /\ object.txq \in Queues /\ object.txq # <<>> /\ send.tx_left \in Int
      /\ lt \in Nat /\ self.mtu_tx = MtuTx
      /\ object.cmd # "SETPATH" => lt + send.tx_left + 4 <= self.mtu_tx
      /\ object.cmd = "SETPATH" => lt <= 2 /\ NameQueue(object.txq)
      /\ LengthQueue(object.txq) => send.tx_left >= 8
      /\ FullQueue(object.txq) => send.tx_left >= NameLen + 11
  BY <1>1, FillingFacts, Zenon
<1>3. /\ \/ NameQueue(object.txq) /\ h \in NameHeaders /\ q = <<>>
         \/ FullQueue(object.txq) /\ h \in NameHeaders /\ LengthQueue(q)
         \/ LengthQueue(object.txq) /\ h \in LengthHeaders /\ BodyQueue(q)
      /\ q \in Queues
  BY <1>1, <1>2, QueueParts, Zenon
<1>4. /\ h \in NameHeaders => h.buf \in Seq(Cells) /\ lh = 3 + NameLen
      /\ h \in LengthHeaders => h.buf \in Seq(Cells) /\ lh = 5
  BY DEF NameHeaders, LengthHeaders
<1>5. h.buf \in Seq(Cells)
  BY <1>3, <1>4, Zenon
<1>6. lh \in Nat
  BY <1>5, LenProperties
<1>7. left \in Int /\ left = send.tx_left - lh
  BY <1>2, <1>6
<1>8. /\ ~(LengthQueue(q) /\ BodyQueue(q)) /\ ~(LengthQueue(q) /\ FullQueue(q))
      /\ ~(BodyQueue(q) /\ FullQueue(q)) /\ ~(NameQueue(object.txq) /\ FullQueue(object.txq))
      /\ ~(NameQueue(object.txq) /\ LengthQueue(object.txq))
  BY QueueKinds, Zenon
<1>9. MtuTx \in Nat /\ NameLen \in Nat /\ MtuTx >= NameLen + 15
  BY ObexAssumption
<1> HIDE DEF q, left, lt, lh
<1>10. Fits(lh, left, q)
  <2>1. CASE object.cmd = "SETPATH"
    <3>1. lt <= 2 /\ NameQueue(object.txq)
      BY <2>1, <1>2, Zenon
    <3>2. h \in NameHeaders /\ q = <<>>
      BY <3>1, <1>3, <1>8, Zenon
    <3>3. lh = 3 + NameLen
      BY <3>2, <1>4, Zenon
    <3>4. lt + lh + 4 <= self.mtu_tx
      BY <3>1, <3>3, <1>2, <1>9
    <3>5. QED
      BY <3>2, <3>4, Zenon DEF Fits, lt
  <2>2. CASE object.cmd # "SETPATH"
    <3>1. lt + send.tx_left + 4 <= MtuTx /\ self.mtu_tx = MtuTx
          /\ lt \in Nat /\ send.tx_left \in Int /\ lh <= send.tx_left
      BY <2>2, <1>1, <1>2, Zenon
    <3>2. lt + lh + 4 <= MtuTx /\ lt + lh + left + 4 <= MtuTx
      BY <3>1, <1>6, <1>7, <1>9
    <3>3. CASE q = <<>>
      BY <3>1, <3>2, <3>3, Zenon DEF Fits, lt
    <3>4. CASE FullQueue(object.txq) /\ h \in NameHeaders /\ LengthQueue(q)
      <4>1. send.tx_left >= NameLen + 11 /\ lh = 3 + NameLen
        BY <3>4, <1>2, <1>4, Zenon
      <4>2. left >= 3 /\ left >= 8
        BY <4>1, <3>1, <1>6, <1>7, <1>9
      <4>3. QED
        BY <3>1, <3>2, <3>4, <4>2, <2>2, <1>8, Zenon DEF Fits, lt
    <3>5. CASE LengthQueue(object.txq) /\ h \in LengthHeaders /\ BodyQueue(q)
      <4>1. send.tx_left >= 8 /\ lh = 5
        BY <3>5, <1>2, <1>4, Zenon
      <4>2. left >= 3
        BY <4>1, <3>1, <1>6, <1>7
      <4>3. QED
        BY <3>1, <3>2, <3>5, <4>2, <2>2, <1>8, Zenon DEF Fits, lt
    <3>6. QED
      BY <3>3, <3>4, <3>5, <1>3, Zenon
  <2>3. QED
    BY <2>1, <2>2
<1>11. object.cmd = "SETPATH" => q = <<>>
  BY <1>2, <1>3, <1>8, Zenon
<1>12. QED
  BY <1>1, <1>3, <1>5, <1>7, <1>10, <1>11, PutKeeps, Zenon DEF lh

\* obex_request returns an error: nothing is left to be sent.
LEMMA FailKeeps ==
  ASSUME ObexInv, NEW n, Fail(n), pc \in {"fill", "verify", "read"},
         SelfOK', self'.mtu_tx = self.mtu_tx, DeviceOK', SendOK'
  PROVE  ObexInv'
<1>1. ObjectOK /\ SessionOK /\ CommandOK /\ MtuOK
  BY DEF ObexInv
<1>2. /\ pc' = IF object.cmd \in {"CONNECT", "DISCONNECT"} THEN "end" ELSE "idle"
      /\ object' = [object EXCEPT !.txq = <<>>]
      /\ session' = [session EXCEPT !.status = "broken",
                                    !.faults = session.faults + n]
  BY Zenon DEF Fail
<1>3. /\ object' \in Wanted /\ object'.cmd = object.cmd
      /\ object'.nonhdr = object.nonhdr /\ object'.txq = <<>>
  <2>1. <<>> \in Queues
    BY DEF Queues
  <2>2. QED
    BY <2>1, <1>1, <1>2, Zenon DEF ObjectOK, Wanted
<1>4. SessionOK'
  BY <1>1, <1>2, SessionKept, Zenon DEF SessionOK
<1>5. ObjectOK' /\ CommandOK'
  BY <1>1, <1>2, <1>3, Zenon DEF ObjectOK, CommandOK
<1>6. pc' \in {"idle", "end"} /\ (pc' = "idle" => self.mtu_tx = MtuTx)
  BY <1>1, <1>2, Zenon DEF CommandOK, MtuOK
<1>7. MtuOK' /\ FillOK' /\ PacketFits'
  BY <1>6, Zenon DEF MtuOK, FillOK, PacketFits
<1>8. QED
  BY <1>4, <1>5, <1>7 DEF ObexInv

\* The packet on its way: its number, its command, and what was filled in.
LEMMA PacketMade ==
  ASSUME SelfOK, ObjectOK, SessionOK
  PROVE  /\ Packet \in SoundBuffers /\ Packet.data \in Packets
         /\ Len(Packet.data) = 4 + Len(self.tx_msg.data)
         /\ Len(self.tx_msg.data) \in Nat
<1> DEFINE s == <<"seq", self.seq_num, session.packets + 1>>
           c == <<"cmd", object.cmd, object.txq = <<>> >>
           head == <<s, c>> \o Pads(2)
           d == self.tx_msg.data
<1>1. s \in SeqCells
  <2>1. self.seq_num \in Int /\ session.packets + 1 \in Nat
    BY SelfFields DEF SessionOK
  <2>2. QED
    BY <2>1, NewCells, Zenon
<1>2. c \in CmdCells
  <2>1. object.cmd \in Words /\ (object.txq = <<>>) \in BOOLEAN
    BY ObjectFields, Zenon
  <2>2. QED
    BY <2>1, NewCells, Zenon
<1>3. s \in Cells /\ c \in Cells /\ Pads(2) \in Seq(Cells) /\ Len(Pads(2)) = 2
  BY <1>1, <1>2, NewCells, Fillers
<1> HIDE DEF s, c
<1>4. head \in Seq(Cells) /\ Len(head) = 4 /\ head[1] = s /\ head[2] = c
  <2> DEFINE two == <<s, c>>
  <2>1. two \in Seq(Cells) /\ Len(two) = 2 /\ two[1] = s /\ two[2] = c
    BY <1>3
  <2> HIDE DEF two
  <2>2. /\ two \o Pads(2) \in Seq(Cells)
        /\ Len(two \o Pads(2)) = Len(two) + Len(Pads(2))
        /\ \A i \in 1 .. Len(two) + Len(Pads(2)) : (two \o Pads(2))[i] =
             IF i <= Len(two) THEN two[i] ELSE Pads(2)[i - Len(two)]
    BY <2>1, <1>3, ConcatProperties, Zenon
  <2>3. (two \o Pads(2))[1] = two[1] /\ (two \o Pads(2))[2] = two[2]
    BY <2>1, <2>2, <1>3
  <2>4. head = two \o Pads(2)
    BY Zenon DEF two
  <2>5. Len(two) + Len(Pads(2)) = 2 + 2 /\ 2 + 2 = 4
    <3>1. 2 + 2 = 4
      OBVIOUS
    <3>2. QED
      BY <3>1, <2>1, <1>3, Zenon
  <2>6. QED
    BY <2>1, <2>2, <2>3, <2>4, <2>5, Zenon
<1>5. GoodBuffer(self.tx_msg, Cells) /\ d \in Seq(Cells)
  BY SelfFields DEF SoundBuffers, GoodBuffer, Buffers
<1>6. Packet = buf_insert_begin(self.tx_msg, head)
  BY Zenon DEF Packet, s, c
<1> HIDE DEF head
<1>7. GoodBuffer(Packet, Cells) /\ Packet.data = head \o d
  BY <1>4, <1>5, <1>6, InsertBegin, Zenon
<1> HIDE DEF d
<1>8. /\ head \o d \in Seq(Cells) /\ Len(head \o d) = 4 + Len(d) /\ Len(d) \in Nat
      /\ (head \o d)[1] = head[1] /\ (head \o d)[2] = head[2]
  <2>1. /\ head \o d \in Seq(Cells) /\ Len(head \o d) = Len(head) + Len(d)
        /\ Len(d) \in Nat
        /\ \A i \in 1 .. Len(head) + Len(d) : (head \o d)[i] =
             IF i <= Len(head) THEN head[i] ELSE d[i - Len(head)]
    BY <1>4, <1>5, ConcatProperties, LenProperties, Zenon
  <2>2. (head \o d)[1] = head[1] /\ (head \o d)[2] = head[2]
    BY <2>1, <1>4
  <2>3. QED
    BY <2>1, <2>2, <1>4
<1>9. head \o d \in Packets
  <2>1. Len(head \o d) >= 2
    BY <1>8
  <2>2. QED
    BY <2>1, <1>1, <1>2, <1>4, <1>8, Zenon DEF Packets
<1>10. Packet \in SoundBuffers
  BY <1>7 DEF GoodBuffer, SoundBuffers
<1>11. QED
  BY <1>7, <1>8, <1>9, <1>10, Zenon DEF d

\* The packet is sent, or the device is gone.
LEMMA SendPacketKeeps ==
  ASSUME ObexInv, SendPacket
  PROVE  ObexInv'
<1> DEFINE q == (self.seq_num + 1) % SeqRange
           done == object.txq = <<>>
<1>1. /\ SelfOK /\ ObjectOK /\ SendOK /\ SessionOK /\ DeviceOK /\ CommandOK
      /\ MtuOK /\ FillOK
  BY DEF ObexInv
<1>2. /\ pc = "fill"
      /\ self' = [self EXCEPT !.tx_msg = Packet, !.seq_num = q]
      /\ send' = [send EXCEPT !.finished = done, !.seq = self.seq_num]
      /\ \/ Fail(0) /\ device' = device
         \/ /\ device' = [device EXCEPT !.inbox = Append(device.inbox, Packet.data)]
            /\ pc' = "verify" /\ object' = object
            /\ session' = [session EXCEPT !.packets = session.packets + 1]
  BY Zenon DEF SendPacket
<1>3. /\ Packet \in SoundBuffers /\ Packet.data \in Packets
      /\ Len(Packet.data) = 4 + Len(self.tx_msg.data)
      /\ Len(self.tx_msg.data) \in Nat
  BY <1>1, PacketMade
<1>4. q \in Int /\ self.seq_num \in Int
  BY <1>1, SelfFields, ObexAssumption
<1>5. done \in BOOLEAN
  OBVIOUS
<1> HIDE DEF q, done
<1>6. self' \in Selves /\ self'.tx_msg = Packet /\ self'.mtu_tx = self.mtu_tx
  <2>1. self' = [self EXCEPT !.tx_msg = Packet, !.seq_num = q]
    BY <1>2
  <2>2. QED
    BY <2>1, <1>1, <1>3, <1>4, Zenon DEF SelfOK, Selves
<1>7. SelfOK'
  BY <1>6 DEF SelfOK
<1>8. SendOK'
  BY <1>1, <1>2, <1>4, <1>5, Zenon DEF SendOK
<1>9. CASE Fail(0) /\ device' = device
  <2>1. DeviceOK'
    BY <1>1, <1>9, Zenon DEF DeviceOK
  <2>2. QED
    BY <2>1, <1>2, <1>6, <1>7, <1>8, <1>9, FailKeeps, Zenon
<1>10. CASE /\ device' = [device EXCEPT !.inbox = Append(device.inbox, Packet.data)]
            /\ pc' = "verify" /\ object' = object
            /\ session' = [session EXCEPT !.packets = session.packets + 1]
  <2>1. SessionOK'
    BY <1>1, <1>10, SessionCounts, Zenon DEF SessionOK
  <2>2. DeviceOK'
    <3>1. Append(device.inbox, Packet.data) \in Seq(Packets)
      BY <1>1, <1>3 DEF DeviceOK
    <3>2. /\ DOMAIN device' = DOMAIN device
          /\ device'.inbox = Append(device.inbox, Packet.data)
          /\ device'.wire = device.wire /\ device'.out = device.out
      BY <1>1, <1>10, Zenon DEF DeviceOK
    <3>3. QED
      BY <3>1, <3>2, <1>1, Zenon DEF DeviceOK
  <2>3. ObjectOK' /\ CommandOK'
    BY <1>1, <1>2, <1>10, Zenon DEF ObjectOK, CommandOK
  <2>4. MtuOK'
    BY <1>1, <1>2, <1>6, <1>10, Zenon DEF MtuOK
  <2>5. FillOK'
    BY <1>10, Zenon DEF FillOK
  <2>6. PacketFits'
    <3>1. Len(self.tx_msg.data) + 4 <= self.mtu_tx
      BY <1>1, <1>2, Zenon DEF FillOK
    <3>2. self.mtu_tx \in Nat
      BY <1>1, SelfFields, ObexAssumption
    <3>3. Len(Packet.data) <= self.mtu_tx
      BY <3>1, <3>2, <1>3
    <3>4. QED
      BY <3>3, <1>6, Zenon DEF PacketFits
  <2>7. QED
    BY <2>1, <2>2, <2>3, <2>4, <2>5, <2>6, <1>7, <1>8 DEF ObexInv
<1>11. QED
  BY <1>2, <1>9, <1>10, Zenon

-----------------------------------------------------------------------------
(* An answer is read and parsed.                                           *)

\* obex_t with another rx_msg: the rest stays.
LEMMA SelfNewRx ==
  ASSUME SelfOK, NEW r \in RxBuffers, NEW g, g = [self EXCEPT !.rx_msg = r]
  PROVE  /\ g \in Selves /\ g.tx_msg = self.tx_msg /\ g.mtu_tx = self.mtu_tx
         /\ g.rx_msg = r
  BY Zenon DEF SelfOK, Selves

\* A step that only reads keeps the invariant.
LEMMA ReaderFrame ==
  ASSUME ObexInv, pc \in {"verify", "read"},
         pc' \in {"verify", "read", "callback"},
         pc' = "callback" => rsp' # "SUCCESS",
         self' \in Selves, self'.tx_msg = self.tx_msg,
         self'.mtu_tx = self.mtu_tx, SessionOK', DeviceOK',
         object' = object, send' = send
  PROVE  ObexInv'
<1>1. ObjectOK /\ SendOK /\ CommandOK /\ MtuOK /\ PacketFits
  BY DEF ObexInv
<1>2. SelfOK' /\ ObjectOK' /\ SendOK'
  BY <1>1, Zenon DEF SelfOK, ObjectOK, SendOK
<1>3. CommandOK'
  BY <1>1, Zenon DEF CommandOK
<1>4. MtuOK'
  BY <1>1, Zenon DEF MtuOK
<1>5. FillOK' /\ PacketFits'
  BY <1>1, Zenon DEF FillOK, PacketFits
<1>6. QED
  BY <1>2, <1>3, <1>4, <1>5 DEF ObexInv

\* A transfer is taken off the wire.
LEMMA ReadsKeeps ==
  ASSUME SelfOK, DeviceOK, device.wire # <<>>, Reads
  PROVE  DeviceOK'
<1>1. Rest \in Seq(Seq(Cells))
  BY TakeFits
<1>2. /\ DOMAIN device' = DOMAIN device /\ device'.inbox = device.inbox
      /\ device'.wire = Rest /\ device'.out = device.out
  BY Zenon DEF Reads, DeviceOK
<1>3. QED
  BY <1>1, <1>2, Zenon DEF DeviceOK

\* Nothing, or a transfer, read into rx_msg.
LEMMA LandedSelf ==
  ASSUME SelfOK, DeviceOK
  PROVE  /\ Landed(<<>>) \in RxBuffers
         /\ device.wire # <<>> =>
              /\ Landed(Take) \in RxBuffers
              /\ buf_remove_begin(Landed(Take), 1) \in RxBuffers
<1>1. <<>> \in Seq(Cells) /\ Len(<<>>) <= DefaultMtu
  BY ObexAssumption
<1>2. Landed(<<>>) \in RxBuffers
  BY <1>1, LandedFits, Zenon
<1>3. ASSUME device.wire # <<>>
      PROVE  Landed(Take) \in RxBuffers
  BY <1>3, TakeFits, LandedFits, Zenon
<1>4. 1 \in Nat
  OBVIOUS
<1>5. QED
  BY <1>2, <1>3, <1>4, RxShortened, Zenon

\* obex_verify_seq and obex_bulk_read keep the invariant.
LEMMA ReadingKeeps ==
  ASSUME ObexInv, obex_verify_seq \/ obex_bulk_read \/ ReadTimeout
  PROVE  ObexInv'
<1>1. SelfOK /\ SendOK /\ SessionOK /\ DeviceOK
  BY DEF ObexInv
<1>2. /\ Landed(<<>>) \in RxBuffers
      /\ device.wire # <<>> => /\ Landed(Take) \in RxBuffers
                               /\ buf_remove_begin(Landed(Take), 1) \in RxBuffers
  BY <1>1, LandedSelf, Zenon
<1>3. self \in Selves
  BY <1>1 DEF SelfOK
<1>4. CASE SeqEmpty
  <2>1. /\ pc = "verify" /\ device.wire # <<>> /\ Reads /\ send' = send
        /\ \/ Fail(0) /\ self' = [self EXCEPT !.rx_msg = Landed(<<>>)]
           \/ pc' = pc /\ object' = object /\ session' = session /\ self' = self
    BY <1>4, Zenon DEF SeqEmpty
  <2>2. DeviceOK' /\ SendOK'
    BY <2>1, <1>1, ReadsKeeps, Zenon DEF SendOK
  <2>3. CASE Fail(0) /\ self' = [self EXCEPT !.rx_msg = Landed(<<>>)]
    <3>1. self' \in Selves /\ self'.mtu_tx = self.mtu_tx
      BY <2>3, <1>1, <1>2, SelfNewRx, Zenon
    <3>2. QED
      BY <3>1, <2>1, <2>2, <2>3, FailKeeps, Zenon DEF SelfOK
  <2>4. CASE pc' = pc /\ object' = object /\ session' = session /\ self' = self
    <3>1. SessionOK'
      BY <2>4, <1>1, Zenon DEF SessionOK
    <3>2. QED
      BY <3>1, <2>1, <2>2, <2>4, <1>3, ReaderFrame, Zenon
  <2>5. QED
    BY <2>1, <2>3, <2>4, Zenon
<1>5. CASE SeqMatches
  <2>1. /\ pc = "verify" /\ device.wire # <<>> /\ Reads /\ send' = send
        /\ self' = [self EXCEPT !.rx_msg = buf_remove_begin(Landed(Take), 1)]
        /\ pc' = "read" /\ object' = object
        /\ session' = [session EXCEPT
             !.collided = session.collided \/ Head(Take)[1] # "seq"]
    BY <1>5, Zenon DEF SeqMatches
  <2>2. DeviceOK'
    BY <2>1, <1>1, ReadsKeeps, Zenon
  <2>3. SessionOK'
    BY <2>1, <1>1, SessionKept, Zenon DEF SessionOK
  <2>4. /\ self' \in Selves /\ self'.mtu_tx = self.mtu_tx
        /\ self'.tx_msg = self.tx_msg
    BY <2>1, <1>1, <1>2, SelfNewRx, Zenon
  <2>5. QED
    BY <2>1, <2>2, <2>3, <2>4, ReaderFrame, Zenon
<1>6. CASE SeqMismatch
  <2>1. /\ pc = "verify" /\ device.wire # <<>> /\ Reads /\ send' = send
        /\ self' = [self EXCEPT !.rx_msg = Landed(Take)] /\ Fail(0)
    BY <1>6, Zenon DEF SeqMismatch
  <2>2. DeviceOK' /\ SendOK'
    BY <2>1, <1>1, ReadsKeeps, Zenon DEF SendOK
  <2>3. self' \in Selves /\ self'.mtu_tx = self.mtu_tx
    BY <2>1, <1>1, <1>2, SelfNewRx, Zenon
  <2>4. QED
    BY <2>1, <2>2, <2>3, FailKeeps, Zenon DEF SelfOK
<1>7. CASE SeqTimeout
  <2>1. /\ pc = "verify" /\ device' = device /\ send' = send
        /\ self' = [self EXCEPT !.rx_msg = Landed(<<>>)] /\ Fail(Late)
    BY <1>7, Zenon DEF SeqTimeout
  <2>2. DeviceOK' /\ SendOK'
    BY <2>1, <1>1, Zenon DEF SendOK, DeviceOK
  <2>3. self' \in Selves /\ self'.mtu_tx = self.mtu_tx
    BY <2>1, <1>1, <1>2, SelfNewRx, Zenon
  <2>4. QED
    BY <2>1, <2>2, <2>3, FailKeeps, Zenon DEF SelfOK
<1>8. CASE obex_bulk_read
  <2>1. /\ pc = "read" /\ device.wire # <<>> /\ Reads /\ send' = send
        /\ self' = [self EXCEPT !.rx_msg = Landed(Take)]
        /\ pc' = pc /\ object' = object /\ session' = session
    BY <1>8, Zenon DEF obex_bulk_read
  <2>2. DeviceOK' /\ SessionOK'
    BY <2>1, <1>1, ReadsKeeps, Zenon DEF SessionOK
  <2>3. /\ self' \in Selves /\ self'.mtu_tx = self.mtu_tx
        /\ self'.tx_msg = self.tx_msg
    BY <2>1, <1>1, <1>2, SelfNewRx, Zenon
  <2>4. QED
    BY <2>1, <2>2, <2>3, ReaderFrame, Zenon
<1>9. CASE ReadTimeout
  <2>1. /\ pc = "read" /\ device' = device /\ send' = send
        /\ self' = [self EXCEPT !.rx_msg = Landed(<<>>)]
        /\ pc' = "callback" /\ rsp' = "error" /\ object' = object
        /\ session' = [session EXCEPT !.faults = session.faults + Late]
    BY <1>9, Zenon DEF ReadTimeout
  <2>2. DeviceOK'
    BY <2>1, <1>1, Zenon DEF DeviceOK
  <2>3. SessionOK'
    BY <2>1, <1>1, SessionKept, Zenon DEF SessionOK
  <2>4. /\ self' \in Selves /\ self'.mtu_tx = self.mtu_tx
        /\ self'.tx_msg = self.tx_msg
    BY <2>1, <1>1, <1>2, SelfNewRx, Zenon
  <2>5. QED
    BY <2>1, <2>2, <2>3, <2>4, ReaderFrame, Zenon
<1>10. QED
  BY <1>4, <1>5, <1>6, <1>7, <1>8, <1>9, Zenon DEF obex_verify_seq

\* The buffer a body fragment goes to, with the fragment in it.
LEMMA BodyBufferSound ==
  ASSUME ObjectOK, NEW n \in Nat, NEW data \in Seq(Cells)
  PROVE  buf_insert_end(BodyBuffer(n), Fragment(data, n)) \in SoundBuffers
<1> DEFINE size == IF object.hinted # 0 THEN object.hinted ELSE Threshold + n
           b == IF object.rx_body = <<>> THEN buf_new(size) ELSE object.rx_body[1]
           r == buf_resize(b, buf_total_size(b) + Threshold + n)
<1>1. object.hinted \in Nat /\ object.rx_body \in Seq(SoundBuffers) /\ Threshold \in Nat
  BY ObjectFields, ObexAssumption
<1>2. size \in Nat
  BY <1>1
<1>3. b \in SoundBuffers
  <2>1. CASE object.rx_body = <<>>
    <3>1. GoodBuffer(buf_new(size), Cells)
      BY <1>2, NewBuffer, Zenon
    <3>2. QED
      BY <2>1, <3>1, Zenon DEF GoodBuffer, SoundBuffers
  <2>2. CASE object.rx_body # <<>>
    BY <2>2, <1>1
  <2>3. QED
    BY <2>1, <2>2
<1>4. BodyBuffer(n) = IF b.avail + b.tail < n THEN r ELSE b
  BY Zenon DEF BodyBuffer
<1> HIDE DEF b
<1>5. GoodBuffer(b, Cells) /\ buf_total_size(b) = b.block /\ b.block \in Nat
  BY <1>3 DEF SoundBuffers, GoodBuffer, Sound, Buffers
<1>6. /\ buf_total_size(b) + Threshold + n \in Nat
      /\ buf_total_size(b) + Threshold + n >= b.block
  BY <1>1, <1>5
<1>7. GoodBuffer(r, Cells)
  BY <1>5, <1>6, ResizeBuffer, Zenon
<1>8. BodyBuffer(n) \in SoundBuffers
  BY <1>3, <1>4, <1>7, Zenon DEF GoodBuffer, SoundBuffers
<1>9. Fragment(data, n) \in Seq(Cells)
  <2> DEFINE e(i) == IF i + 3 <= Len(data) THEN data[i + 3] ELSE <<"junk">>
  <2>1. \A i \in 1 .. n : e(i) \in Cells
    BY NewCells
  <2>2. [i \in 1 .. n |-> e(i)] \in Seq(Cells)
    <3> HIDE DEF e
    <3>1. QED
      BY <2>1
  <2>3. QED
    BY <2>2, Zenon DEF Fragment
<1>10. QED
  BY <1>8, <1>9, TxInsert, Zenon

\* A step that parses keeps the invariant.
LEMMA ParserFrame ==
  ASSUME ObexInv, pc = "parse", pc' \in {"parse", "callback"}, rsp' = rsp,
         self' \in Selves, self'.mtu_tx = self.mtu_tx, SessionOK',
         DeviceOK', SendOK', object' \in Wanted, object'.cmd = object.cmd,
         object'.nonhdr = object.nonhdr, object'.txq = object.txq
  PROVE  ObexInv'
<1>1. ObjectOK /\ CommandOK /\ MtuOK
  BY DEF ObexInv
<1>2. SelfOK' /\ ObjectOK'
  BY <1>1, Zenon DEF SelfOK, ObjectOK
<1>3. CommandOK'
  BY <1>1, Zenon DEF CommandOK
<1>4. MtuOK'
  BY <1>1, Zenon DEF MtuOK
<1>5. FillOK' /\ PacketFits'
  BY <1>1, Zenon DEF FillOK, PacketFits
<1>6. QED
  BY <1>2, <1>3, <1>4, <1>5 DEF ObexInv

\* obex_object_receive_body keeps the invariant.
LEMMA ParseBodyKeeps ==
  ASSUME ObexInv, ParseBody
  PROVE  ObexInv'
<1> DEFINE data == self.rx_msg.data
           h == data[1]
           b == buf_insert_end(BodyBuffer(h[3] - 3), Fragment(data, h[3] - 3))
<1>1. SelfOK /\ ObjectOK /\ SendOK /\ SessionOK /\ DeviceOK
  BY DEF ObexInv
<1>2. /\ pc = "parse" /\ data # <<>> /\ h[1] = "hdr"
      /\ \/ object' = [object EXCEPT !.rx_body = <<b>>]
         \/ object' = [object EXCEPT !.rx_body = <<>>, !.body = b.data,
                                     !.seen = object.seen \cup {"BODY"}]
      /\ self' = [self EXCEPT !.rx_msg = buf_remove_begin(self.rx_msg, h[3])]
      /\ pc' = pc /\ rsp' = rsp /\ send' = send /\ device' = device
      /\ session' = session
  BY Zenon DEF ParseBody, Parsing
<1>3. data \in Seq(Cells) /\ self.rx_msg \in RxBuffers
  BY <1>1, SelfFields DEF RxBuffers, SoundBuffers, Buffers
<1>4. h \in Cells
  BY <1>2, <1>3
<1>5. h[3] \in Nat /\ h[3] >= 3
  BY <1>2, <1>4, CellKinds, Zenon
<1>6. h[3] - 3 \in Nat
  BY <1>5
<1>7. b \in SoundBuffers
  BY <1>1, <1>3, <1>6, BodyBufferSound, Zenon
<1>8. buf_remove_begin(self.rx_msg, h[3]) \in RxBuffers
  BY <1>3, <1>5, RxShortened, Zenon
<1>9. self' \in Selves /\ self'.mtu_tx = self.mtu_tx
  BY <1>1, <1>2, <1>8, SelfNewRx, Zenon
<1> HIDE DEF b
<1>10. /\ object' \in Wanted /\ object'.cmd = object.cmd
       /\ object'.nonhdr = object.nonhdr /\ object'.txq = object.txq
  <2>1. <<b>> \in Seq(SoundBuffers) /\ <<>> \in Seq(SoundBuffers)
    BY <1>7
  <2>2. b.data \in Seq(Cells)
    BY <1>7 DEF SoundBuffers, Buffers
  <2>3. "BODY" \in Words
    BY SomeWords
  <2>4. object.seen \cup {"BODY"} \in SUBSET Words
    BY <2>3, <1>1, Zenon DEF ObjectOK, Wanted
  <2>5. CASE object' = [object EXCEPT !.rx_body = <<b>>]
    BY <2>1, <2>5, <1>1, Zenon DEF ObjectOK, Wanted
  <2>6. CASE object' = [object EXCEPT !.rx_body = <<>>, !.body = b.data,
                                      !.seen = object.seen \cup {"BODY"}]
    BY <2>1, <2>2, <2>4, <2>6, <1>1, Zenon DEF ObjectOK, Wanted
  <2>7. QED
    BY <2>5, <2>6, <1>2, Zenon
<1>11. SessionOK' /\ DeviceOK' /\ SendOK'
  BY <1>1, <1>2, Zenon DEF SessionOK, DeviceOK, SendOK
<1>12. QED
  BY <1>2, <1>9, <1>10, <1>11, ParserFrame, Zenon

\* The other headers, and the end of a response, keep the invariant.
LEMMA ParseKeeps ==
  ASSUME ObexInv, ParseHeader \/ ParseDone
  PROVE  ObexInv'
<1>1. SelfOK /\ ObjectOK /\ SendOK /\ SessionOK /\ DeviceOK
  BY DEF ObexInv
<1>2. CASE ParseHeader
  <2> DEFINE data == self.rx_msg.data
             h == data[1]
  <2>1. /\ pc = "parse" /\ data # <<>> /\ h[1] = "hdr"
        /\ \/ object' = object
           \/ object' = [object EXCEPT !.hinted = h[4],
                                       !.seen = object.seen \cup {"LENGTH"}]
        /\ self' = [self EXCEPT !.rx_msg = buf_remove_begin(self.rx_msg, h[3])]
        /\ pc' = pc /\ rsp' = rsp /\ send' = send /\ device' = device
        /\ session' = session
    BY <1>2, Zenon DEF ParseHeader, Parsing
  <2>2. data \in Seq(Cells) /\ self.rx_msg \in RxBuffers
    BY <1>1, SelfFields DEF RxBuffers, SoundBuffers, Buffers
  <2>3. h \in Cells
    BY <2>1, <2>2
  <2>4. h[3] \in Nat /\ h[4] \in Nat
    BY <2>1, <2>3, CellKinds, Zenon
  <2>5. buf_remove_begin(self.rx_msg, h[3]) \in RxBuffers
    BY <2>2, <2>4, RxShortened, Zenon
  <2>6. self' \in Selves /\ self'.mtu_tx = self.mtu_tx
    BY <1>1, <2>1, <2>5, SelfNewRx, Zenon
  <2>7. object.seen \cup {"LENGTH"} \in SUBSET Words
    <3>1. "LENGTH" \in Words
      BY SomeWords
    <3>2. QED
      BY <3>1, <1>1, Zenon DEF ObjectOK, Wanted
  <2>8. /\ object' \in Wanted /\ object'.cmd = object.cmd
        /\ object'.nonhdr = object.nonhdr /\ object'.txq = object.txq
    BY <1>1, <2>1, <2>4, <2>7, Zenon DEF ObjectOK, Wanted
  <2>9. SessionOK' /\ DeviceOK' /\ SendOK'
    BY <1>1, <2>1, Zenon DEF SessionOK, DeviceOK, SendOK
  <2>10. QED
    BY <2>1, <2>6, <2>8, <2>9, ParserFrame, Zenon
<1>3. CASE ParseDone
  <2>1. /\ pc = "parse" /\ pc' = "callback" /\ rsp' = rsp /\ self' = self
        /\ object' = object /\ send' = send /\ device' = device
        /\ session' = session
    BY <1>3, Zenon DEF ParseDone
  <2>2. SessionOK' /\ DeviceOK' /\ SendOK'
    BY <1>1, <2>1, Zenon DEF SessionOK, DeviceOK, SendOK
  <2>3. self \in Selves /\ object \in Wanted
    BY <1>1 DEF SelfOK, ObjectOK
  <2>4. QED
    BY <2>1, <2>2, <2>3, ParserFrame, Zenon
<1>4. QED
  BY <1>2, <1>3

\* The common header of a response: CONNECT raises the transfer unit,
\* DISCONNECT lowers it.
LEMMA ReceiveHeaderKeeps ==
  ASSUME ObexInv, ReceiveHeader
  PROVE  ObexInv'
<1> DEFINE code == self.rx_msg.data[1][2]
           offset == IF object.cmd = "CONNECT" THEN 8 ELSE object.offset
           rest == buf_remove_begin(buf_remove_begin(self.rx_msg, 3), offset)
           tx == CASE object.cmd = "DISCONNECT" -> DefaultMtu
                   [] object.cmd = "CONNECT" /\ code = "SUCCESS" -> MtuTx
                   [] OTHER -> self.mtu_tx
<1>1. /\ SelfOK /\ ObjectOK /\ SendOK /\ SessionOK /\ DeviceOK /\ CommandOK
      /\ MtuOK
  BY DEF ObexInv
<1>2. /\ pc = "read" /\ pc' = "parse" /\ rsp' = code
      /\ self' = [self EXCEPT !.rx_msg = rest, !.mtu_tx = tx]
      /\ object' = [object EXCEPT !.offset = 0]
      /\ session' = [session EXCEPT !.reply = self.rx_msg.data[1][3]]
      /\ send' = send /\ device' = device
  BY Zenon DEF ReceiveHeader
<1>3. /\ object.cmd = "DISCONNECT" => tx = DefaultMtu
      /\ object.cmd = "CONNECT" /\ code = "SUCCESS" => tx = MtuTx
      /\ object.cmd # "DISCONNECT" /\ ~(object.cmd = "CONNECT" /\ code = "SUCCESS") =>
           tx = self.mtu_tx
  BY Zenon
<1>4. self.mtu_tx \in {DefaultMtu, MtuTx} /\ self.rx_msg \in RxBuffers
  BY <1>1, SelfFields
<1>5. tx \in {DefaultMtu, MtuTx}
  BY <1>3, <1>4, Zenon
<1>6. 3 \in Nat /\ offset \in Nat
  BY <1>1, ObjectFields
<1>7. rest \in RxBuffers
  BY <1>4, <1>6, RxShortened, Zenon
<1> HIDE DEF rest, tx, code
<1>8. self' \in Selves /\ self'.mtu_tx = tx
  BY <1>1, <1>2, <1>5, <1>7, Zenon DEF SelfOK, Selves
<1>9. /\ object' \in Wanted /\ object'.cmd = object.cmd
      /\ object'.nonhdr = object.nonhdr /\ object'.txq = object.txq
  BY <1>1, <1>2, Zenon DEF ObjectOK, Wanted
<1>10. SelfOK' /\ ObjectOK' /\ DeviceOK' /\ SendOK'
  BY <1>1, <1>2, <1>8, <1>9, Zenon DEF SelfOK, ObjectOK, DeviceOK, SendOK
<1>11. SessionOK'
  BY <1>1, <1>2, SessionKept, Zenon DEF SessionOK
<1>12. CommandOK'
  BY <1>1, <1>2, <1>9, Zenon DEF CommandOK
<1>13. MtuOK'
  BY <1>1, <1>2, <1>3, <1>8, <1>9, Zenon DEF MtuOK
<1>14. FillOK' /\ PacketFits'
  BY <1>2, Zenon DEF FillOK, PacketFits
<1>15. QED
  BY <1>10, <1>11, <1>12, <1>13, <1>14 DEF ObexInv

-----------------------------------------------------------------------------
(* The answer is reported, and the device makes the next one.              *)

\* obex_request goes on, or returns: by then CONNECT has raised the transfer
\* unit, or the session has ended.
LEMMA ReportKeeps ==
  ASSUME ObexInv, RequestContinues \/ RequestReturns
  PROVE  ObexInv'
<1>1. /\ SelfOK /\ ObjectOK /\ SendOK /\ SessionOK /\ DeviceOK /\ CommandOK
      /\ MtuOK
  BY DEF ObexInv
<1>2. /\ pc = "callback" /\ self' = self /\ object' = object /\ send' = send
      /\ rsp' = rsp /\ device' = device
  BY Zenon DEF RequestContinues, RequestReturns
<1>3. SelfOK' /\ ObjectOK' /\ SendOK' /\ DeviceOK'
  BY <1>1, <1>2, Zenon DEF SelfOK, ObjectOK, SendOK, DeviceOK
<1>4. \/ pc' = "send"
      \/ pc' = "end"
      \/ pc' = "idle" /\ object.cmd # "DISCONNECT"
           /\ (object.cmd = "CONNECT" => rsp = "SUCCESS")
  BY Zenon DEF RequestContinues, RequestReturns
<1>5. SessionOK'
  <2>1. CASE RequestContinues
    BY <2>1, <1>1, Zenon DEF RequestContinues, SessionOK
  <2>2. CASE RequestReturns
    <3> DEFINE own == session.own /\ (rsp = "SUCCESS" => session.reply = session.packets)
               status == IF session.status = "broken" \/ rsp = "error" THEN "broken"
                          ELSE IF rsp = "SUCCESS" THEN "success" ELSE "refused"
    <3>1. session' = [session EXCEPT !.own = own, !.status = status]
      BY <2>2, Zenon DEF RequestReturns
    <3>2. QED
      BY <3>1, <1>1, SessionKept, Zenon DEF SessionOK
  <2>3. QED
    BY <2>1, <2>2
<1>6. CommandOK'
  BY <1>1, <1>2, Zenon DEF CommandOK
<1>7. MtuOK'
  <2>1. CASE pc' = "send"
    BY <2>1, <1>1, <1>2, Zenon DEF MtuOK
  <2>2. CASE pc' = "end"
    BY <2>2, Zenon DEF MtuOK
  <2>3. CASE pc' = "idle" /\ object.cmd # "DISCONNECT"
               /\ (object.cmd = "CONNECT" => rsp = "SUCCESS")
    <3>1. object.cmd \in {"CONNECT", "PUT", "GET", "SETPATH"}
      BY <2>3, <1>1, <1>2, Zenon DEF CommandOK
    <3>2. self.mtu_tx = MtuTx
      BY <3>1, <2>3, <1>1, <1>2, Zenon DEF MtuOK
    <3>3. QED
      BY <3>2, <2>3, <1>2, Zenon DEF MtuOK
  <2>4. QED
    BY <1>4, <2>1, <2>2, <2>3
<1>8. FillOK' /\ PacketFits'
  BY <1>4, Zenon DEF FillOK, PacketFits
<1>9. QED
  BY <1>3, <1>5, <1>6, <1>7, <1>8 DEF ObexInv

\* A step of the device, or of the bus, keeps the invariant.
LEMMA DeviceFrame ==
  ASSUME ObexInv, UNCHANGED <<self, object, send, pc, rsp>>,
         NEW v, \/ session' = [session EXCEPT !.empties = v]
                \/ session' = [session EXCEPT !.faults = v],
         DeviceOK'
  PROVE  ObexInv'
<1>1. /\ SelfOK /\ ObjectOK /\ SendOK /\ SessionOK /\ CommandOK
      /\ MtuOK /\ FillOK /\ PacketFits
  BY DEF ObexInv
<1>2. /\ self' = self /\ object' = object /\ send' = send /\ pc' = pc
      /\ rsp' = rsp
  OBVIOUS
<1>3. SessionOK' /\ session'.requests = session.requests
  BY <1>1, SessionKept, Zenon DEF SessionOK
<1>4. SelfOK' /\ ObjectOK' /\ SendOK'
  BY <1>1, <1>2, Zenon DEF SelfOK, ObjectOK, SendOK
<1>5. CommandOK' /\ PacketFits' /\ FillOK'
  BY <1>1, <1>2, Zenon DEF CommandOK, PacketFits, FillOK
<1>6. MtuOK'
  BY <1>1, <1>2, <1>3, Zenon DEF MtuOK
<1>7. QED
  BY <1>3, <1>4, <1>5, <1>6 DEF ObexInv

\* The file a packet asks for.
LEMMA FetchedCells ==
  ASSUME DeviceOK, NEW p \in Packets
  PROVE  Fetched(p) \in Seq(Cells)
<1> DEFINE name == CHOOSE c \in Named(p) : TRUE
<1>1. CASE Named(p) # {}
  <2>1. name \in Named(p)
    BY <1>1, Zenon
  <2>2. name \in ToSet(p) /\ name[1] = "name"
    BY <2>1, Zenon DEF Named
  <2>3. name \in Cells
    <3>1. PICK i \in DOMAIN p : name = p[i]
      BY <2>2, Zenon DEF ToSet
    <3>2. p \in Seq(Cells)
      BY Zenon DEF Packets
    <3>3. \A s \in Seq(Cells) : \A j \in DOMAIN s : s[j] \in Cells
      OBVIOUS
    <3>4. QED
      BY <3>1, <3>2, <3>3, Zenon
  <2>4. name[2] \in Nat /\ name[3] \in Nat
    BY <2>2, <2>3, CellKinds, Zenon
  <2>5. Fetched(p) = [i \in 1 .. name[3] |-> <<"byte", name[2], i>>]
    BY <1>1, Zenon DEF Fetched
  <2> DEFINE r == name[2]
             n == name[3]
  <2>6. r \in Nat /\ n \in Nat
    BY <2>4
  <2> HIDE DEF r, n
  <2>7. \A i \in 1 .. n : <<"byte", r, i>> \in Cells
    <3>1. (1 .. n) \subseteq Nat
      BY <2>6
    <3>2. QED
      BY <3>1, <2>6, NewCells, Zenon
  <2>8. [i \in 1 .. n |-> <<"byte", r, i>>] \in Seq(Cells)
    BY <2>6, <2>7
  <2>9. QED
    BY <2>5, <2>8, Zenon DEF r, n
<1>2. CASE Named(p) = {}
  BY <1>2, Zenon DEF Fetched, DeviceOK
<1>3. QED
  BY <1>1, <1>2

\* A response is made of cells.
LEMMA ReplyCells ==
  ASSUME NEW code \in Words, NEW id \in Nat, NEW cells \in Seq(Cells)
  PROVE  Reply(code, id, cells) \in Seq(Cells)
<1>1. <<"rsp", code, id>> \in Cells /\ <<"len">> \in Cells
  BY NewCells, Zenon
<1>2. 3 + Len(cells) \in Nat
  OBVIOUS
<1>3. <<"len", 3 + Len(cells)>> \in Cells
  BY <1>2, NewCells, Zenon
<1>4. \A a, b, c \in Cells : <<a, b, c>> \in Seq(Cells)
  OBVIOUS
<1>5. <<<<"rsp", code, id>>, <<"len", 3 + Len(cells)>>, <<"len">>>> \in Seq(Cells)
  BY <1>1, <1>3, <1>4, Zenon
<1>6. QED
  BY <1>5, ConcatProperties, Zenon DEF Reply

\* A part of a file, and what is left of it.
LEMMA PartCells ==
  ASSUME NEW out \in Seq(Cells), NEW first \in BOOLEAN
  PROVE  /\ Part(out, first) \in Seq(Cells)
         /\ Len(out) > Chunk => SubSeq(out, Chunk + 1, Len(out)) \in Seq(Cells)
<1>1. Chunk \in Nat /\ Len(out) \in Nat
  BY ObexAssumption
<1>2. "LENGTH" \in Words /\ "BODY" \in Words /\ "BODY_END" \in Words
  BY SomeWords
<1> DEFINE one == IF first THEN Uint("LENGTH", Len(out)) ELSE <<>>
           two == IF Len(out) > Chunk THEN Stream("BODY", SubSeq(out, 1, Chunk))
                  ELSE Stream("BODY_END", out)
<1>3. <<>> \in Seq(Cells)
  OBVIOUS
<1>4. one \in Seq(Cells)
  BY <1>1, <1>2, <1>3, NewHeaders, Zenon
<1>5. two \in Seq(Cells)
  <2>1. CASE Len(out) > Chunk
    <3>1. SubSeq(out, 1, Chunk) \in Seq(Cells)
      BY <2>1, <1>1, SubSeqProperties
    <3>2. Stream("BODY", SubSeq(out, 1, Chunk)) \in Seq(Cells)
      BY <3>1, <1>1, <1>2, NewHeaders, Zenon
    <3>3. QED
      BY <3>2, <2>1, Zenon
  <2>2. CASE ~(Len(out) > Chunk)
    <3>1. Stream("BODY_END", out) \in Seq(Cells)
      BY <1>1, <1>2, NewHeaders, Zenon
    <3>2. QED
      BY <3>1, <2>2, Zenon
  <2>3. QED
    BY <2>1, <2>2
<1>6. Part(out, first) = one \o two
  BY Zenon DEF Part
<1> HIDE DEF one, two
<1>7. Part(out, first) \in Seq(Cells)
  BY <1>4, <1>5, <1>6, ConcatProperties, Zenon
<1>8. ASSUME Len(out) > Chunk
      PROVE  SubSeq(out, Chunk + 1, Len(out)) \in Seq(Cells)
  <2>1. Chunk <= Len(out)
    BY <1>1, <1>8
  <2>2. QED
    BY <2>1, <1>1, CutFront, Zenon
<1>9. QED
  BY <1>7, <1>8

\* The answer to a packet is made of cells.
LEMMA ResponseCells ==
  ASSUME DeviceOK, NEW p \in Packets, NEW refuse \in BOOLEAN
  PROVE  Response(p, refuse) \in Seq(Cells)
<1> DEFINE cmd == p[2][2]
           more == \/ cmd = "PUT" /\ ~p[2][3]
                   \/ cmd = "GET" /\ Len(Fetched(p)) > Chunk
           cells == CASE cmd = "CONNECT" -> Pads(8)
                      [] cmd = "GET"     -> Part(Fetched(p), Named(p) # {})
                      [] OTHER           -> <<>>
           code == IF more THEN "CONTINUE" ELSE "SUCCESS"
<1>1. p[1][3] \in Nat
  <2>1. p[1] \in SeqCells
    BY Zenon DEF Packets
  <2>2. \A c \in SeqCells : c[3] \in Nat
    BY DEF SeqCells
  <2>3. QED
    BY <2>1, <2>2, Zenon
<1>2. <<>> \in Seq(Cells) /\ 8 \in Nat /\ (Named(p) # {}) \in BOOLEAN
  OBVIOUS
<1>3. Fetched(p) \in Seq(Cells)
  BY FetchedCells, Zenon
<1>4. Pads(8) \in Seq(Cells) /\ Part(Fetched(p), Named(p) # {}) \in Seq(Cells)
  BY <1>2, <1>3, Fillers, PartCells, Zenon
<1>5. cells \in Seq(Cells)
  <2>1. CASE cmd = "CONNECT"
    BY <2>1, <1>4, Zenon
  <2>2. CASE cmd = "GET"
    BY <2>2, <1>4, Zenon
  <2>3. CASE cmd # "CONNECT" /\ cmd # "GET"
    BY <2>3, <1>2, Zenon
  <2>4. QED
    BY <2>1, <2>2, <2>3
<1>6. {"FORBIDDEN", "CONTINUE", "SUCCESS"} \subseteq Words
  BY SomeWords
<1>7. code \in Words /\ "FORBIDDEN" \in Words
  BY <1>6, Zenon
<1>8. Response(p, refuse) = IF refuse THEN Reply("FORBIDDEN", p[1][3], <<>>)
                            ELSE Reply(code, p[1][3], cells)
  BY Zenon DEF Response
<1> HIDE DEF code, cells
<1>9. QED
  BY <1>1, <1>2, <1>5, <1>7, <1>8, ReplyCells, Zenon

\* However an answer is cut into transfers, they are made of cells.
LEMMA TransferCells ==
  ASSUME NEW s \in Seq(Cells), NEW r \in Seq(Cells), NEW t \in Transfers(s, r)
  PROVE  t.wire \in Seq(Seq(Cells))
<1>1. <<s, r>> \in Seq(Seq(Cells))
  OBVIOUS
<1>2. <<s \o r>> \in Seq(Seq(Cells))
  <2>1. s \o r \in Seq(Cells)
    BY ConcatProperties, Zenon
  <2>2. QED
    BY <2>1
<1>3. <<s, <<>>, r>> \in Seq(Seq(Cells))
  <2>1. \A e \in Seq(Cells) : <<s, e, r>> \in Seq(Seq(Cells))
    OBVIOUS
  <2>2. <<>> \in Seq(Cells)
    OBVIOUS
  <2>3. QED
    BY <2>1, <2>2, Zenon
<1>4. [i \in 1 .. SeqTries |-> <<>>] \o <<s, r>> \in Seq(Seq(Cells))
  <2> DEFINE none == <<>>
  <2>1. SeqTries \in Nat
    BY ObexAssumption
  <2>2. none \in Seq(Cells)
    OBVIOUS
  <2> HIDE DEF none
  <2>3. [i \in 1 .. SeqTries |-> none] \in Seq(Seq(Cells))
    BY <2>1, <2>2
  <2>4. QED
    BY <2>3, <1>1, ConcatProperties, Zenon DEF none
<1> DEFINE w1 == <<s, r>>
           w2 == <<s \o r>>
           w3 == <<s, <<>>, r>>
           w4 == [i \in 1 .. SeqTries |-> <<>>] \o <<s, r>>
<1>5. t \in {[wire |-> w1, empties |-> 0], [wire |-> w2, empties |-> 0],
            [wire |-> w3, empties |-> 1], [wire |-> w4, empties |-> SeqTries]}
  BY Zenon DEF Transfers
<1>6. /\ w1 \in Seq(Seq(Cells)) /\ w2 \in Seq(Seq(Cells))
      /\ w3 \in Seq(Seq(Cells)) /\ w4 \in Seq(Seq(Cells))
  BY <1>1, <1>2, <1>3, <1>4, Zenon
<1> HIDE DEF w1, w2, w3, w4
<1>7. t.wire \in {w1, w2, w3, w4}
  BY <1>5
<1>8. QED
  BY <1>6, <1>7, Zenon

\* The device answers a packet.
LEMMA AnswerKeeps ==
  ASSUME ObexInv, DeviceAnswer
  PROVE  ObexInv'
<1> DEFINE p == Head(device.inbox)
           got == (IF Named(p) # {} THEN <<>> ELSE device.got) \o Carried(p)
           left == IF Len(Fetched(p)) > Chunk
                   THEN SubSeq(Fetched(p), Chunk + 1, Len(Fetched(p))) ELSE <<>>
           got2 == IF p[2][2] = "PUT" THEN got ELSE device.got
           out2 == IF p[2][2] = "GET" THEN left ELSE device.out
           in2 == Tail(device.inbox)
<1>1. DeviceOK
  BY DEF ObexInv
<1>2. device.inbox # <<>> /\ UNCHANGED <<self, object, send, pc, rsp>>
  BY DEF DeviceAnswer
<1>3. PICK refuse \in BOOLEAN : \E t \in Transfers(<<p[1]>>, Response(p, refuse)) :
        /\ Answers(t)
        /\ device' = [device EXCEPT !.inbox = in2,
             !.wire = device.wire \o t.wire, !.got = got2, !.out = out2]
  BY Zenon DEF DeviceAnswer
<1>4. PICK t \in Transfers(<<p[1]>>, Response(p, refuse)) :
        /\ Answers(t)
        /\ device' = [device EXCEPT !.inbox = in2,
             !.wire = device.wire \o t.wire, !.got = got2, !.out = out2]
  BY <1>3, Zenon
<1>5. p \in Packets /\ in2 \in Seq(Packets)
  BY <1>1, <1>2 DEF DeviceOK
<1>6. <<p[1]>> \in Seq(Cells)
  <2>1. p[1] \in SeqCells /\ SeqCells \subseteq Cells
    BY <1>5, NewCells, Zenon DEF Packets
  <2>2. \A c \in Cells : <<c>> \in Seq(Cells)
    OBVIOUS
  <2>3. QED
    BY <2>1, <2>2, Zenon
<1>7. t.wire \in Seq(Seq(Cells))
  BY <1>1, <1>4, <1>5, <1>6, ResponseCells, TransferCells, Zenon
<1>8. out2 \in Seq(Cells)
  <2>1. Fetched(p) \in Seq(Cells) /\ <<>> \in Seq(Cells)
    BY <1>1, <1>5, FetchedCells, EmptySeq, Zenon
  <2>2. Len(Fetched(p)) > Chunk =>
          SubSeq(Fetched(p), Chunk + 1, Len(Fetched(p))) \in Seq(Cells)
    BY <2>1, PartCells, Zenon
  <2>3. left \in Seq(Cells)
    BY <2>1, <2>2, Zenon
  <2>4. QED
    BY <2>3, <1>1, Zenon DEF DeviceOK
<1> HIDE DEF got2, out2, in2
<1> DEFINE wire2 == device.wire \o t.wire
<1>9. wire2 \in Seq(Seq(Cells))
  BY <1>1, <1>7, ConcatProperties, Zenon DEF DeviceOK
<1>10. device' = [device EXCEPT !.inbox = in2, !.wire = wire2, !.got = got2,
                                !.out = out2]
  BY <1>4, Zenon
<1> HIDE DEF wire2
<1>11. /\ DOMAIN device' = DOMAIN device
       /\ device'.inbox = in2 /\ device'.wire = wire2 /\ device'.out = out2
  BY <1>1, <1>10, Zenon DEF DeviceOK
<1>12. DeviceOK'
  BY <1>1, <1>5, <1>8, <1>9, <1>11, Zenon DEF DeviceOK
<1>13. session' = [session EXCEPT !.empties = session.empties + t.empties]
  BY <1>4, Zenon DEF Answers
<1>14. QED
  BY <1>2, <1>12, <1>13, DeviceFrame, Zenon

\* The device is unplugged.
LEMMA UnplugKeeps ==
  ASSUME ObexInv, Unplug
  PROVE  ObexInv'
<1> DEFINE none == <<>>
<1>1. DeviceOK
  BY DEF ObexInv
<1>2. /\ UNCHANGED <<self, object, send, pc, rsp>>
      /\ session' = [session EXCEPT !.faults = session.faults + 1]
      /\ device' = [device EXCEPT !.gone = TRUE, !.inbox = none, !.wire = none]
  BY Zenon DEF Unplug
<1>3. none \in Seq(Packets) /\ none \in Seq(Seq(Cells))
  OBVIOUS
<1> HIDE DEF none
<1>4. /\ DOMAIN device' = DOMAIN device
      /\ device'.inbox = none /\ device'.wire = none /\ device'.out = device.out
  BY <1>1, <1>2, Zenon DEF DeviceOK
<1>5. DeviceOK'
  BY <1>1, <1>3, <1>4, Zenon DEF DeviceOK
<1>6. QED
  BY <1>2, <1>5, DeviceFrame, Zenon

-----------------------------------------------------------------------------
(* The theorems.                                                           *)

\* Before the first request the invariant holds.
LEMMA ObexStarts ==
  ASSUME Init
  PROVE  ObexInv /\ CleanInv
<1> DEFINE rx == buf_new(DefaultMtu)
           tx == buf_new(MaxMtu)
           none == <<>>
<1>1. /\ self = [mtu_tx |-> DefaultMtu, mtu_rx |-> DefaultMtu, seq_num |-> 0,
                 rx_msg |-> rx, tx_msg |-> tx]
      /\ send = [tx_left |-> 0, addmore |-> FALSE, finished |-> FALSE, seq |-> 0]
      /\ object = NoObject /\ pc = "idle"
  BY Zenon DEF Init
<1>2. DefaultMtu \in Nat /\ MaxMtu \in Nat
  BY ObexAssumption
<1>3. /\ GoodBuffer(rx, Cells) /\ GoodBuffer(tx, Cells)
      /\ rx.data = <<>> /\ rx.block = DefaultMtu /\ rx.head = 0
  BY <1>2, NewBuffer
<1> HIDE DEF rx, tx
<1>4. rx \in RxBuffers /\ tx \in SoundBuffers
  <2>1. rx.block <= rx.head + Len(rx.data) + DefaultMtu
    BY <1>2, <1>3
  <2>2. QED
    BY <1>3, <2>1, Zenon DEF GoodBuffer, RxBuffers, SoundBuffers
<1>5. SelfOK
  <2>1. 0 \in Int
    OBVIOUS
  <2>2. QED
    BY <1>1, <1>4, <2>1, Zenon DEF SelfOK, Selves
<1>6. SendOK
  BY <1>1 DEF SendOK
<1>7. ObjectOK
  <2>1. /\ none \in Queues /\ none \in Seq(SoundBuffers) /\ none \in Seq(Cells)
    BY DEF Queues
  <2>2. 0 \in 0 .. 7 /\ 0 \in Nat /\ 0 \in {0}
    OBVIOUS
  <2>3. "NONE" \in Words /\ "none" \in Words
    BY SomeWords
  <2>4. object = [cmd |-> "NONE", name |-> "none", nonhdr |-> 0, txq |-> none,
                  offset |-> 0, hinted |-> 0, rx_body |-> none, body |-> none,
                  seen |-> {}]
    BY <1>1, Zenon DEF NoObject
  <2> HIDE DEF none
  <2>5. QED
    BY <2>1, <2>2, <2>3, <2>4, Zenon DEF ObjectOK, Wanted
<1>8. /\ {"requests", "packets", "status"} \subseteq DOMAIN session
      /\ session.requests = 0 /\ session.packets = 0
  BY Zenon DEF Init
<1>9. SessionOK
  BY <1>8 DEF SessionOK
<1>10. DeviceOK
  <2>1. /\ none \in Seq(Packets) /\ none \in Seq(Seq(Cells)) /\ none \in Seq(Cells)
    OBVIOUS
  <2>2. device = [inbox |-> none, got |-> none, out |-> none, wire |-> none,
                  gone |-> FALSE]
    BY Zenon DEF Init
  <2> HIDE DEF none
  <2>3. QED
    BY <2>1, <2>2, Zenon DEF DeviceOK
<1>11. object.nonhdr = 0 /\ object.txq = <<>> /\ object.cmd = "NONE"
  BY <1>1, Zenon DEF NoObject
<1>12. CommandOK
  BY <1>1, <1>11, Zenon DEF CommandOK
<1>13. MtuOK
  <2>1. ~(session.requests > 0)
    BY <1>8
  <2>2. QED
    BY <1>1, <2>1, Zenon DEF MtuOK
<1>14. FillOK /\ PacketFits
  BY <1>1, Zenon DEF FillOK, PacketFits
<1>15. CleanInv
  <2>1. self.rx_msg = rx
    BY <1>1, Zenon
  <2>2. QED
    BY <1>1, <1>3, <2>1, Zenon DEF CleanInv
<1>16. QED
  BY <1>5, <1>6, <1>7, <1>9, <1>10, <1>12, <1>13, <1>14, <1>15 DEF ObexInv

\* Every step keeps the invariant.
LEMMA ObexSteps ==
  ASSUME ObexInv, [Next]_vars
  PROVE  ObexInv'
<1>1. CASE Request
  BY <1>1, RequestKeeps
<1>2. CASE obex_object_send
  BY <1>2, SendBeginKeeps, FragmentKeeps, BodyEndKeeps, HeaderKeeps,
     SendPacketKeeps DEF obex_object_send
<1>3. CASE obex_verify_seq
  BY <1>3, ReadingKeeps
<1>4. CASE obex_object_receive
  BY <1>4, ReadingKeeps, ReceiveHeaderKeeps, ParseBodyKeeps, ParseKeeps
     DEF obex_object_receive
<1>5. CASE RequestContinues \/ RequestReturns
  BY <1>5, ReportKeeps
<1>6. CASE DeviceAnswer
  BY <1>6, AnswerKeeps
<1>7. CASE Unplug
  BY <1>7, UnplugKeeps
<1>8. CASE UNCHANGED vars
  <2>1. /\ self' = self /\ object' = object /\ send' = send /\ pc' = pc
        /\ rsp' = rsp /\ device' = device /\ session' = session
    BY <1>8 DEF vars
  <2>2. QED
    BY <2>1, ZenonT(60) DEF ObexInv, SelfOK, ObjectOK, SendOK, SessionOK, DeviceOK,
                       CommandOK, MtuOK, FillOK, PacketFits
<1>9. QED
  BY <1>1, <1>2, <1>3, <1>4, <1>5, <1>6, <1>7, <1>8
     DEF Next, obex_request, Ended

\* The state of obex.c is well formed at every moment: the numbers a packet
\* or an answer is cut by are the ones the code takes them for, the transfer
\* unit is the one the exchange has agreed on, and while a packet is filled
\* what is left of it is enough for what must still go in.
THEOREM ObexInductive == Spec => []ObexInv
<1>1. Init => ObexInv
  BY ObexStarts
<1>2. ObexInv /\ [Next]_vars => ObexInv'
  BY ObexSteps
<1>3. QED
  BY <1>1, <1>2, PTL DEF Spec

\* BufferSound: no reservation of obex_bulk_read, obex_verify_seq or
\* obex_object_send runs past its block, and rx_msg never grows by more than
\* one transfer beyond what it has received.
THEOREM BuffersAlwaysSound == Spec => []BufferSound
<1>1. ASSUME ObexInv
      PROVE  BufferSound
  <2>1. SelfOK /\ ObjectOK
    BY <1>1 DEF ObexInv
  <2>2. self.rx_msg \in RxBuffers /\ self.tx_msg \in SoundBuffers
    BY <2>1, SelfFields
  <2>3. object.rx_body \in Seq(SoundBuffers)
    BY <2>1, ObjectFields
  <2>4. \A i \in DOMAIN object.rx_body : object.rx_body[i] \in SoundBuffers
    BY <2>3
  <2>5. QED
    BY <2>2, <2>4, Zenon DEF BufferSound, RxBuffers, SoundBuffers
<1>2. QED
  BY <1>1, ObexInductive, PTL

\* PacketFits: a packet handed to libusb never exceeds the transfer unit in
\* force, although send_body does not count the three bytes of a last header.
THEOREM PacketsAlwaysFit == Spec => []PacketFits
<1>1. ObexInv => PacketFits
  BY DEF ObexInv
<1>2. QED
  BY <1>1, ObexInductive, PTL

\* obex_request fails: the session is broken from then on.
LEMMA FailBreaks ==
  ASSUME SessionOK, NEW n, Fail(n)
  PROVE  session'.status = "broken" /\ pc' \in {"idle", "end"}
<1>1. session' = [session EXCEPT !.status = "broken",
                                 !.faults = session.faults + n]
  BY Zenon DEF Fail
<1>2. "status" \in DOMAIN session
  BY DEF SessionOK
<1>3. QED
  BY <1>1, <1>2, Zenon DEF Fail

\* A request starts: rx_msg is left alone, and a broken session stays so.
LEMMA StartClean ==
  ASSUME SessionOK, CleanInv, NEW cmd, NEW name, NEW bytes,
         StartRequest(cmd, name, bytes)
  PROVE  CleanInv'
<1>1. /\ pc = "idle" /\ pc' = "send" /\ self' = self
      /\ session' = [session EXCEPT !.requests = session.requests + 1,
           !.status = IF session.status = "broken" THEN session.status ELSE "busy"]
  BY Zenon DEF StartRequest, Ready
<1>2. "status" \in DOMAIN session
  BY DEF SessionOK
<1>3. session'.status # "broken" => session.status # "broken"
  BY <1>1, <1>2, Zenon
<1>4. QED
  BY <1>1, <1>3, Zenon DEF CleanInv

\* Filling a packet leaves rx_msg alone.
LEMMA FillClean ==
  ASSUME ObexInv, CleanInv, obex_object_send
  PROVE  CleanInv'
<1>1. SelfOK /\ SessionOK
  BY DEF ObexInv
<1>2. "rx_msg" \in DOMAIN self
  BY <1>1 DEF SelfOK, Selves
<1>3. CASE SendPacket
  <2>1. pc' = "verify" \/ Fail(0)
    BY <1>3, Zenon DEF SendPacket
  <2>2. CASE pc' = "verify"
    BY <2>2, Zenon DEF CleanInv
  <2>3. CASE Fail(0)
    BY <2>3, <1>1, FailBreaks, Zenon DEF CleanInv
  <2>4. QED
    BY <2>1, <2>2, <2>3
<1>4. ASSUME NEW t, self' = [self EXCEPT !.tx_msg = t], session' = session,
             pc \in {"send", "fill"}, pc' = "fill"
      PROVE  CleanInv'
  <2>1. self'.rx_msg = self.rx_msg
    BY <1>4, <1>1, Zenon DEF SelfOK, Selves
  <2>2. QED
    BY <2>1, <1>4, Zenon DEF CleanInv
<1>5. CASE SendBegin
  BY <1>5, <1>4, Zenon DEF SendBegin
<1>6. ASSUME NEW cells, NEW left, NEW q, Filling, Put(cells, left, q)
      PROVE  CleanInv'
  BY <1>6, <1>4, Zenon DEF Filling, Put
<1>7. CASE SendFragment
  BY <1>7, <1>6, Zenon DEF SendFragment
<1>8. CASE SendBodyEnd
  BY <1>8, <1>6, Zenon DEF SendBodyEnd
<1>9. CASE SendHeader
  BY <1>9, <1>6, Zenon DEF SendHeader
<1>10. QED
  BY <1>3, <1>5, <1>7, <1>8, <1>9 DEF obex_object_send

\* An answer is reported only when all of it has been taken out of rx_msg, or
\* as an error.
LEMMA ReceiveClean ==
  ASSUME ObexInv, CleanInv, obex_verify_seq \/ obex_object_receive
  PROVE  CleanInv'
<1>1. SessionOK
  BY DEF ObexInv
<1>2. CASE obex_verify_seq
  <2>1. pc' \in {"verify", "read"} \/ \E n \in {0, Late} : Fail(n)
    BY <1>2, Zenon DEF obex_verify_seq, SeqEmpty, SeqMatches, SeqMismatch,
                       SeqTimeout
  <2>2. CASE pc' \in {"verify", "read"}
    BY <2>2, Zenon DEF CleanInv
  <2>3. CASE \E n \in {0, Late} : Fail(n)
    BY <2>3, <1>1, FailBreaks, Zenon DEF CleanInv
  <2>4. QED
    BY <2>1, <2>2, <2>3
<1>3. CASE ParseDone
  BY <1>3, Zenon DEF ParseDone, CleanInv
<1>4. CASE ReadTimeout
  BY <1>4, Zenon DEF ReadTimeout, CleanInv
<1>5. CASE obex_bulk_read \/ ReceiveHeader \/ ParseBody \/ ParseHeader
  <2>1. pc' \in {"read", "parse"}
    BY <1>5, Zenon DEF obex_bulk_read, ReceiveHeader, ParseBody, ParseHeader,
                       Parsing
  <2>2. QED
    BY <2>1, Zenon DEF CleanInv
<1>6. QED
  BY <1>2, <1>3, <1>4, <1>5 DEF obex_object_receive

\* obex_request goes on or returns with an empty rx_msg, or with an error.
LEMMA ReportClean ==
  ASSUME ObexInv, CleanInv, RequestContinues \/ RequestReturns
  PROVE  CleanInv'
<1>1. SessionOK
  BY DEF ObexInv
<1>2. CASE RequestContinues
  BY <1>2, Zenon DEF RequestContinues, CleanInv
<1>3. CASE RequestReturns
  <2> DEFINE own == session.own /\ (rsp = "SUCCESS" => session.reply = session.packets)
             status == IF session.status = "broken" \/ rsp = "error" THEN "broken"
                        ELSE IF rsp = "SUCCESS" THEN "success" ELSE "refused"
  <2>1. /\ session' = [session EXCEPT !.own = own, !.status = status]
        /\ self' = self /\ pc = "callback" /\ pc' \in {"idle", "end"}
    BY <1>3, Zenon DEF RequestReturns
  <2>2. rsp = "error" => status = "broken"
    BY Zenon
  <2> HIDE DEF own, status
  <2>3. session'.status = status
    BY <2>1, <1>1, Zenon DEF SessionOK
  <2>4. QED
    BY <2>1, <2>2, <2>3, Zenon DEF CleanInv
<1>4. QED
  BY <1>2, <1>3

\* CleanBetweenRequests: until a request has failed, every request starts
\* with an empty rx_msg, whatever the device put in its answers.
THEOREM AlwaysCleanBetweenRequests == Spec => []CleanBetweenRequests
<1>1. Init => CleanInv
  BY ObexStarts
<1>2. ASSUME ObexInv, CleanInv, [Next]_vars
      PROVE  CleanInv'
  <2>1. SessionOK
    BY <1>2 DEF ObexInv
  <2>2. CASE Request
    BY <2>1, <2>2, <1>2, StartClean, Zenon
       DEF Request, exword_connect, exword_send_file, exword_get_file,
           exword_setpath, exword_disconnect
  <2>3. CASE obex_request
    BY <2>3, <1>2, FillClean, ReceiveClean, ReportClean DEF obex_request
  <2>4. ASSUME self' = self, pc' = pc, rsp' = rsp, session'.status = session.status
        PROVE  CleanInv'
    BY <2>4, <1>2, Zenon DEF CleanInv
  <2>5. ASSUME NEW v, \/ session' = [session EXCEPT !.empties = v]
                      \/ session' = [session EXCEPT !.faults = v]
        PROVE  session'.status = session.status
    BY <2>5, <2>1, Zenon DEF SessionOK
  <2>6. CASE DeviceAnswer
    BY <2>6, <2>4, <2>5, Zenon DEF DeviceAnswer, Answers
  <2>7. CASE Unplug
    BY <2>7, <2>4, <2>5, Zenon DEF Unplug
  <2>8. CASE UNCHANGED vars
    <3>1. self' = self /\ pc' = pc /\ rsp' = rsp /\ session' = session
      BY <2>8 DEF vars
    <3>2. QED
      BY <3>1, <2>4, Zenon
  <2>9. QED
    BY <1>2, <2>2, <2>3, <2>6, <2>7, <2>8 DEF Next, Ended
<1>3. CleanInv => CleanBetweenRequests
  BY DEF CleanInv, CleanBetweenRequests
<1>4. QED
  BY <1>1, <1>2, <1>3, ObexInductive, PTL DEF Spec

=============================================================================
