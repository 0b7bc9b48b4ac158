------------------------- MODULE ObexTransferProofs -------------------------
(* Proofs about whole transfers of the packet layer (Obex): as long as no  *)
(* request has ended with an error, what is left to send, what is under    *)
(* way, what has arrived and what the callback has reported are stretches  *)
(* of one file; obex_request implements FileTransfer; and a late answer is *)
(* not taken for the answer to a later packet.                             *)
EXTENDS ObexProofs

-----------------------------------------------------------------------------
(* Stretches of a file, and the packets that carry them.                   *)

\* Bytes a + 1 to b of the file of request r.
Cut(r, a, b) == [i \in 1 .. (b - a) |-> <<"byte", r, a + i>>]

\* What a stretch of a file is made of.
LEMMA CutIs ==
  ASSUME NEW r \in Nat, NEW a \in Nat, NEW b \in Nat, a <= b
  PROVE  /\ Cut(r, a, b) \in Seq(Cells) /\ Len(Cut(r, a, b)) = b - a
         /\ DOMAIN Cut(r, a, b) = 1 .. (b - a)
         /\ \A i \in 1 .. (b - a) : Cut(r, a, b)[i] = <<"byte", r, a + i>>
<1> DEFINE n == b - a
           e(i) == <<"byte", r, a + i>>
<1>1. n \in Nat
  OBVIOUS
<1>2. ASSUME NEW i \in 1 .. n PROVE e(i) \in Cells
  <2>1. a + i \in Nat
    OBVIOUS
  <2>2. QED
    BY <2>1, NewCells, Zenon
<1>3. Cut(r, a, b) = [i \in 1 .. n |-> e(i)]
  BY Zenon DEF Cut
<1> HIDE DEF n, e
<1>4. [i \in 1 .. n |-> e(i)] \in Seq(Cells) /\ Len([i \in 1 .. n |-> e(i)]) = n
  BY <1>1, <1>2
<1>5. /\ DOMAIN [i \in 1 .. n |-> e(i)] = 1 .. n
      /\ \A i \in 1 .. n : [j \in 1 .. n |-> e(j)][i] = e(i)
  BY Zenon
<1>6. QED
  BY <1>3, <1>4, <1>5, Zenon DEF n, e

\* Two stretches of a file that meet make one.
LEMMA CutJoin ==
  ASSUME NEW r \in Nat, NEW a \in Nat, NEW b \in Nat, NEW c \in Nat, a <= b, b <= c
  PROVE  Cut(r, a, b) \o Cut(r, b, c) = Cut(r, a, c)
<1> DEFINE s == Cut(r, a, b)
           t == Cut(r, b, c)
           u == Cut(r, a, c)
<1>1. /\ s \in Seq(Cells) /\ Len(s) = b - a
      /\ \A i \in 1 .. (b - a) : s[i] = <<"byte", r, a + i>>
  BY CutIs
<1>2. /\ t \in Seq(Cells) /\ Len(t) = c - b
      /\ \A i \in 1 .. (c - b) : t[i] = <<"byte", r, b + i>>
  BY CutIs
<1>3. a <= c
  OBVIOUS
<1>4. /\ u \in Seq(Cells) /\ Len(u) = c - a
      /\ \A i \in 1 .. (c - a) : u[i] = <<"byte", r, a + i>>
  BY <1>3, CutIs
<1> HIDE DEF s, t, u
<1>5. /\ s \o t \in Seq(Cells) /\ Len(s \o t) = Len(s) + Len(t)
      /\ \A i \in 1 .. Len(s) + Len(t) :
           (s \o t)[i] = IF i <= Len(s) THEN s[i] ELSE t[i - Len(s)]
  BY <1>1, <1>2, ConcatProperties, Zenon
<1>6. Len(s \o t) = Len(u)
  BY <1>1, <1>2, <1>4, <1>5
<1>7. ASSUME NEW i \in 1 .. Len(s \o t)
      PROVE  (s \o t)[i] = u[i]
  <2>1. i \in 1 .. (c - a) /\ i \in 1 .. Len(s) + Len(t)
    BY <1>1, <1>2, <1>5
  <2>2. CASE i <= b - a
    <3>1. (s \o t)[i] = s[i] /\ i \in 1 .. (b - a)
      BY <2>1, <2>2, <1>1, <1>5
    <3>2. QED
      BY <3>1, <2>1, <1>1, <1>4, Zenon
  <2>3. CASE ~(i <= b - a)
    <3>1. i - (b - a) \in 1 .. (c - b) /\ b + (i - (b - a)) = a + i
      BY <2>1, <2>3
    <3>2. (s \o t)[i] = t[i - Len(s)] /\ i - Len(s) = i - (b - a)
      BY <2>1, <2>3, <1>1, <1>5
    <3>3. t[i - (b - a)] = <<"byte", r, b + (i - (b - a))>>
      BY <3>1, <1>2, Zenon
    <3>4. u[i] = <<"byte", r, a + i>>
      BY <2>1, <1>4, Zenon
    <3>5. QED
      BY <3>1, <3>2, <3>3, <3>4, Zenon
  <2>4. QED
    BY <2>2, <2>3
<1>8. s \o t = u
  BY <1>4, <1>5, <1>6, <1>7, SeqEqual
<1>9. QED
  BY <1>8 DEF s, t, u

\* The first k bytes of a stretch, and the rest of it.
CutAt(r, a, b, k) ==
  /\ SubSeq(Cut(r, a, b), 1, k) = Cut(r, a, a + k)
  /\ SubSeq(Cut(r, a, b), k + 1, b - a) = Cut(r, a + k, b)

\* Both are stretches of the same file.
LEMMA CutSplit ==
  ASSUME NEW r \in Nat, NEW a \in Nat, NEW b \in Nat, NEW k \in Nat, a <= b, k <= b - a
  PROVE  CutAt(r, a, b, k)
<1> DEFINE s == Cut(r, a, b)
           m == a + k
           x == SubSeq(s, 1, k)
           y == SubSeq(s, k + 1, b - a)
           t == Cut(r, a, m)
           u == Cut(r, m, b)
<1>1. m \in Nat /\ a <= m /\ m <= b /\ m - a = k /\ b - m = (b - a) - k
  OBVIOUS
<1>2. /\ s \in Seq(Cells) /\ Len(s) = b - a
      /\ \A i \in 1 .. (b - a) : s[i] = <<"byte", r, a + i>>
  BY CutIs
<1>3. /\ t \in Seq(Cells) /\ Len(t) = m - a
      /\ \A i \in 1 .. (m - a) : t[i] = <<"byte", r, a + i>>
  BY <1>1, CutIs, ZenonT(60)
<1>4. /\ u \in Seq(Cells) /\ Len(u) = b - m
      /\ \A i \in 1 .. (b - m) : u[i] = <<"byte", r, m + i>>
  BY <1>1, CutIs, ZenonT(60)
<1> HIDE DEF s, t, u
<1>5. \A i \in 1 .. k : s[i] \in Cells
  BY <1>2
<1>6. \A i \in (k + 1) .. (b - a) : s[i] \in Cells
  BY <1>2
<1>7. /\ x \in Seq(Cells) /\ Len(x) = k
      /\ \A i \in 1 .. k : x[i] = s[i]
  BY <1>5, SubSeqProperties
<1>8. /\ y \in Seq(Cells) /\ Len(y) = (b - a) - k
      /\ \A i \in 1 .. (b - a) - k : y[i] = s[k + i]
  BY <1>6, SubSeqProperties
<1> HIDE DEF x, y
<1>9. x = t
  <2>1. Len(x) = Len(t)
    BY <1>1, <1>3, <1>7
  <2>2. ASSUME NEW i \in 1 .. Len(x)
        PROVE  x[i] = t[i]
    <3>1. i \in 1 .. k /\ i \in 1 .. (m - a) /\ i \in 1 .. (b - a)
      BY <1>1, <1>7
    <3>2. QED
      BY <3>1, <1>2, <1>3, <1>7, Zenon
  <2>3. QED
    BY <2>1, <2>2, <1>3, <1>7, SeqEqual
<1>10. y = u
  <2>1. Len(y) = Len(u)
    BY <1>1, <1>4, <1>8
  <2>2. ASSUME NEW i \in 1 .. Len(y)
        PROVE  y[i] = u[i]
    <3>1. i \in 1 .. (b - a) - k /\ i \in 1 .. (b - m) /\ k + i \in 1 .. (b - a)
          /\ a + (k + i) = m + i
      BY <1>8, <1>1
    <3>2. y[i] = s[k + i] /\ s[k + i] = <<"byte", r, a + (k + i)>>
      BY <3>1, <1>2, <1>8, Zenon
    <3>3. u[i] = <<"byte", r, m + i>>
      BY <3>1, <1>4, Zenon
    <3>4. QED
      BY <3>1, <3>2, <3>3, Zenon
  <2>3. QED
    BY <2>1, <2>2, <1>4, <1>8, SeqEqual
<1>11. QED
  BY <1>9, <1>10, Zenon DEF CutAt, s, t, u, x, y, m

\* An empty stretch, and the length that tells stretches apart.
LEMMA CutEmpty ==
  ASSUME NEW r \in Nat, NEW a \in Nat
  PROVE  Cut(r, a, a) = <<>>
<1>1. Cut(r, a, a) \in Seq(Cells) /\ Len(Cut(r, a, a)) = 0
  BY CutIs
<1>2. QED
  BY <1>1, EmptySeq

\* The cells of two sequences one behind the other.
LEMMA ConcatAt ==
  ASSUME NEW S, NEW x \in Seq(S), NEW y \in Seq(S)
  PROVE  /\ x \o y \in Seq(S) /\ Len(x \o y) = Len(x) + Len(y)
         /\ Len(x) \in Nat /\ Len(y) \in Nat
         /\ \A i \in 1 .. Len(x) : (x \o y)[i] = x[i]
         /\ \A i \in 1 .. Len(y) : (x \o y)[Len(x) + i] = y[i]
<1> DEFINE z == x \o y
           a == Len(x)
           b == Len(y)
<1>0. a \in Nat /\ b \in Nat
  BY LenProperties
<1>1. /\ z \in Seq(S) /\ Len(z) = a + b
      /\ \A i \in 1 .. a + b : z[i] = IF i <= a THEN x[i] ELSE y[i - a]
  BY ConcatProperties, Zenon
<1> HIDE DEF z, a, b
<1>2. ASSUME NEW i \in 1 .. a PROVE z[i] = x[i]
  BY <1>0, <1>1
<1>3. ASSUME NEW i \in 1 .. b PROVE z[a + i] = y[i]
  <2>1. a + i \in 1 .. a + b /\ ~(a + i <= a) /\ (a + i) - a = i
    BY <1>0
  <2>2. z[a + i] = y[(a + i) - a]
    BY <2>1, <1>1, Zenon
  <2>3. QED
    BY <2>1, <2>2, Zenon
<1>4. QED
  BY <1>0, <1>1, <1>2, <1>3, Zenon DEF z, a, b

\* What comes behind the front of a sequence, and the front itself.
LEMMA DropFront ==
  ASSUME NEW S, NEW x \in Seq(S), NEW y \in Seq(S)
  PROVE  /\ SubSeq(x \o y, Len(x) + 1, Len(x) + Len(y)) = y
         /\ SubSeq(x \o y, Len(x) + 1, Len(x \o y)) = y
         /\ SubSeq(x \o y, 1, Len(x)) = x
<1> DEFINE z == x \o y
           u == SubSeq(z, Len(x) + 1, Len(x) + Len(y))
           v == SubSeq(z, 1, Len(x))
<1>0. Len(x) \in Nat /\ Len(y) \in Nat
  BY LenProperties
<1>1. /\ z \in Seq(S) /\ Len(z) = Len(x) + Len(y)
      /\ \A i \in 1 .. Len(x) : z[i] = x[i]
      /\ \A i \in 1 .. Len(y) : z[Len(x) + i] = y[i]
  BY ConcatAt
<1> HIDE DEF z
<1>2. \A i \in 1 .. Len(z) : z[i] \in S
  BY <1>1, ElementOfSeq, Zenon
<1>3. /\ \A i \in Len(x) + 1 .. Len(x) + Len(y) : z[i] \in S
      /\ \A i \in 1 .. Len(x) : z[i] \in S
  BY <1>0, <1>1, <1>2
<1>4. /\ u \in Seq(S)
      /\ Len(u) = Len(y)
      /\ \A i \in 1 .. Len(y) : u[i] = z[Len(x) + i]
  <2> DEFINE m == Len(x) + 1
             n == Len(x) + Len(y)
  <2>1. m \in Int /\ n \in Int /\ \A i \in m .. n : z[i] \in S
    BY <1>0, <1>3
  <2>2. /\ SubSeq(z, m, n) \in Seq(S)
        /\ Len(SubSeq(z, m, n)) = IF m <= n THEN n - m + 1 ELSE 0
        /\ \A i \in 1 .. n - m + 1 : SubSeq(z, m, n)[i] = z[m + i - 1]
    <3> HIDE DEF m, n
    <3>1. QED
      BY <2>1, SubSeqProperties
  <2>3. n - m + 1 = Len(y) /\ (IF m <= n THEN n - m + 1 ELSE 0) = Len(y)
    BY <1>0
  <2>4. \A i \in 1 .. Len(y) : m + i - 1 = Len(x) + i
    BY <1>0
  <2>5. QED
    BY <2>2, <2>3, <2>4, Zenon
<1>5. /\ v \in Seq(S)
      /\ Len(v) = Len(x)
      /\ \A i \in 1 .. Len(x) : v[i] = z[i]
  BY <1>0, <1>3, SubSeqProperties
<1> HIDE DEF u, v
<1>6. u = y
  <2>1. \A i \in 1 .. Len(u) : u[i] = y[i]
    BY <1>1, <1>4, Zenon
  <2>2. QED
    BY <2>1, <1>4, SeqEqual, Zenon
<1>7. v = x
  <2>1. \A i \in 1 .. Len(v) : v[i] = x[i]
    BY <1>1, <1>5, Zenon
  <2>2. QED
    BY <2>1, <1>5, SeqEqual, Zenon
<1>8. QED
  BY <1>1, <1>6, <1>7, Zenon DEF u, v, z

\* The cells of a header: the header itself, two bytes of length, the bytes.
LEMMA StreamIs ==
  ASSUME NEW hi \in Words, NEW bytes \in Seq(Cells)
  PROVE  /\ Stream(hi, bytes) \in Seq(Cells) /\ Len(Stream(hi, bytes)) = 3 + Len(bytes)
         /\ Stream(hi, bytes)[1] = <<"hdr", hi, 3 + Len(bytes), 0>>
         /\ Stream(hi, bytes)[2] = <<"pad">> /\ Stream(hi, bytes)[3] = <<"pad">>
         /\ \A i \in 1 .. Len(bytes) : Stream(hi, bytes)[3 + i] = bytes[i]
         /\ \E front \in Seq(Cells) : Len(front) = 3 /\ Stream(hi, bytes) = front \o bytes
<1> DEFINE h == <<"hdr", hi, 3 + Len(bytes), 0>>
           front == <<h>> \o Pads(2)
<1>0. Len(bytes) \in Nat
  BY LenProperties
<1>1. h \in Cells
  BY <1>0, NewCells
<1>2. /\ Pads(2) \in Seq(Cells) /\ Len(Pads(2)) = 2
      /\ Pads(2)[1] = <<"pad">> /\ Pads(2)[2] = <<"pad">>
  BY Fillers DEF Pads
<1> HIDE DEF h
<1>3. /\ front \in Seq(Cells) /\ Len(front) = 3
      /\ front[1] = h /\ front[2] = <<"pad">> /\ front[3] = <<"pad">>
  <2>1. <<h>> \in Seq(Cells) /\ Len(<<h>>) = 1 /\ <<h>>[1] = h
    BY <1>1
  <2> DEFINE one == <<h>>
             two == Pads(2)
  <2>2. front = one \o two /\ one \in Seq(Cells) /\ two \in Seq(Cells)
    BY <2>1, <1>2, Zenon
  <2> HIDE DEF front, one, two
  <2>3. /\ front \in Seq(Cells) /\ Len(front) = Len(one) + Len(two)
        /\ \A i \in 1 .. Len(one) : front[i] = one[i]
        /\ \A i \in 1 .. Len(two) : front[Len(one) + i] = two[i]
    BY <2>2, ConcatAt
  <2>4. Len(one) = 1 /\ one[1] = h /\ Len(two) = 2
        /\ two[1] = <<"pad">> /\ two[2] = <<"pad">>
    BY <2>1, <1>2, Zenon DEF one, two
  <2>5. QED
    BY <2>3, <2>4
<1>4. Stream(hi, bytes) = front \o bytes
  BY Zenon DEF Stream, h
<1> HIDE DEF front
<1>5a. /\ front \o bytes \in Seq(Cells) /\ Len(front \o bytes) = Len(front) + Len(bytes)
       /\ \A i \in 1 .. Len(front) : (front \o bytes)[i] = front[i]
       /\ \A i \in 1 .. Len(bytes) : (front \o bytes)[Len(front) + i] = bytes[i]
  <2>1. front \in Seq(Cells)
    BY <1>3
  <2>2. QED
    BY <2>1, ConcatAt
<1>5. /\ front \o bytes \in Seq(Cells) /\ Len(front \o bytes) = 3 + Len(bytes)
      /\ \A i \in 1 .. 3 : (front \o bytes)[i] = front[i]
      /\ \A i \in 1 .. Len(bytes) : (front \o bytes)[3 + i] = bytes[i]
  BY <1>3, <1>5a, Zenon
<1>6. /\ (front \o bytes)[1] = h /\ (front \o bytes)[2] = <<"pad">>
      /\ (front \o bytes)[3] = <<"pad">>
      /\ \A i \in 1 .. Len(bytes) : (front \o bytes)[3 + i] = bytes[i]
  BY <1>3, <1>5
<1>7. QED
  BY <1>3, <1>4, <1>5, <1>6, Zenon DEF h

\* The cells of a 32-bit header.
LEMMA UintIs ==
  ASSUME NEW hi \in Words, NEW v \in Nat
  PROVE  /\ Uint(hi, v) \in Seq(Cells) /\ Len(Uint(hi, v)) = 5
         /\ Uint(hi, v)[1] = <<"hdr", hi, 5, v>>
         /\ \A i \in 2 .. 5 : Uint(hi, v)[i] = <<"pad">>
<1> DEFINE h == <<"hdr", hi, 5, v>>
<1>1. h \in Cells
  BY NewCells
<1>2. /\ Pads(4) \in Seq(Cells) /\ Len(Pads(4)) = 4
      /\ \A i \in 1 .. 4 : Pads(4)[i] = <<"pad">>
  BY Fillers DEF Pads
<1>3. Uint(hi, v) = <<h>> \o Pads(4)
  BY Zenon DEF Uint
<1> HIDE DEF h
<1>4. <<h>> \in Seq(Cells) /\ Len(<<h>>) = 1 /\ <<h>>[1] = h
  BY <1>1
<1>5. /\ <<h>> \o Pads(4) \in Seq(Cells) /\ Len(<<h>> \o Pads(4)) = 1 + 4
      /\ \A i \in 1 .. 1 + 4 : (<<h>> \o Pads(4))[i] = IF i <= 1 THEN <<h>>[i] ELSE Pads(4)[i - 1]
  BY <1>2, <1>4, ConcatProperties
<1> DEFINE z == <<h>> \o Pads(4)
<1> HIDE DEF z
<1>6. /\ z \in Seq(Cells) /\ Len(z) = 5 /\ z[1] = h
      /\ \A i \in 2 .. 5 : z[i] = <<"pad">>
  BY <1>2, <1>4, <1>5 DEF z
<1>7. QED
  BY <1>3, <1>6, Zenon DEF h, z

\* No cell of s starts a body, or belongs to a name.
NoBody(s) == \A i \in 1 .. Len(s) :
               ~(s[i][1] = "hdr" /\ s[i][2] \in {"BODY", "BODY_END"})
NoName(s) == \A i \in 1 .. Len(s) : s[i][1] # "name"

\* A property of all cells of two sequences is one of all cells of both.
LEMMA CleanConcat ==
  ASSUME NEW x \in Seq(Cells), NEW y \in Seq(Cells)
  PROVE  /\ NoBody(x) /\ NoBody(y) => NoBody(x \o y)
         /\ NoName(x) /\ NoName(y) => NoName(x \o y)
<1> DEFINE z == x \o y
           a == Len(x)
           b == Len(y)
<1>1. /\ a \in Nat /\ b \in Nat /\ Len(z) = a + b
      /\ \A i \in 1 .. a : z[i] = x[i]
      /\ \A i \in 1 .. b : z[a + i] = y[i]
  BY ConcatAt
<1> HIDE DEF z, a, b
<1>2. ASSUME NEW i \in 1 .. Len(z)
      PROVE  (\E j \in 1 .. a : z[i] = x[j]) \/ (\E j \in 1 .. b : z[i] = y[j])
  <2>1. CASE i <= a
    BY <2>1, <1>1
  <2>2. CASE ~(i <= a)
    <3>1. i - a \in 1 .. b /\ a + (i - a) = i
      BY <2>2, <1>1
    <3>2. z[a + (i - a)] = y[i - a]
      BY <3>1, <1>1, Zenon
    <3>3. QED
      BY <3>1, <3>2, Zenon
  <2>3. QED
    BY <2>1, <2>2
<1>3. QED
  BY <1>2, Zenon DEF NoBody, NoName, z, a, b

\* The bytes of a file start no body and name nothing, nor do names and fillers.
LEMMA CleanParts ==
  /\ \A r, a, b \in Nat : a <= b => NoBody(Cut(r, a, b)) /\ NoName(Cut(r, a, b))
  /\ \A n \in Nat : NoBody(Uint("LENGTH", n)) /\ NoName(Uint("LENGTH", n))
<1>1. ASSUME NEW r \in Nat, NEW a \in Nat, NEW b \in Nat, a <= b
      PROVE  NoBody(Cut(r, a, b)) /\ NoName(Cut(r, a, b))
  <2>1. /\ Len(Cut(r, a, b)) = b - a
        /\ \A i \in 1 .. (b - a) : Cut(r, a, b)[i] = <<"byte", r, a + i>>
    BY <1>1, CutIs
  <2>2. QED
    BY <2>1 DEF NoBody, NoName
<1>2. ASSUME NEW n \in Nat
      PROVE  NoBody(Uint("LENGTH", n)) /\ NoName(Uint("LENGTH", n))
  <2> DEFINE u == Uint("LENGTH", n)
  <2>1. /\ Len(u) = 5 /\ u[1] = <<"hdr", "LENGTH", 5, n>>
        /\ \A i \in 2 .. 5 : u[i] = <<"pad">>
    BY UintIs, SomeWords
  <2> HIDE DEF u
  <2>2. ASSUME NEW i \in 1 .. Len(u)
        PROVE  /\ ~(u[i][1] = "hdr" /\ u[i][2] \in {"BODY", "BODY_END"})
               /\ u[i][1] # "name"
    <3>1. i = 1 \/ i \in 2 .. 5
      BY <2>1
    <3>2. QED
      BY <3>1, <2>1
  <2>3. QED
    BY <2>2, Zenon DEF NoBody, NoName, u
<1>3. QED
  BY <1>1, <1>2

\* The device takes from a packet the bytes behind its one body header.
LEMMA CarriedIs ==
  ASSUME NEW u \in Seq(Cells), NoBody(u), NEW hi \in {"BODY", "BODY_END"},
         NEW bytes \in Seq(Cells), NoBody(bytes)
  PROVE  Carried(u \o Stream(hi, bytes)) = bytes
<1> DEFINE t == Stream(hi, bytes)
           p == u \o t
           a == Len(u)
           b == Len(bytes)
<1>0. hi \in Words
  BY SomeWords
<1>1. /\ t \in Seq(Cells) /\ Len(t) = 3 + b /\ t[1] = <<"hdr", hi, 3 + b, 0>>
      /\ t[2] = <<"pad">> /\ t[3] = <<"pad">>
      /\ \A i \in 1 .. b : t[3 + i] = bytes[i]
  BY <1>0, StreamIs
<1>2. PICK front \in Seq(Cells) : Len(front) = 3 /\ t = front \o bytes
  BY <1>0, StreamIs
<1> HIDE DEF t
<1>3. /\ a \in Nat /\ Len(t) \in Nat /\ Len(p) = a + Len(t) /\ p \in Seq(Cells)
      /\ \A i \in 1 .. a : p[i] = u[i]
      /\ \A i \in 1 .. Len(t) : p[a + i] = t[i]
  BY <1>1, ConcatAt
<1>4. DOMAIN p = 1 .. Len(p) /\ b \in Nat
  BY <1>3, LenProperties, Zenon
<1>5. /\ u \o front \in Seq(Cells) /\ Len(u \o front) = a + 3
      /\ p = (u \o front) \o bytes
  <2>1. u \o front \in Seq(Cells) /\ Len(u \o front) = Len(u) + Len(front)
    BY ConcatProperties, Zenon
  <2>2. (u \o front) \o bytes = u \o (front \o bytes)
    BY ConcatAssociative
  <2>3. QED
    BY <2>1, <2>2, <1>2, Zenon
<1> HIDE DEF p, a, b
<1>6. BodyAt(p) = {a + 1}
  <2>1. p[a + 1] = t[1]
    BY <1>1, <1>3, <1>4
  <2>2. a + 1 \in BodyAt(p)
    BY <2>1, <1>1, <1>3, <1>4 DEF BodyAt
  <2>3. ASSUME NEW i \in BodyAt(p) PROVE i = a + 1
    <3>1. i \in 1 .. Len(p) /\ p[i][1] = "hdr" /\ p[i][2] \in {"BODY", "BODY_END"}
      BY <1>4, Zenon DEF BodyAt
    <3>2. ~(i \in 1 .. a)
      BY <3>1, <1>3, Zenon DEF NoBody, a
    <3>3. i - a \in 1 .. 3 + b /\ a + (i - a) = i
      BY <3>1, <3>2, <1>1, <1>3, <1>4, SMTT(30)
    <3>4. p[i] = t[i - a]
      BY <3>3, <1>1, <1>3, Zenon
    <3>5. i - a # 2 /\ i - a # 3
      BY <3>1, <3>4, <1>1
    <3>6. ASSUME i - a > 3 PROVE FALSE
      <4>1. (i - a) - 3 \in 1 .. b /\ 3 + ((i - a) - 3) = i - a
        BY <3>3, <3>6, <1>3, <1>4, SMTT(30)
      <4>2. t[i - a] = bytes[(i - a) - 3]
        BY <4>1, <1>1, Zenon
      <4>3. QED
        BY <4>1, <4>2, <3>1, <3>4, Zenon DEF NoBody, b
    <3>7. QED
      BY <3>3, <3>5, <3>6, <1>3, <1>4, SMTT(30)
  <2>4. QED
    BY <2>2, <2>3
<1>7. (CHOOSE j \in BodyAt(p) : TRUE) = a + 1 /\ BodyAt(p) # {}
  BY <1>6
<1>8. p[a + 1][3] = 3 + b
  BY <1>1, <1>3, <1>4
<1>9. Carried(p) = SubSeq(p, (a + 1) + 3, (a + 1) + p[a + 1][3] - 1)
  BY <1>7, Zenon DEF Carried
<1>10. (a + 1) + 3 = Len(u \o front) + 1 /\ (a + 1) + (3 + b) - 1 = Len(u \o front) + b
  BY <1>3, <1>4, <1>5
<1>11. SubSeq((u \o front) \o bytes, Len(u \o front) + 1, Len(u \o front) + Len(bytes)) = bytes
  BY <1>5, DropFront
<1>12. QED
  BY <1>5, <1>8, <1>9, <1>10, <1>11, Zenon DEF p, t, b

\* A packet without a name.
LEMMA Unnamed ==
  ASSUME NEW p \in Seq(Cells), NoName(p)
  PROVE  Named(p) = {}
<1>1. DOMAIN p = 1 .. Len(p)
  BY LenProperties, Zenon
<1>2. QED
  BY <1>1, Zenon DEF Named, NoName, ToSet

\* The first bytes of a packet, and the headers of a request for a file of n
\* bytes in request r.
Opening(s, id, cmd, last) == <<<<"seq", s, id>>, <<"cmd", cmd, last>>>> \o Pads(2)

\* The headers of a request for a file of n bytes.
NameBuf(r, n) == Stream("NAME", [i \in 1 .. NameLen |-> <<"name", r, n>>])
LenBuf(n) == Uint("LENGTH", n)
NameH(r, n) == [hi |-> "NAME", buf |-> NameBuf(r, n)]
LenH(n) == [hi |-> "LENGTH", buf |-> LenBuf(n)]
BodyH(r, k, n) == [hi |-> "BODY", buf |-> Cut(r, k, n)]

\* The cells of the first bytes of a packet.
LEMMA OpeningIs ==
  ASSUME NEW s \in Int, NEW id \in Nat, NEW cmd \in Words, NEW last \in BOOLEAN
  PROVE  /\ Opening(s, id, cmd, last) \in Seq(Cells) /\ Len(Opening(s, id, cmd, last)) = 4
         /\ Opening(s, id, cmd, last)[1] = <<"seq", s, id>>
         /\ Opening(s, id, cmd, last)[2] = <<"cmd", cmd, last>>
         /\ NoBody(Opening(s, id, cmd, last)) /\ NoName(Opening(s, id, cmd, last))
<1> DEFINE a == <<"seq", s, id>>
           b == <<"cmd", cmd, last>>
           o == Opening(s, id, cmd, last)
           two == <<a, b>>
           pad == Pads(2)
<1>1. a \in Cells /\ b \in Cells
  BY NewCells
<1>2. a[1] = "seq" /\ b[1] = "cmd"
  OBVIOUS
<1>3. /\ pad \in Seq(Cells) /\ Len(pad) = 2
      /\ pad[1] = <<"pad">> /\ pad[2] = <<"pad">>
  BY Fillers DEF Pads
<1>4. o = two \o pad
  BY Zenon DEF Opening
<1> HIDE DEF a, b, o, pad
<1>5. /\ two \in Seq(Cells) /\ Len(two) = 2 /\ two[1] = a /\ two[2] = b
  BY <1>1
<1> HIDE DEF two
<1>6a. /\ two \o pad \in Seq(Cells) /\ Len(two \o pad) = Len(two) + Len(pad)
       /\ \A i \in 1 .. Len(two) : (two \o pad)[i] = two[i]
       /\ \A i \in 1 .. Len(pad) : (two \o pad)[Len(two) + i] = pad[i]
  <2>1. two \in Seq(Cells) /\ pad \in Seq(Cells)
    BY <1>5, <1>3
  <2>2. QED
    BY <2>1, ConcatAt
<1>6. /\ o \in Seq(Cells) /\ Len(o) = 4
      /\ o[1] = a /\ o[2] = b /\ o[3] = <<"pad">> /\ o[4] = <<"pad">>
  BY <1>3, <1>4, <1>5, <1>6a
<1>7. ASSUME NEW i \in 1 .. Len(o)
      PROVE  o[i][1] # "hdr" /\ o[i][1] # "name"
  <2>1. i = 1 \/ i = 2 \/ i = 3 \/ i = 4
    BY <1>6
  <2>2. QED
    BY <2>1, <1>2, <1>6
<1>8. QED
  BY <1>6, <1>7, Zenon DEF NoBody, NoName, o, a, b

\* A packet: its number, its command, and what it is loaded with.
PacketIs(p, s, id, cmd, last, d) ==
  /\ p \in Seq(Cells) /\ Len(p) = 4 + Len(d) /\ Len(d) \in Nat
  /\ p[1] = <<"seq", s, id>> /\ p[2] = <<"cmd", cmd, last>>
  /\ \A i \in 1 .. Len(d) : p[4 + i] = d[i]

\* The cells of a packet are those of its opening and those behind it.
LEMMA PacketOf ==
  ASSUME NEW s \in Int, NEW id \in Nat, NEW cmd \in Words, NEW last \in BOOLEAN,
         NEW d \in Seq(Cells), NEW p, p = Opening(s, id, cmd, last) \o d
  PROVE  PacketIs(p, s, id, cmd, last, d)
<1> DEFINE o == Opening(s, id, cmd, last)
<1>1. o \in Seq(Cells) /\ Len(o) = 4 /\ o[1] = <<"seq", s, id>>
      /\ o[2] = <<"cmd", cmd, last>>
  BY OpeningIs
<1> HIDE DEF o
<1>2. /\ o \o d \in Seq(Cells) /\ Len(o \o d) = Len(o) + Len(d) /\ Len(d) \in Nat
      /\ \A i \in 1 .. Len(o) : (o \o d)[i] = o[i]
      /\ \A i \in 1 .. Len(d) : (o \o d)[Len(o) + i] = d[i]
  <2>1. o \in Seq(Cells)
    BY <1>1
  <2>2. QED
    BY <2>1, ConcatAt
<1>3. p = o \o d
  BY DEF o
<1>4. p[1] = o[1] /\ p[2] = o[2]
  BY <1>1, <1>2, <1>3
<1>5. QED
  BY <1>1, <1>2, <1>3, <1>4, Zenon DEF PacketIs

\* The cells of the NAME header.
LEMMA NameIs ==
  ASSUME NEW r \in Nat, NEW n \in Nat
  PROVE  /\ NameBuf(r, n) \in Seq(Cells) /\ Len(NameBuf(r, n)) = 3 + NameLen
         /\ NameBuf(r, n)[1] = <<"hdr", "NAME", 3 + NameLen, 0>>
         /\ NameBuf(r, n)[4] = <<"name", r, n>>
         /\ NoBody(NameBuf(r, n))
         /\ \A i \in 1 .. 3 + NameLen :
              NameBuf(r, n)[i][1] = "name" => NameBuf(r, n)[i] = <<"name", r, n>>
<1> DEFINE c == <<"name", r, n>>
           s == [i \in 1 .. NameLen |-> c]
           t == NameBuf(r, n)
<1>0. NameLen \in Nat \ {0} /\ "NAME" \in Words
  BY ObexAssumption, SomeWords
<1>1. c \in Cells /\ c[1] = "name"
  BY NewCells
<1>2. t = Stream("NAME", s)
  BY DEF NameBuf
<1> HIDE DEF c
<1>3. s \in Seq(Cells) /\ Len(s) = NameLen /\ \A i \in 1 .. NameLen : s[i] = c
  BY <1>0, <1>1
<1> HIDE DEF s, t
<1>4. /\ t \in Seq(Cells) /\ Len(t) = 3 + NameLen
      /\ t[1] = <<"hdr", "NAME", 3 + NameLen, 0>>
      /\ t[2] = <<"pad">> /\ t[3] = <<"pad">>
      /\ \A i \in 1 .. NameLen : t[3 + i] = s[i]
  <2>1. /\ Stream("NAME", s) \in Seq(Cells) /\ Len(Stream("NAME", s)) = 3 + Len(s)
        /\ Stream("NAME", s)[1] = <<"hdr", "NAME", 3 + Len(s), 0>>
        /\ Stream("NAME", s)[2] = <<"pad">> /\ Stream("NAME", s)[3] = <<"pad">>
        /\ \A i \in 1 .. Len(s) : Stream("NAME", s)[3 + i] = s[i]
    BY <1>0, <1>3, StreamIs
  <2>2. QED
    BY <1>2, <1>3, <2>1, Zenon
<1>5. t[4] = c
  <2>1. 1 \in 1 .. NameLen /\ 3 + 1 = 4
    BY <1>0
  <2>2. QED
    BY <2>1, <1>3, <1>4
<1>6. ASSUME NEW i \in 1 .. 3 + NameLen
      PROVE  /\ ~(t[i][1] = "hdr" /\ t[i][2] \in {"BODY", "BODY_END"})
             /\ t[i][1] = "name" => t[i] = c
  <2>1. CASE i = 1 \/ i = 2 \/ i = 3
    BY <2>1, <1>4
  <2>2. CASE i > 3
    <3>1. i - 3 \in 1 .. NameLen /\ 3 + (i - 3) = i
      BY <2>2, <1>0
    <3>2. t[i] = c
      BY <3>1, <1>3, <1>4, Zenon
    <3>3. QED
      BY <3>2, <1>1
  <2>3. QED
    BY <2>1, <2>2, <1>0
<1>7. QED
  BY <1>4, <1>5, <1>6, Zenon DEF NoBody, t, c

-----------------------------------------------------------------------------
(* A file sent with PUT.                                                   *)

\* A packet is loaded with d: its first one names the file and announces its
\* length; bytes m + 1 to k are in it, and q is what is left to send.
PutFront(r, n, first) == IF first THEN NameBuf(r, n) \o LenBuf(n) ELSE <<>>
BodyName(last) == IF last THEN "BODY_END" ELSE "BODY"
PutLoad(d, q, r, n, first, m, k) ==
  /\ m \in Nat /\ k \in Nat /\ m <= k /\ k <= n
  /\ first => m = 0
  /\ d = PutFront(r, n, first) \o Stream(BodyName(q = <<>>), Cut(r, m, k))
  /\ IF q = <<>> THEN k = n ELSE q = <<BodyH(r, k, n)>>

\* The headers in front of the body.
LEMMA PutFrontIs ==
  ASSUME NEW r \in Nat, NEW n \in Nat, NEW first \in BOOLEAN
  PROVE  /\ PutFront(r, n, first) \in Seq(Cells) /\ NoBody(PutFront(r, n, first))
         /\ ~first => PutFront(r, n, first) = <<>> /\ NoName(PutFront(r, n, first))
         /\ first => /\ Len(PutFront(r, n, first)) = NameLen + 8
                     /\ PutFront(r, n, first)[1] = <<"hdr", "NAME", 3 + NameLen, 0>>
                     /\ PutFront(r, n, first)[4] = <<"name", r, n>>
                     /\ PutFront(r, n, first)[4 + NameLen] = <<"hdr", "LENGTH", 5, n>>
<1>0. NameLen \in Nat \ {0} /\ "LENGTH" \in Words
  BY ObexAssumption, SomeWords
<1>1. CASE ~first
  <2>1. PutFront(r, n, first) = <<>>
    BY <1>1 DEF PutFront
  <2>2. <<>> \in Seq(Cells) /\ Len(<<>>) = 0
    BY EmptySeq
  <2>3. NoBody(<<>>) /\ NoName(<<>>)
    BY DEF NoBody, NoName
  <2>4. QED
    BY <1>1, <2>1, <2>2, <2>3, Zenon
<1>2. CASE first
  <2> DEFINE x == NameBuf(r, n)
             y == LenBuf(n)
  <2>1. PutFront(r, n, first) = x \o y
    BY <1>2 DEF PutFront
  <2>2. /\ x \in Seq(Cells) /\ Len(x) = 3 + NameLen
        /\ x[1] = <<"hdr", "NAME", 3 + NameLen, 0>> /\ x[4] = <<"name", r, n>>
        /\ NoBody(x)
    BY NameIs, Zenon
  <2>3. y \in Seq(Cells) /\ Len(y) = 5 /\ y[1] = <<"hdr", "LENGTH", 5, n>>
    BY <1>0, UintIs DEF LenBuf
  <2>4. NoBody(y)
    BY CleanParts DEF LenBuf
  <2> HIDE DEF x, y
  <2>5. /\ x \o y \in Seq(Cells) /\ Len(x \o y) = Len(x) + Len(y)
        /\ \A i \in 1 .. Len(x) : (x \o y)[i] = x[i]
        /\ \A i \in 1 .. Len(y) : (x \o y)[Len(x) + i] = y[i]
    <3>1. x \in Seq(Cells) /\ y \in Seq(Cells)
      BY <2>2, <2>3
    <3>2. QED
      BY <3>1, ConcatAt
  <2>6. NoBody(x \o y)
    BY <2>2, <2>3, <2>4, CleanConcat, Zenon
  <2>7. (x \o y)[1] = x[1] /\ (x \o y)[4] = x[4] /\ (x \o y)[4 + NameLen] = y[1]
        /\ Len(x) + Len(y) = NameLen + 8
    <3>1. 1 \in 1 .. Len(x) /\ 4 \in 1 .. Len(x) /\ 1 \in 1 .. Len(y)
          /\ Len(x) + 1 = 4 + NameLen /\ Len(x) + Len(y) = NameLen + 8
      BY <2>2, <2>3, <1>0
    <3>2. QED
      BY <3>1, <2>5, Zenon
  <2>8. QED
    BY <1>2, <2>1, <2>2, <2>3, <2>5, <2>6, <2>7, Zenon
<1>3. QED
  BY <1>1, <1>2

\* The cells of what a PUT packet is loaded with.
PutLoaded(d, q, r, n, first, m, k) ==
  /\ d \in Seq(Cells) /\ Len(d) \in Nat
  /\ first => /\ Len(d) >= 11 + NameLen
              /\ d[1] = <<"hdr", "NAME", 3 + NameLen, 0>>
              /\ d[4] = <<"name", r, n>>
              /\ d[4 + NameLen] = <<"hdr", "LENGTH", 5, n>>
              /\ d[9 + NameLen] = <<"hdr", BodyName(q = <<>>), 3 + (k - m), 0>>
  /\ ~first => /\ Len(d) >= 3 /\ NoName(d)
               /\ d[1] = <<"hdr", BodyName(q = <<>>), 3 + (k - m), 0>>

\* The cells a packet is loaded with.
LEMMA PutLoadIs ==
  ASSUME NEW r \in Nat, NEW n \in Nat, NEW first \in BOOLEAN, NEW d, NEW q,
         NEW m, NEW k, PutLoad(d, q, r, n, first, m, k)
  PROVE  PutLoaded(d, q, r, n, first, m, k)
<1> DEFINE x == PutFront(r, n, first)
           hi == BodyName(q = <<>>)
           c == Cut(r, m, k)
           y == Stream(hi, c)
<1>0. NameLen \in Nat \ {0} /\ hi \in Words /\ hi \in {"BODY", "BODY_END"}
  BY ObexAssumption, SomeWords DEF BodyName
<1>1. m \in Nat /\ k \in Nat /\ m <= k /\ d = x \o y
  BY Zenon DEF PutLoad
<1>2. c \in Seq(Cells) /\ Len(c) = k - m /\ NoName(c)
  BY <1>1, CutIs, CleanParts
<1>3. /\ x \in Seq(Cells)
      /\ ~first => x = <<>> /\ NoName(x)
      /\ first => /\ Len(x) = NameLen + 8
                  /\ x[1] = <<"hdr", "NAME", 3 + NameLen, 0>>
                  /\ x[4] = <<"name", r, n>>
                  /\ x[4 + NameLen] = <<"hdr", "LENGTH", 5, n>>
  BY PutFrontIs, Zenon
<1> HIDE DEF x, hi, c
<1>4. /\ y \in Seq(Cells) /\ Len(y) = 3 + Len(c) /\ y[1] = <<"hdr", hi, 3 + Len(c), 0>>
      /\ y[2] = <<"pad">> /\ y[3] = <<"pad">>
      /\ \A i \in 1 .. Len(c) : y[3 + i] = c[i]
  BY <1>0, <1>2, StreamIs, Zenon
<1> HIDE DEF y
<1>5. /\ x \o y \in Seq(Cells) /\ Len(x \o y) = Len(x) + Len(y)
      /\ Len(x) \in Nat /\ Len(y) \in Nat
      /\ \A i \in 1 .. Len(x) : (x \o y)[i] = x[i]
      /\ \A i \in 1 .. Len(y) : (x \o y)[Len(x) + i] = y[i]
  <2>1. x \in Seq(Cells) /\ y \in Seq(Cells)
    BY <1>3, <1>4
  <2>2. QED
    BY <2>1, ConcatAt
<1>6. d \in Seq(Cells) /\ Len(d) \in Nat
  BY <1>1, <1>5
<1>7. y[1] = <<"hdr", hi, 3 + (k - m), 0>> /\ Len(y) = 3 + (k - m)
  BY <1>2, <1>4, Zenon
<1>8. CASE first
  <2>1. 1 \in 1 .. Len(x) /\ 4 \in 1 .. Len(x) /\ 4 + NameLen \in 1 .. Len(x)
        /\ 1 \in 1 .. Len(y) /\ Len(x) + 1 = 9 + NameLen /\ Len(x) + Len(y) >= 11 + NameLen
    BY <1>8, <1>0, <1>1, <1>3, <1>7
  <2>2. /\ (x \o y)[1] = x[1] /\ (x \o y)[4] = x[4]
        /\ (x \o y)[4 + NameLen] = x[4 + NameLen] /\ (x \o y)[9 + NameLen] = y[1]
    BY <2>1, <1>5, Zenon
  <2>3. QED
    BY <2>1, <2>2, <1>1, <1>3, <1>5, <1>6, <1>7, <1>8, Zenon DEF hi, PutLoaded
<1>9. CASE ~first
  <2>1. x = <<>> /\ x \o y = y
    BY <1>9, <1>3, <1>4, ConcatEmptySeq
  <2>2. NoName(y)
    <3>1. ASSUME NEW i \in 1 .. Len(y) PROVE y[i][1] # "name"
      <4>1. CASE i = 1 \/ i = 2 \/ i = 3
        BY <4>1, <1>4
      <4>2. CASE i > 3
        <5>1. i - 3 \in 1 .. Len(c) /\ 3 + (i - 3) = i
          BY <4>2, <1>1, <1>2, <1>7
        <5>2. y[i] = c[i - 3]
          BY <5>1, <1>4, Zenon
        <5>3. QED
          BY <5>1, <5>2, <1>2, Zenon DEF NoName
      <4>3. QED
        BY <4>1, <4>2, <1>5
    <3>2. QED
      BY <3>1 DEF NoName
  <2>3. Len(y) >= 3
    BY <1>1, <1>7
  <2>4. QED
    BY <2>1, <2>2, <2>3, <1>1, <1>6, <1>7, <1>9, Zenon DEF hi, PutLoaded
<1>10. QED
  BY <1>8, <1>9

\* The device finds bytes m + 1 to k in the packet, and the name in the first.
PutCarries(p, r, first, m, k) == Carried(p) = Cut(r, m, k) /\ (Named(p) # {} <=> first)

\* Packet p of a PUT.
PutSending(s, id, last, cmd, r, n, first, d, q, m, k, p) ==
  /\ s \in Int /\ id \in Nat /\ last \in BOOLEAN /\ cmd \in Words
  /\ r \in Nat /\ n \in Nat /\ first \in BOOLEAN
  /\ PutLoad(d, q, r, n, first, m, k) /\ p = Opening(s, id, cmd, last) \o d

\* What the device reads from a packet of a PUT: a name in the first one only,
\* and the bytes of the file that are next.
LEMMA PutPacket ==
  ASSUME NEW s, NEW id, NEW last, NEW cmd, NEW r, NEW n, NEW first, NEW d, NEW q,
         NEW m, NEW k, NEW p, PutSending(s, id, last, cmd, r, n, first, d, q, m, k, p)
  PROVE  PutCarries(p, r, first, m, k)
<1> SUFFICES ASSUME s \in Int, id \in Nat, last \in BOOLEAN, cmd \in Words,
                    r \in Nat, n \in Nat, first \in BOOLEAN,
                    PutLoad(d, q, r, n, first, m, k), p = Opening(s, id, cmd, last) \o d
             PROVE  Carried(p) = Cut(r, m, k) /\ (Named(p) # {} <=> first)
  BY DEF PutSending, PutCarries
<1> DEFINE o == Opening(s, id, cmd, last)
           x == PutFront(r, n, first)
           hi == BodyName(q = <<>>)
           c == Cut(r, m, k)
           y == Stream(hi, c)
<1>0. NameLen \in Nat \ {0} /\ hi \in Words /\ hi \in {"BODY", "BODY_END"}
  BY ObexAssumption, SomeWords DEF BodyName
<1>1. m \in Nat /\ k \in Nat /\ m <= k /\ d = x \o y
  BY Zenon DEF PutLoad
<1>2. c \in Seq(Cells) /\ NoBody(c)
  BY <1>1, CutIs, CleanParts
<1>3. x \in Seq(Cells) /\ NoBody(x)
  BY PutFrontIs, Zenon
<1>4. o \in Seq(Cells) /\ NoBody(o) /\ NoName(o)
  BY <1>0, OpeningIs
<1>5a. PutLoaded(d, q, r, n, first, m, k)
  BY PutLoadIs
<1>5. /\ p \in Seq(Cells) /\ Len(p) = 4 + Len(d)
      /\ Len(d) \in Nat
      /\ \A i \in 1 .. Len(d) : p[4 + i] = d[i]
  <2>1. d \in Seq(Cells)
    BY <1>5a DEF PutLoaded
  <2>2. PacketIs(p, s, id, cmd, last, d)
    BY <2>1, PacketOf
  <2>3. QED
    BY <2>2, Zenon DEF PacketIs
<1>6. Carried(p) = c
  <2> HIDE DEF o, x, hi, c
  <2>1. y \in Seq(Cells)
    BY <1>0, <1>2, StreamIs, Zenon
  <2>2. o \o x \in Seq(Cells) /\ NoBody(o \o x)
    <3>1. o \o x \in Seq(Cells)
      BY <1>3, <1>4
    <3>2. QED
      BY <3>1, <1>3, <1>4, CleanConcat, Zenon
  <2>3. Carried((o \o x) \o y) = c
    BY <2>2, <1>0, <1>2, CarriedIs, Zenon
  <2>4. p = (o \o x) \o y
    <3> HIDE DEF y
    <3>1. p = o \o (x \o y)
      BY <1>1 DEF o
    <3>2. o \in Seq(Cells) /\ x \in Seq(Cells) /\ y \in Seq(Cells)
      BY <2>1, <1>3, <1>4
    <3>3. (o \o x) \o y = o \o (x \o y)
      BY <3>2, ConcatAssociative, SMTT(30)
    <3>4. QED
      BY <3>1, <3>3, Zenon
  <2>5. QED
    BY <2>3, <2>4, Zenon
<1>7. CASE first
  <2>1. d[4] = <<"name", r, n>> /\ 4 \in 1 .. Len(d)
    <3>1. Len(d) >= 11 + NameLen /\ d[4] = <<"name", r, n>>
      BY <1>7, <1>5a, Zenon DEF PutLoaded
    <3>2. QED
      BY <3>1, <1>0, <1>5
  <2>2. p[4 + 4] = <<"name", r, n>> /\ 4 + 4 \in DOMAIN p
    <3>1. DOMAIN p = 1 .. Len(p) /\ Len(d) \in Nat
      BY <1>5, LenProperties
    <3>2. QED
      BY <2>1, <3>1, <1>5
  <2>3. p[4 + 4] \in Named(p)
    <3>1. p[4 + 4][1] = "name"
      BY <2>2
    <3>2. QED
      BY <3>1, <2>2, Zenon DEF Named, ToSet
  <2>4. QED
    BY <2>3, <1>6, <1>7
<1>8. CASE ~first
  <2>1. d \in Seq(Cells) /\ NoName(d)
    BY <1>8, <1>5a, Zenon DEF PutLoaded
  <2>2. NoName(p)
    BY <2>1, <1>4, CleanConcat, Zenon
  <2>3. QED
    BY <2>2, <1>5, <1>6, <1>8, Unnamed, Zenon
<1>9. QED
  BY <1>7, <1>8

\* The progress the callback has reported for m of the n bytes of request r.
Report(r, m, n) == [name |-> r, transferred |-> m, length |-> n]

\* A packet of a PUT that is about to be reported.
PutReporting(s, id, last, cmd, r, n, first, d, q, m, k) ==
  /\ s \in Int /\ id \in Nat /\ last \in BOOLEAN /\ cmd \in Words
  /\ r \in Nat /\ n \in Nat /\ first \in BOOLEAN
  /\ PutLoad(d, q, r, n, first, m, k)
  /\ self.tx_msg.data = Opening(s, id, cmd, last) \o d
  /\ object.name = "file" /\ session.requests = r
  /\ ~first => progress = Report(r, m, n)

\* exword_handle_callbacks reads the packet that was sent: after it the bytes
\* of the packet have been added to what was reported before.
LEMMA PutReports ==
  ASSUME NEW s, NEW id, NEW last, NEW cmd, NEW r, NEW n, NEW first, NEW d, NEW q,
         NEW m, NEW k, PutReporting(s, id, last, cmd, r, n, first, d, q, m, k)
  PROVE  PutProgress = Report(r, k, n)
<1> SUFFICES ASSUME s \in Int, id \in Nat, last \in BOOLEAN, cmd \in Words,
                    r \in Nat, n \in Nat, first \in BOOLEAN,
                    PutLoad(d, q, r, n, first, m, k),
                    self.tx_msg.data = Opening(s, id, cmd, last) \o d,
                    object.name = "file", session.requests = r,
                    ~first => progress = Report(r, m, n)
             PROVE  PutProgress = Report(r, k, n)
  BY DEF PutReporting
<1> DEFINE p == self.tx_msg.data
           hi == BodyName(q = <<>>)
<1>0. /\ NameLen \in Nat \ {0} /\ hi \in {"BODY", "BODY_END"} /\ hi # "NAME"
      /\ m \in Nat /\ k \in Nat /\ m <= k /\ (first => m = 0)
  BY ObexAssumption DEF BodyName, PutLoad
<1>1. PutLoaded(d, q, r, n, first, m, k)
  BY PutLoadIs
<1>2. d \in Seq(Cells) /\ Len(d) \in Nat
  BY <1>1 DEF PutLoaded
<1>3. PacketIs(p, s, id, cmd, last, d)
  BY <1>2, PacketOf
<1>4. Len(p) = 4 + Len(d) /\ \A i \in 1 .. Len(d) : p[4 + i] = d[i]
  BY <1>3, Zenon DEF PacketIs
<1>5. ASSUME NEW i \in 1 .. Len(d) PROVE HeaderAt(4 + i) = d[i]
  BY <1>2, <1>4 DEF HeaderAt
<1> DEFINE total == 3 + (k - m)
           body == <<"hdr", hi, total, 0>>
           name == <<"hdr", "NAME", 3 + NameLen, 0>>
           length == <<"hdr", "LENGTH", 5, n>>
<1>6. CASE first
  <2>1. /\ Len(d) >= 11 + NameLen /\ d[1] = name
        /\ d[4 + NameLen] = length /\ d[9 + NameLen] = body
    BY <1>1, <1>6, Zenon DEF PutLoaded
  <2>2. /\ 1 \in 1 .. Len(d) /\ 4 + NameLen \in 1 .. Len(d) /\ 9 + NameLen \in 1 .. Len(d)
        /\ 4 + 1 = 5 /\ 4 + (4 + NameLen) = 5 + (3 + NameLen)
        /\ 4 + (9 + NameLen) = 5 + (3 + NameLen) + 5
    <3>1. Len(d) >= 11 + NameLen /\ NameLen \in Nat /\ Len(d) \in Nat
      BY <2>1, <1>0, <1>2
    <3> DEFINE l == Len(d)
    <3> HIDE DEF l
    <3>2. l >= 11 + NameLen /\ l \in Nat /\ NameLen \in Nat
      BY <3>1, Zenon DEF l
    <3>3. /\ 1 \in 1 .. l /\ 4 + NameLen \in 1 .. l /\ 9 + NameLen \in 1 .. l
          /\ 4 + 1 = 5 /\ 4 + (4 + NameLen) = 5 + (3 + NameLen)
          /\ 4 + (9 + NameLen) = 5 + (3 + NameLen) + 5
      BY <3>2
    <3>4. QED
      BY <3>3, Zenon DEF l
  <2>3. /\ HeaderAt(5) = name /\ HeaderAt(5 + (3 + NameLen)) = length
        /\ HeaderAt(5 + (3 + NameLen) + 5) = body
    <3>1. HeaderAt(4 + 1) = d[1]
      BY <2>2, <1>5
    <3>2. HeaderAt(4 + (4 + NameLen)) = d[4 + NameLen]
      BY <2>2, <1>5
    <3>3. HeaderAt(4 + (9 + NameLen)) = d[9 + NameLen]
      BY <2>2, <1>5
    <3>4. QED
      BY <3>1, <3>2, <3>3, <2>1, <2>2, Zenon
  <2>4. /\ name[1] = "hdr" /\ name[2] = "NAME" /\ name[3] = 3 + NameLen
        /\ length[4] = n /\ body[1] = "hdr" /\ body[2] = hi /\ body[3] = total
    OBVIOUS
  <2> HIDE DEF total, body, name, length, hi
  <2>5. PutProgress = [[name |-> r, transferred |-> 0, length |-> n]
                         EXCEPT !.transferred = 0 + (total - 3)]
    BY <2>3, <2>4, <1>0, Zenon DEF PutProgress
  <2>6. 0 + (total - 3) = k
    BY <1>0, <1>6 DEF total
  <2>7. QED
    BY <2>5, <2>6 DEF Report
<1>7. CASE ~first
  <2>1. Len(d) >= 3 /\ d[1] = body
    BY <1>1, <1>7, Zenon DEF PutLoaded
  <2>2. HeaderAt(5) = body
    <3>1. 1 \in 1 .. Len(d) /\ 4 + 1 = 5
      BY <2>1, <1>2
    <3>2. HeaderAt(4 + 1) = d[1]
      BY <3>1, <1>5
    <3>3. QED
      BY <3>1, <3>2, <2>1, Zenon
  <2>3. body[1] = "hdr" /\ body[2] = hi /\ body[3] = total
    OBVIOUS
  <2>4. Report(r, m, n).transferred = m
    BY DEF Report
  <2> HIDE DEF total, body, hi
  <2>5. PutProgress = [Report(r, m, n) EXCEPT !.transferred = m + (total - 3)]
    BY <2>2, <2>3, <2>4, <1>0, <1>7, Zenon DEF PutProgress
  <2>6. m + (total - 3) = k
    BY <1>0 DEF total
  <2>7. QED
    BY <2>5, <2>6 DEF Report
<1>8. QED
  BY <1>6, <1>7

-----------------------------------------------------------------------------
(* A file fetched with GET.                                                *)

\* A file from its first byte on.
LEMMA WholeFile ==
  ASSUME NEW r \in Nat, NEW n \in Nat
  PROVE  [i \in 1 .. n |-> <<"byte", r, i>>] = Cut(r, 0, n)
<1>1. n - 0 = n /\ \A i \in 1 .. n : 0 + i = i
  OBVIOUS
<1> DEFINE f == [i \in 1 .. n |-> <<"byte", r, i>>]
           g == [i \in 1 .. n |-> <<"byte", r, 0 + i>>]
<1>2. \A i \in 1 .. n : <<"byte", r, i>> = <<"byte", r, 0 + i>>
  BY <1>1, Zenon
<1>3. f = g
  BY <1>2, Zenon
<1>4. Cut(r, 0, n) = g
  BY <1>1, Zenon DEF Cut
<1>5. QED
  BY <1>3, <1>4

\* What a packet of a GET asks for.
GetFetches(p, d, r, n) ==
  /\ d = NameBuf(r, n) => Named(p) # {} /\ Fetched(p) = Cut(r, 0, n)
  /\ d = <<>> => Named(p) = {} /\ Fetched(p) = device.out

\* The first packet of a GET names the file, the others ask for the rest.
LEMMA GetPacket ==
  ASSUME NEW s \in Int, NEW id \in Nat, NEW last \in BOOLEAN, NEW cmd \in Words,
         NEW r \in Nat, NEW n \in Nat, NEW d, NEW p,
         p = Opening(s, id, cmd, last) \o d
  PROVE  GetFetches(p, d, r, n)
<1> SUFFICES /\ d = NameBuf(r, n) => Named(p) # {} /\ Fetched(p) = Cut(r, 0, n)
             /\ d = <<>> => Named(p) = {} /\ Fetched(p) = device.out
  BY DEF GetFetches
<1> DEFINE o == Opening(s, id, cmd, last)
           c == <<"name", r, n>>
<1>1. o \in Seq(Cells) /\ NoName(o) /\ Len(o) = 4
  BY OpeningIs
<1>2. ASSUME d = NameBuf(r, n) PROVE Named(p) # {} /\ Fetched(p) = Cut(r, 0, n)
  <2>1. /\ d \in Seq(Cells) /\ Len(d) = 3 + NameLen /\ d[4] = c
        /\ \A i \in 1 .. 3 + NameLen : d[i][1] = "name" => d[i] = c
    BY <1>2, NameIs, Zenon
  <2>2. PacketIs(p, s, id, cmd, last, d)
    BY <2>1, PacketOf
  <2>3. p \in Seq(Cells) /\ Len(p) = 4 + Len(d) /\ \A i \in 1 .. Len(d) : p[4 + i] = d[i]
    BY <2>2, Zenon DEF PacketIs
  <2>4. \A i \in 1 .. 4 : p[i] = o[i]
    <3> HIDE DEF o
    <3>1. d \in Seq(Cells) /\ o \in Seq(Cells) /\ Len(o) = 4
      BY <2>1, <1>1
    <3>2. p = o \o d
      BY DEF o
    <3>3. \A i \in 1 .. Len(o) : (o \o d)[i] = o[i]
      <4>1. d \in Seq(Cells) /\ o \in Seq(Cells)
        BY <3>1
      <4>2. QED
        BY <4>1, ConcatAt
    <3>4. QED
      BY <3>1, <3>2, <3>3, Zenon
  <2>5. DOMAIN p = 1 .. Len(p) /\ NameLen \in Nat \ {0}
    BY <2>3, LenProperties, ObexAssumption
  <2>6. c \in Named(p)
    <3>1. 4 \in 1 .. Len(d) /\ 4 + 4 \in DOMAIN p /\ c[1] = "name"
      BY <2>1, <2>3, <2>5
    <3>2. p[4 + 4] = c
      BY <2>1, <2>3, <3>1, Zenon
    <3>3. QED
      BY <3>1, <3>2, Zenon DEF Named, ToSet
  <2>7. ASSUME NEW x \in Named(p) PROVE x = c
    <3>1. PICK i \in 1 .. Len(p) : x = p[i] /\ x[1] = "name"
      BY <2>5, Zenon DEF Named, ToSet
    <3>2. ~(i \in 1 .. 4)
      BY <3>1, <2>4, <1>1, Zenon DEF NoName
    <3>3. i - 4 \in 1 .. Len(d) /\ 4 + (i - 4) = i
      BY <3>2, <2>1, <2>3, <2>5
    <3>4. x = d[i - 4]
      BY <3>1, <3>3, <2>3, Zenon
    <3>5. QED
      BY <3>1, <3>3, <3>4, <2>1, Zenon
  <2> HIDE DEF c
  <2>8. (CHOOSE x \in Named(p) : TRUE) = c
    BY <2>6, <2>7
  <2>9. c[2] = r /\ c[3] = n
    BY DEF c
  <2>10. Fetched(p) = [i \in 1 .. n |-> <<"byte", r, i>>]
    BY <2>6, <2>8, <2>9, Zenon DEF Fetched
  <2>11. QED
    BY <2>6, <2>10, WholeFile, Zenon
<1>3. ASSUME d = <<>> PROVE Named(p) = {} /\ Fetched(p) = device.out
  <2>1. p = o
    <3> HIDE DEF o
    <3>1. o \in Seq(Cells)
      BY <1>1
    <3>2. o \o <<>> = o
      BY <3>1, ConcatEmptySeq
    <3>3. p = o \o d
      BY DEF o
    <3>4. QED
      BY <3>2, <3>3, <1>3, Zenon
  <2>2. Named(p) = {}
    BY <2>1, <1>1, Unnamed
  <2>3. QED
    BY <2>2, Zenon DEF Fetched
<1>4. QED
  BY <1>2, <1>3

\* A request for a file was named to the callback with its first packet.
GetSent(d, p, nm, r, n) == d = NameBuf(r, n) \/ (d = <<>> /\ (nm = "file" => p.name = r))

\* exword_handle_callbacks after a packet of a GET.
LEMMA GetReports ==
  ASSUME NEW s \in Int, NEW id \in Nat, NEW last \in BOOLEAN, NEW cmd \in Words,
         NEW r \in Nat, NEW n \in Nat, r # 0, NEW d,
         GetSent(d, progress, object.name, r, n),
         self.tx_msg.data = Opening(s, id, cmd, last) \o d,
         object.name = "file", session.requests = r,
         DOMAIN progress = {"name", "length", "transferred"}
  PROVE  /\ GetProgress.name = r
         /\ "BODY" \in object.seen => GetProgress.transferred = Len(object.body)
         /\ "LENGTH" \in object.seen => GetProgress.length = object.hinted
<1> DEFINE p == self.tx_msg.data
           h == HeaderAt(5)
           named == Len(self.tx_msg.data) > 4 /\ h[1] = "hdr" /\ h[2] = "NAME"
           g == IF named THEN [progress EXCEPT !.name =
                                 IF object.name = "file" THEN session.requests ELSE 0]
                ELSE progress
<1>1. g.name = r /\ DOMAIN g = {"name", "length", "transferred"}
  <2>1. CASE d = NameBuf(r, n)
    <3>1. d \in Seq(Cells) /\ Len(d) = 3 + NameLen /\ d[1] = <<"hdr", "NAME", 3 + NameLen, 0>>
      BY <2>1, NameIs, Zenon
    <3>2. PacketIs(p, s, id, cmd, last, d)
      BY <3>1, PacketOf
    <3>3. Len(p) = 4 + Len(d) /\ \A i \in 1 .. Len(d) : p[4 + i] = d[i]
      BY <3>2, Zenon DEF PacketIs
    <3>4. 1 \in 1 .. Len(d) /\ 4 + 1 = 5 /\ Len(p) > 4 /\ 5 <= Len(p)
      BY <3>1, <3>3, ObexAssumption
    <3>5. h = d[1]
      BY <3>3, <3>4, Zenon DEF HeaderAt
    <3>6. d[1][1] = "hdr" /\ d[1][2] = "NAME"
      BY <3>1
    <3>7. g = [progress EXCEPT !.name = r]
      BY <3>4, <3>5, <3>6, Zenon
    <3> HIDE DEF g
    <3>8. QED
      BY <3>7, Zenon
  <2>2. CASE d = <<>>
    <3>1. d \in Seq(Cells) /\ Len(d) = 0
      BY <2>2, EmptySeq
    <3>2. PacketIs(p, s, id, cmd, last, d)
      BY <3>1, PacketOf
    <3>3. ~(Len(p) > 4)
      BY <3>1, <3>2 DEF PacketIs
    <3>4. g = progress
      BY <3>3, Zenon
    <3>5. progress.name = r
      <4>1. NameBuf(r, n) # <<>>
        <5>1. Len(NameBuf(r, n)) = 3 + NameLen
          BY NameIs, Zenon
        <5>2. QED
          BY <5>1, <2>2, <3>1, ObexAssumption
      <4>2. QED
        BY <4>1, <2>2, Zenon DEF GetSent
    <3>6. QED
      BY <3>4, <3>5, Zenon
  <2>3. QED
    BY <2>1, <2>2, Zenon DEF GetSent
<1>2. GetProgress = IF g.name = 0 THEN g
     ELSE [g EXCEPT
        !.transferred = IF Received("BODY") THEN Len(object.body)
                        ELSE IF object.rx_body # <<>> THEN Len(object.rx_body[1].data)
                        ELSE g.transferred,
        !.length = IF Received("LENGTH") THEN object.hinted ELSE g.length]
  BY Zenon DEF GetProgress
<1> DEFINE v == IF Received("BODY") THEN Len(object.body)
                ELSE IF object.rx_body # <<>> THEN Len(object.rx_body[1].data)
                ELSE g.transferred
           w == IF Received("LENGTH") THEN object.hinted ELSE g.length
<1>3. "BODY" \in object.seen => v = Len(object.body)
  BY Zenon DEF Received
<1>4. "LENGTH" \in object.seen => w = object.hinted
  BY Zenon DEF Received
<1> HIDE DEF g, v, w
<1>5. GetProgress = [g EXCEPT !.transferred = v, !.length = w]
  BY <1>1, <1>2, Zenon DEF v, w
<1>6. GetProgress.name = g.name /\ GetProgress.transferred = v /\ GetProgress.length = w
  BY <1>1, <1>5, Zenon
<1>7. QED
  BY <1>1, <1>3, <1>4, <1>6, Zenon

-----------------------------------------------------------------------------
(* A request from its first packet to its last answer, as long as no       *)
(* request of the session has ended with an error.  Where a request stands *)
(* is told by pc: what is left to send, what has arrived, what has been    *)
(* reported and what is on the wire are all cuts of the same file.         *)

Live == session.status # "broken"
Runs == Seq(Cells)

\* PUT: what the device has got, and what has been reported, before a packet.
PutBefore(first, g, p, nm, r, n, m) ==
  IF first THEN \A i \in DOMAIN g : g[i][2] # r
  ELSE g = Cut(r, 0, m) /\ (nm = "file" => p = Report(r, m, n))
PutReady(q, g, p, nm, r, n) ==
  \/ /\ q = <<NameH(r, n), LenH(n), BodyH(r, 0, n)>>
     /\ PutBefore(TRUE, g, p, nm, r, n, 0)
  \/ \E m \in 0 .. n : q = <<BodyH(r, m, n)>> /\ PutBefore(FALSE, g, p, nm, r, n, m)
PutPart(d, q, g, p, nm, r, n) ==
  /\ PutBefore(TRUE, g, p, nm, r, n, 0)
  /\ \/ d = NameBuf(r, n) /\ q = <<LenH(n), BodyH(r, 0, n)>>
     \/ d = NameBuf(r, n) \o LenBuf(n) /\ q = <<BodyH(r, 0, n)>>
PutFull(d, q, g, p, nm, r, n) ==
  \E first \in BOOLEAN : \E m, k \in 0 .. n :
    PutLoad(d, q, r, n, first, m, k) /\ PutBefore(first, g, p, nm, r, n, m)
PutSent(d, q, g, p, nm, r, n) ==
  \E first \in BOOLEAN : \E m, k \in 0 .. n :
    /\ PutLoad(d, q, r, n, first, m, k) /\ g = Cut(r, 0, k)
    /\ ~first /\ nm = "file" => p = Report(r, m, n)

\* GET: nothing received yet, or the length and the first m bytes.
GetFresh(sn, rb) == sn = {} /\ rb = <<>>
GetHalf(sn, rb, hi, r, n, m) ==
  /\ "BODY" \notin sn /\ "LENGTH" \in sn /\ hi = n
  /\ IF rb = <<>> THEN m = 0 ELSE rb[1].data = Cut(r, 0, m)
GetSplit(sn, rb, hi, o, r, n) ==
  \E m \in 0 .. n : GetHalf(sn, rb, hi, r, n, m) /\ o = Cut(r, m, n)
GetFull(d, sn, rb, hi, o, p, nm, r, n) ==
  \/ d = NameBuf(r, n) /\ GetFresh(sn, rb)
  \/ d = <<>> /\ (nm = "file" => p.name = r) /\ GetSplit(sn, rb, hi, o, r, n)
GetReady(q, sn, rb, hi, o, p, nm, r, n) ==
  \/ q = <<NameH(r, n)>> /\ GetFresh(sn, rb)
  \/ q = <<>> /\ GetFull(<<>>, sn, rb, hi, o, p, nm, r, n)

\* The headers of an answer to a GET, and what they leave behind.
GetFront(front, sn, rb, hi, r, n, m) ==
  \/ front = LenBuf(n) /\ m = 0 /\ GetFresh(sn, rb)
  \/ front = <<>> /\ GetHalf(sn, rb, hi, r, n, m)
GetCells(code, cells, sn, rb, hi, o, r, n) ==
  \E m, k \in 0 .. n : \E front \in {<<>>, LenBuf(n)} :
    /\ m <= k /\ o = Cut(r, k, n) /\ GetFront(front, sn, rb, hi, r, n, m)
    /\ code \in {"CONTINUE", "SUCCESS"} /\ (code = "SUCCESS" => k = n)
    /\ cells = front \o Stream(BodyName(code = "SUCCESS"), Cut(r, m, k))
GetDone(code, sn, rb, hi, bd, o, r, n) ==
  \/ code = "CONTINUE" /\ GetSplit(sn, rb, hi, o, r, n)
  \/ code = "SUCCESS" /\ "BODY" \in sn /\ "LENGTH" \in sn /\ hi = n /\ bd = Cut(r, 0, n)

\* The transfers of an answer: number and response apart or together, empty
\* ones before them or between.
Carries(w, s, x) ==
  \/ w = <<<<s>> \o x>>
  \/ w = <<<<s>>, <<>>, x>>
  \/ \E k \in 0 .. Len(w) :
       /\ Len(w) = k + 2 /\ w[k + 1] = <<s>> /\ w[k + 2] = x
       /\ \A i \in 1 .. k : w[i] = <<>>

\* The requests that move no file.
Plain == {"CONNECT", "SETPATH", "DISCONNECT"}

\* What a request has left to send, what a packet is loaded with, and what has
\* been sent and answered.
MaySend ==
  \/ object.cmd \in Plain
  \/ /\ object.cmd = "PUT"
     /\ PutReady(object.txq, device.got, progress, object.name, session.requests, Len(file))
  \/ /\ object.cmd = "GET"
     /\ GetReady(object.txq, object.seen, object.rx_body, object.hinted, device.out,
                 progress, object.name, session.requests, Len(file))

LoadedWith(d) ==
  \/ object.cmd \in Plain
  \/ /\ object.cmd = "PUT"
     /\ PutFull(d, object.txq, device.got, progress, object.name, session.requests, Len(file))
  \/ /\ object.cmd = "GET" /\ object.txq = <<>>
     /\ GetFull(d, object.seen, object.rx_body, object.hinted, device.out,
                progress, object.name, session.requests, Len(file))

SentWith(d) ==
  \/ object.cmd \in Plain
  \/ /\ object.cmd = "PUT"
     /\ PutSent(d, object.txq, device.got, progress, object.name, session.requests, Len(file))
  \/ /\ object.cmd = "GET" /\ object.txq = <<>>
     /\ GetSent(d, progress, object.name, session.requests, Len(file))

\* The response the device gives to the packet.
Expects(code, cells) ==
  \/ code = "FORBIDDEN" /\ cells = <<>>
  \/ /\ object.cmd \in Plain /\ code = "SUCCESS"
     /\ cells = IF object.cmd = "CONNECT" THEN Pads(8) ELSE <<>>
  \/ /\ object.cmd = "PUT" /\ cells = <<>>
     /\ code = IF object.txq = <<>> THEN "SUCCESS" ELSE "CONTINUE"
  \/ /\ object.cmd = "GET"
     /\ GetCells(code, cells, object.seen, object.rx_body, object.hinted, device.out,
                 session.requests, Len(file))

\* The bytes the packet under way starts with, and the packet.
Opened == Opening(send.seq, session.packets, object.cmd, object.txq = <<>>)
Sent == \E d \in Runs : self.tx_msg.data = Opened \o d /\ SentWith(d)
Silent == device.inbox = <<>> /\ device.wire = <<>>

\* What holds at each place of obex_request.
AtIdle == /\ Silent /\ self.rx_msg.data = <<>>
          /\ session.status \in {"new", "success", "refused"} /\ ProgressMatches
AtFill ==
  \/ object.cmd \in Plain
  \/ send.addmore /\ self.tx_msg.data = <<>> /\ MaySend
  \/ /\ send.addmore /\ object.cmd = "PUT"
     /\ PutPart(self.tx_msg.data, object.txq, device.got, progress, object.name,
                session.requests, Len(file))
  \/ (~send.addmore \/ object.txq = <<>>) /\ LoadedWith(self.tx_msg.data)
AtVerify ==
  /\ self.rx_msg.data = <<>>
  /\ \/ Silent /\ device.gone
     \/ /\ device.inbox = <<self.tx_msg.data>> /\ device.wire = <<>>
        /\ \E d \in Runs : self.tx_msg.data = Opened \o d /\ LoadedWith(d)
     \/ /\ device.inbox = <<>> /\ Sent
        /\ \E code \in Codes : \E cells \in Runs :
             /\ Expects(code, cells)
             /\ Carries(device.wire, <<"seq", send.seq, session.packets>>,
                        Reply(code, session.packets, cells))
AtRead ==
  /\ device.inbox = <<>> /\ Sent
  /\ \E code \in Codes : \E cells \in Runs :
       /\ Expects(code, cells)
       /\ \E rest \in Runs :
            /\ self.rx_msg.data \o rest = Reply(code, session.packets, cells)
            /\ \/ rest # <<>> /\ device.wire \in {<<rest>>, <<<<>>, rest>>}
               \/ device.wire = <<>> /\ (rest = <<>> \/ device.gone)

Replied ==
  /\ Silent /\ Sent /\ session.reply = session.packets /\ rsp \in Codes
Finished ==
  /\ self.rx_msg.data = <<>>
  /\ \/ rsp = "FORBIDDEN"
     \/ object.cmd \in Plain /\ rsp = "SUCCESS"
     \/ object.cmd = "PUT" /\ rsp = IF object.txq = <<>> THEN "SUCCESS" ELSE "CONTINUE"
     \/ /\ object.cmd = "GET"
        /\ GetDone(rsp, object.seen, object.rx_body, object.hinted, object.body,
                   device.out, session.requests, Len(file))
Parses ==
  /\ object.cmd = "GET"
  /\ GetCells(rsp, self.rx_msg.data, object.seen, object.rx_body, object.hinted,
              device.out, session.requests, Len(file))

\* The file of the request, and what the device has got.
FileInv ==
  /\ file = Cut(session.requests, 0, Len(file)) /\ Len(file) \in Nat
  /\ object.cmd \in Plain => file = <<>> /\ object.name # "file"
  /\ device.got \in Seq(Cells)
  /\ \A i \in DOMAIN device.got : device.got[i][2] \in 0 .. session.requests
StageInv ==
  /\ pc = "idle" => AtIdle
  /\ pc = "end" => Silent
  /\ pc \notin {"idle", "end"} => session.status = "busy" /\ session.requests > 0
  /\ pc = "send" => Silent /\ self.rx_msg.data = <<>> /\ MaySend
  /\ pc = "fill" => Silent /\ self.rx_msg.data = <<>> /\ AtFill
  /\ pc = "verify" => AtVerify
  /\ pc = "read" => AtRead
  /\ pc = "parse" => Replied /\ (Finished \/ Parses)
  /\ pc = "callback" => Silent /\ ((rsp = "error" /\ device.gone) \/ (Replied /\ Finished))
LiveInv == Live => FileInv /\ StageInv

\* The places of obex_request.
Places == {"idle", "send", "fill", "verify", "read", "parse", "callback", "end"}

\* The fields of the records.
ShapeInv ==
  /\ pc \in Places
  /\ DOMAIN device = {"inbox", "got", "out", "wire", "gone"}
  /\ DOMAIN session = {"requests", "packets", "status", "faults", "empties",
                       "own", "reply", "collided"}
  /\ DOMAIN progress = {"name", "length", "transferred"}

-----------------------------------------------------------------------------
(* What the buffers hold.                                                  *)

\* A transfer read into rx_msg comes behind what is there.
LEMMA LandedData ==
  ASSUME SelfOK, NEW bytes \in Seq(Cells), Len(bytes) <= DefaultMtu
  PROVE  Landed(bytes).data = self.rx_msg.data \o bytes
<1> DEFINE rx == self.rx_msg
           free == DefaultMtu - Len(bytes)
           junk == Junk(free)
           all == bytes \o junk
           b == buf_insert_end(rx, all)
           x == rx.data \o bytes
<1>1. rx \in RxBuffers /\ self.mtu_rx = DefaultMtu
  BY SelfFields
<1>2. GoodBuffer(rx, Cells)
  BY <1>1 DEF RxBuffers, SoundBuffers, GoodBuffer
<1>3. Len(bytes) \in Nat /\ free \in Nat
  BY ObexAssumption
<1>4. junk \in Seq(Cells) /\ Len(junk) = free
  BY <1>3, Fillers
<1>5. Landed(bytes) = buf_remove_end(b, free)
  BY <1>1, Zenon DEF Landed
<1> HIDE DEF junk
<1>6. all \in Seq(Cells)
  BY <1>4
<1>7. GoodBuffer(b, Cells) /\ b.data = rx.data \o all
  BY <1>2, <1>6, InsertEnd, Zenon
<1>8. rx.data \in Seq(Cells)
  BY <1>2 DEF GoodBuffer, Buffers
<1>9. b.data = x \o junk
  <2> DEFINE y == rx.data
  <2>1. y \in Seq(Cells) /\ junk \in Seq(Cells)
    BY <1>4, <1>8
  <2> HIDE DEF y
  <2>2. (y \o bytes) \o junk = y \o (bytes \o junk)
    BY <2>1, ConcatAssociative
  <2>3. QED
    BY <2>2, <1>7, Zenon DEF y
<1>10. x \in Seq(Cells)
  BY <1>8
<1> HIDE DEF rx, all, b, x, free
<1>11. Len(x \o junk) = Len(x) + Len(junk) /\ Len(x) \in Nat
  <2>1. x \in Seq(Cells) /\ junk \in Seq(Cells)
    BY <1>4, <1>10
  <2>2. QED
    BY <2>1, ConcatProperties
<1>12. free <= Len(b.data) /\ Len(b.data) - free = Len(x)
  BY <1>3, <1>4, <1>9, <1>11
<1>13. buf_remove_end(b, free).data = SubSeq(b.data, 1, Len(b.data) - free)
  BY <1>3, <1>7, <1>12, RemoveEnd
<1>14. SubSeq(x \o junk, 1, Len(x)) = x
  BY <1>4, <1>10, DropFront
<1>15. QED
  BY <1>5, <1>9, <1>12, <1>13, <1>14, Zenon DEF x, rx

\* What is left behind bytes that are taken off the front.
LEMMA RemovedData ==
  ASSUME NEW b \in SoundBuffers, NEW x \in Seq(Cells), NEW y \in Seq(Cells),
         b.data = x \o y
  PROVE  buf_remove_begin(b, Len(x)).data = y
<1> DEFINE k == IF Len(x) < Len(b.data) THEN Len(x) ELSE Len(b.data)
           n == Len(x)
           dd == SubSeq(b.data, n + 1, Len(b.data))
<1>1. Len(b.data) = Len(x) + Len(y) /\ Len(x) \in Nat /\ Len(y) \in Nat
  BY ConcatAt
<1>2. k = n
  BY <1>1
<1>3. buf_remove_begin(b, n) = [b EXCEPT !.head = b.head + k,
                                  !.data = SubSeq(b.data, k + 1, Len(b.data))]
  BY Zenon DEF buf_remove_begin, Removed
<1>4. dd = y
  <2>1. SubSeq(x \o y, Len(x) + 1, Len(x \o y)) = y
    BY DropFront
  <2>2. QED
    BY <2>1, Zenon
<1> HIDE DEF k, dd
<1>5. buf_remove_begin(b, n).data = dd
  <2>1. buf_remove_begin(b, n) = [b EXCEPT !.head = b.head + k, !.data = dd]
    BY <1>2, <1>3, Zenon DEF dd
  <2>2. "data" \in DOMAIN b
    BY DEF SoundBuffers, Buffers
  <2>3. QED
    BY <2>1, <2>2, Zenon
<1>6. QED
  BY <1>4, <1>5, Zenon

\* Nothing is left when more is taken off than there is.
LEMMA RemovedAll ==
  ASSUME NEW b \in SoundBuffers, b.data = <<>>, NEW n \in Nat
  PROVE  buf_remove_begin(b, n).data = <<>>
<1>1. Len(b.data) = 0
  BY EmptySeq
<1>2. Removed(b, n) = 0
  BY <1>1 DEF Removed
<1>3. SubSeq(b.data, 0 + 1, Len(b.data)) = <<>>
  BY <1>1, SubSeqEmpty
<1> DEFINE none == <<>>
<1> HIDE DEF none
<1>4. buf_remove_begin(b, n) = [b EXCEPT !.head = b.head + 0, !.data = none]
  BY <1>2, <1>3, Zenon DEF buf_remove_begin, none
<1>5. "data" \in DOMAIN b
  BY DEF SoundBuffers, Buffers
<1>6. buf_remove_begin(b, n).data = none
  BY <1>4, <1>5, Zenon
<1>7. QED
  BY <1>6 DEF none

\* One read takes the front of a transfer x, or all of it.
Splits(x, w) ==
  \E y \in Seq(Cells) :
    /\ x = Take \o y /\ Take \in Seq(Cells) /\ Len(Take) <= DefaultMtu
    /\ x # <<>> => Take # <<>>
    /\ IF y = <<>> THEN Rest = w ELSE Rest = <<y>> \o w

\* What a read leaves of a transfer is what the next one finds.
LEMMA TakeRest ==
  ASSUME SelfOK, DeviceOK, device.wire # <<>>
  PROVE  Splits(Head(device.wire), Tail(device.wire))
<1> DEFINE w == device.wire
           h == Head(w)
           n == IF Len(h) < DefaultMtu THEN Len(h) ELSE DefaultMtu
           y == SubSeq(h, n + 1, Len(h))
<1>1. self.mtu_rx = DefaultMtu /\ DefaultMtu \in Nat /\ DefaultMtu >= 11
  BY SelfFields, ObexAssumption
<1>2. h \in Seq(Cells) /\ Tail(w) \in Seq(Seq(Cells))
  BY DEF DeviceOK
<1>3. Take = SubSeq(h, 1, n)
  BY <1>1, Zenon DEF Take
<1>4. /\ Len(h) > DefaultMtu =>
           Rest = <<SubSeq(h, DefaultMtu + 1, Len(h))>> \o Tail(w)
      /\ ~(Len(h) > DefaultMtu) => Rest = Tail(w)
  BY <1>1, Zenon DEF Rest
<1>5. Take \in Seq(Cells) /\ Len(Take) <= DefaultMtu
  BY TakeFits
<1> HIDE DEF w, h
<1>6. Len(h) \in Nat
  BY <1>2
<1>7. n \in Nat /\ n <= Len(h) /\ n \in 0 .. Len(h)
  BY <1>1, <1>6
<1>8. y \in Seq(Cells) /\ Len(y) = Len(h) - n
  BY <1>2, <1>7, CutFront
<1>9. h = SubSeq(h, 1, n) \o y
  <2> HIDE DEF n
  <2>1. 1 \in 1 .. Len(h) + 1 /\ n \in 1 - 1 .. Len(h) /\ Len(h) \in n .. Len(h)
    BY <1>6, <1>7
  <2>2. SubSeq(h, 1, n) \o SubSeq(h, n + 1, Len(h)) = SubSeq(h, 1, Len(h))
    BY <2>1, <1>2, ConcatAdjacentSubSeq
  <2>3. SubSeq(h, 1, Len(h)) = h
    BY <1>2, SubSeqFull
  <2>4. QED
    BY <2>2, <2>3
<1>10. h # <<>> => Take # <<>>
  <2>1. SUFFICES ASSUME h # <<>>, Take = <<>> PROVE FALSE
    OBVIOUS
  <2>2. Len(h) # 0 /\ n # 0
    BY <2>1, <1>1, <1>2, <1>6, EmptySeq
  <2>3. Len(SubSeq(h, 1, n)) = n
    BY <1>2, <1>7, SubSeqProperties
  <2>4. QED
    BY <2>1, <2>2, <2>3, <1>3, EmptySeq
<1>11. CASE Len(h) > DefaultMtu
  <2>1. n = DefaultMtu /\ Len(y) # 0
    <3> HIDE DEF y
    <3>1. QED
      BY <1>11, <1>1, <1>6, <1>8
  <2>2. y # <<>>
    BY <2>1, <1>8, EmptySeq
  <2>3. Rest = <<y>> \o Tail(w)
    BY <2>1, <1>4, <1>11, Zenon
  <2> HIDE DEF n, y
  <2>4. QED
    BY <2>2, <2>3, <1>3, <1>5, <1>8, <1>9, <1>10, Zenon DEF Splits, w, h
<1>12. CASE ~(Len(h) > DefaultMtu)
  <2>1. n = Len(h) /\ Len(y) = 0
    <3> HIDE DEF y
    <3>1. QED
      BY <1>12, <1>1, <1>6, <1>8
  <2>2. y = <<>>
    BY <2>1, <1>8, EmptySeq
  <2>3. Rest = Tail(w)
    BY <1>4, <1>12, Zenon
  <2> HIDE DEF n, y
  <2>4. QED
    BY <2>2, <2>3, <1>3, <1>5, <1>8, <1>9, <1>10, Zenon DEF Splits, w, h
<1>13. QED
  BY <1>11, <1>12

\* The cells of a response.
ReplyIs(x, code, id, cells) ==
  /\ x \in Seq(Cells) /\ Len(x) = 3 + Len(cells) /\ Len(cells) \in Nat
  /\ x[1] = <<"rsp", code, id>> /\ x[2] = <<"len", 3 + Len(cells)>>
  /\ x[3] = <<"len">>
  /\ \E front \in Seq(Cells) : Len(front) = 3 /\ x = front \o cells

\* A response starts with its code and its length.
LEMMA ReplyOf ==
  ASSUME NEW code \in Words, NEW id \in Nat, NEW cells \in Seq(Cells)
  PROVE  ReplyIs(Reply(code, id, cells), code, id, cells)
<1> DEFINE a == <<"rsp", code, id>>
           b == <<"len", 3 + Len(cells)>>
           c == <<"len">>
           front == <<a, b, c>>
<1>0. Len(cells) \in Nat
  BY LenProperties
<1>1. a \in Cells /\ b \in Cells /\ c \in Cells
  BY <1>0, NewCells
<1>2. Reply(code, id, cells) = front \o cells
  BY Zenon DEF Reply
<1> HIDE DEF a, b, c
<1>3. front \in Seq(Cells) /\ Len(front) = 3 /\ front[1] = a /\ front[2] = b /\ front[3] = c
  BY <1>1
<1> HIDE DEF front
<1> DEFINE x == front \o cells
<1>4. /\ x \in Seq(Cells) /\ Len(x) = Len(front) + Len(cells)
      /\ \A i \in 1 .. Len(front) : x[i] = front[i]
  <2>1. front \in Seq(Cells)
    BY <1>3
  <2>2. QED
    BY <2>1, ConcatAt
<1>5. x[1] = a /\ x[2] = b /\ x[3] = c /\ Len(x) = 3 + Len(cells)
  <2> HIDE DEF x
  <2>1. QED
    BY <1>3, <1>4
<1>6. QED
  BY <1>0, <1>2, <1>3, <1>4, <1>5, Zenon DEF ReplyIs, a, b, c

\* The loop of obex_object_receive stops where the response is whole.
LEMMA WholeIs ==
  ASSUME SelfOK, NEW rest \in Seq(Cells), NEW code \in Words, NEW id \in Nat,
         NEW cells \in Seq(Cells),
         self.rx_msg.data \o rest = Reply(code, id, cells)
  PROVE  Whole <=> rest = <<>>
<1> DEFINE d == self.rx_msg.data
           x == Reply(code, id, cells)
<1>1. d \in Seq(Cells)
  BY SelfFields DEF RxBuffers, SoundBuffers, Buffers
<1>2. ReplyIs(x, code, id, cells)
  BY ReplyOf
<1> HIDE DEF d, x
<1>3. /\ d \o rest \in Seq(Cells) /\ Len(d \o rest) = Len(d) + Len(rest)
      /\ Len(d) \in Nat /\ Len(rest) \in Nat
      /\ \A i \in 1 .. Len(d) : (d \o rest)[i] = d[i]
  BY <1>1, ConcatAt
<1>4. x = d \o rest
  BY DEF x, d
<1>5. Len(cells) \in Nat /\ Len(d) + Len(rest) = 3 + Len(cells)
      /\ (d \o rest)[1] = <<"rsp", code, id>> /\ (d \o rest)[2] = <<"len", 3 + Len(cells)>>
  BY <1>2, <1>3, <1>4, Zenon DEF ReplyIs
<1>6. CASE Len(d) >= 3
  <2>1. d[1] = <<"rsp", code, id>> /\ d[2] = <<"len", 3 + Len(cells)>>
    BY <1>3, <1>5, <1>6
  <2>2. d[1][1] = "rsp" /\ d[2][2] = 3 + Len(cells)
    BY <2>1
  <2>3. LengthField(d) = 3 + Len(cells)
    BY <2>2, <1>6, Zenon DEF LengthField
  <2>4. d # <<>>
    BY <1>6, EmptySeq
  <2>5. Whole <=> 3 + Len(cells) = Len(d)
    BY <2>3, <2>4, Zenon DEF Whole, d
  <2>6. 3 + Len(cells) = Len(d) <=> Len(rest) = 0
    BY <1>3, <1>5
  <2>7. Len(rest) = 0 <=> rest = <<>>
    BY EmptySeq
  <2>8. QED
    BY <2>5, <2>6, <2>7
<1>7. CASE ~(Len(d) >= 3)
  <2>1. LengthField(d) = -1
    BY <1>7, Zenon DEF LengthField
  <2>2. ~Whole
    <3>1. Len(d) # -1
      BY <1>3
    <3>2. QED
      BY <2>1, <3>1, Zenon DEF Whole, d
  <2>3. rest # <<>>
    <3>1. Len(rest) # 0
      BY <1>3, <1>5, <1>7
    <3>2. QED
      BY <3>1, EmptySeq
  <2>4. QED
    BY <2>2, <2>3
<1>8. QED
  BY <1>6, <1>7

-----------------------------------------------------------------------------
(* A request starts.                                                       *)

\* What a new request for n bytes changes.
Starts(cmd, name, n) ==
  /\ pc = "idle" /\ pc' = "send" /\ session.requests < MaxRequests
  /\ self' = self /\ device' = device /\ progress' = progress
  /\ session'.requests = session.requests + 1
  /\ session'.status = IF session.status = "broken" THEN "broken" ELSE "busy"
  /\ file' = Cut(session.requests + 1, 0, n)
  /\ object'.cmd = cmd /\ object'.name = name
  /\ object'.txq = Headers(cmd, Cut(session.requests + 1, 0, n))
  /\ object'.seen = {} /\ object'.rx_body = <<>>

\* The fields of a new request.
LEMMA StartFields ==
  ASSUME SessionOK, ShapeInv, NEW cmd \in Commands, NEW name \in Words, NEW n \in Nat,
         StartRequest(cmd, name, Cut(session.requests + 1, 0, n))
  PROVE  Starts(cmd, name, n)
<1> DEFINE bytes == Cut(session.requests + 1, 0, n)
           q == Headers(cmd, bytes)
           k == obex_object_set_nonhdr_data(cmd)
           v == IF session.status = "broken" THEN "broken" ELSE "busy"
           c == session.requests + 1
<1>1. /\ object' = [obex_object_new(cmd, name) EXCEPT !.txq = Headers(cmd, bytes)]
      /\ pc = "idle" /\ pc' = "send" /\ session.requests < MaxRequests
      /\ self' = self /\ device' = device /\ progress' = progress /\ file' = bytes
      /\ session' = [session EXCEPT !.requests = c, !.status = v]
  BY Zenon DEF StartRequest, Ready
<1> HIDE DEF q, k, v, c, bytes
<1>2. object' = [[NoObject EXCEPT !.cmd = cmd, !.name = name, !.nonhdr = k]
               EXCEPT !.txq = q]
  BY <1>1, Zenon DEF obex_object_new, q, k
<1>3. /\ object'.cmd = cmd /\ object'.name = name /\ object'.txq = q
      /\ object'.seen = {} /\ object'.rx_body = <<>>
  <2> DEFINE none == {}
             empty == <<>>
             zero == 0
  <2>1. NoObject = [cmd |-> "NONE", name |-> "none", nonhdr |-> zero, txq |-> empty,
                    offset |-> zero, hinted |-> zero, rx_body |-> empty, body |-> empty,
                    seen |-> none]
    BY Zenon DEF NoObject
  <2> HIDE DEF none, empty, zero
  <2>2. object' = [cmd |-> cmd, name |-> name, nonhdr |-> k, txq |-> q, offset |-> zero,
                   hinted |-> zero, rx_body |-> empty, body |-> empty, seen |-> none]
    BY <1>2, <2>1
  <2>3. object'.cmd = cmd /\ object'.name = name /\ object'.txq = q
        /\ object'.seen = none /\ object'.rx_body = empty
    BY <2>2
  <2>4. QED
    BY <2>3, Zenon DEF none, empty
<1>4. session'.requests = c /\ session'.status = v
  BY <1>1, Zenon DEF ShapeInv
<1>5. QED
  BY <1>1, <1>3, <1>4, Zenon DEF Starts, q, v, c, bytes

\* The sizes of the files.
Sizes == {o[1] : o \in Objects} \cup {0}

\* Every request is one of these: only PUT and GET move a file.
LEMMA RequestForm ==
  ASSUME SessionOK, ShapeInv, Request
  PROVE  \E cmd \in Commands, name \in Words, n \in Nat :
           /\ Starts(cmd, name, n) /\ n \in Sizes
           /\ cmd \in Plain => n = 0 /\ name = "none"
<1> DEFINE c == session.requests + 1
<1>0. c \in Nat
  BY DEF SessionOK
<1>1. \A n \in Nat : Contents(n) = Cut(c, 0, n)
  BY <1>0, WholeFile, Zenon DEF Contents
<1>2. <<>> = Cut(c, 0, 0)
  BY <1>0, CutEmpty
<1>3. /\ "CONNECT" \in Commands /\ "PUT" \in Commands /\ "GET" \in Commands
      /\ "SETPATH" \in Commands /\ "DISCONNECT" \in Commands /\ "none" \in Words
      /\ "PUT" \notin Plain /\ "GET" \notin Plain
  BY DEF Commands, Plain, Words
<1>4. CASE exword_send_file \/ exword_get_file
  <2>1. PICK o \in Objects :
          \/ StartRequest("PUT", o[2], Contents(o[1]))
          \/ StartRequest("GET", o[2], Contents(o[1]))
    BY <1>4, Zenon DEF exword_send_file, exword_get_file
  <2>2. o[1] \in Nat /\ o[2] \in {"cmd", "file"}
    BY ObexAssumption
  <2>3. o[2] \in Words /\ o[1] \in Sizes
    BY <2>2, Zenon DEF Words, Sizes
  <2>4. Contents(o[1]) = Cut(c, 0, o[1])
    BY <2>2, <1>1, Zenon
  <2>5. \E cmd \in Commands : cmd \notin Plain /\ StartRequest(cmd, o[2], Cut(c, 0, o[1]))
    BY <2>1, <2>4, <1>3, Zenon
  <2>6. QED
    BY <2>2, <2>3, <2>5, StartFields, Zenon
<1>5. CASE exword_connect \/ exword_setpath \/ exword_disconnect
  <2>1. \E cmd \in Commands : StartRequest(cmd, "none", Cut(c, 0, 0))
    BY <1>2, <1>3, <1>5, Zenon DEF exword_connect, exword_setpath, exword_disconnect
  <2> DEFINE none == "none"
  <2>2. none \in Words
    BY <1>3
  <2> HIDE DEF none
  <2>3. PICK cmd \in Commands : StartRequest(cmd, none, Cut(c, 0, 0))
    BY <2>1 DEF none
  <2>4. 0 \in Nat /\ 0 \in Sizes
    BY DEF Sizes
  <2>5. Starts(cmd, none, 0)
    BY <2>2, <2>3, <2>4, StartFields
  <2>6. QED
    BY <2>2, <2>4, <2>5, Zenon DEF none
<1>6. QED
  BY <1>4, <1>5, Zenon DEF Request

-----------------------------------------------------------------------------
(* The records of the model keep their fields.                             *)

\* Init.
LEMMA ShapeStarts ==
  ASSUME Init
  PROVE  ShapeInv
  BY Zenon DEF Init, ShapeInv, Places

\* Every step keeps the fields of device, session and progress.
LEMMA ShapeKept ==
  ASSUME ShapeInv, [Next]_vars
  PROVE  ShapeInv'
<1>1. DOMAIN device' = DOMAIN device
  <2>1. CASE Request
    BY <2>1, Zenon DEF Request, exword_connect, exword_send_file, exword_get_file,
         exword_setpath, exword_disconnect, StartRequest
  <2>2. CASE obex_object_send
    BY <2>2, Zenon DEF obex_object_send, SendBegin, SendFragment, SendBodyEnd,
         SendHeader, SendPacket, Put
  <2>3. CASE obex_verify_seq \/ obex_object_receive
    BY <2>3, Zenon DEF obex_verify_seq, obex_object_receive, SeqEmpty, SeqMatches,
         SeqMismatch, SeqTimeout, Reads, obex_bulk_read, ReadTimeout, ReceiveHeader,
         ParseBody, ParseHeader, ParseDone
  <2>4. CASE RequestContinues \/ RequestReturns
    BY <2>4, Zenon DEF RequestContinues, RequestReturns
  <2>5. CASE DeviceAnswer
    BY <2>5, Zenon DEF DeviceAnswer
  <2>6. CASE Unplug
    BY <2>6, Zenon DEF Unplug
  <2>7. CASE UNCHANGED vars
    BY <2>7 DEF vars
  <2>8. QED
    BY <2>1, <2>2, <2>3, <2>4, <2>5, <2>6, <2>7 DEF Next, obex_request, Ended
<1>2. DOMAIN session' = DOMAIN session
  <2>1. ASSUME NEW n, Fail(n)
        PROVE  DOMAIN session' = DOMAIN session
    BY <2>1, Zenon DEF Fail
  <2>2. CASE Request
    BY <2>2, Zenon DEF Request, exword_connect, exword_send_file, exword_get_file,
         exword_setpath, exword_disconnect, StartRequest
  <2>3. CASE obex_object_send
    BY <2>1, <2>3, Zenon DEF obex_object_send, SendBegin, SendFragment, SendBodyEnd,
         SendHeader, SendPacket, Put
  <2>4. CASE obex_verify_seq
    BY <2>1, <2>4, Zenon DEF obex_verify_seq, SeqEmpty, SeqMatches, SeqMismatch, SeqTimeout
  <2>5. CASE obex_object_receive
    BY <2>5, Zenon DEF obex_object_receive, obex_bulk_read, ReadTimeout, ReceiveHeader,
         ParseBody, ParseHeader, ParseDone
  <2>6. CASE RequestContinues \/ RequestReturns
    BY <2>6, Zenon DEF RequestContinues, RequestReturns
  <2>7. CASE DeviceAnswer
    BY <2>7, Zenon DEF DeviceAnswer, Answers
  <2>8. CASE Unplug
    BY <2>8, Zenon DEF Unplug
  <2>9. CASE UNCHANGED vars
    BY <2>9 DEF vars
  <2>10. QED
    BY <2>2, <2>3, <2>4, <2>5, <2>6, <2>7, <2>8, <2>9 DEF Next, obex_request, Ended
<1>3. DOMAIN progress' = {"name", "length", "transferred"}
  <2>1. DOMAIN progress = {"name", "length", "transferred"}
    BY DEF ShapeInv
  <2>2. DOMAIN PutProgress = {"name", "length", "transferred"}
    <3> DEFINE h == HeaderAt(5)
               named == h[1] = "hdr" /\ h[2] = "NAME" /\ object.name = "file"
               p == IF named THEN [name |-> session.requests, transferred |-> 0,
                                   length |-> HeaderAt(5 + h[3])[4]]
                    ELSE progress
               b == IF named THEN HeaderAt(5 + h[3] + 5) ELSE h
    <3>1. DOMAIN p = {"name", "length", "transferred"}
      <4>1. \A x, y, z : DOMAIN [name |-> x, transferred |-> y, length |-> z]
                           = {"name", "length", "transferred"}
        OBVIOUS
      <4> HIDE DEF named, h
      <4>2. QED
        BY <4>1, <2>1, Zenon
    <3>2. PutProgress = IF b[1] = "hdr" /\ b[2] \in {"BODY", "BODY_END"}
                        THEN [p EXCEPT !.transferred = @ + (b[3] - 3)] ELSE p
      BY Zenon DEF PutProgress
    <3> HIDE DEF p, b
    <3>3. QED
      BY <3>1, <3>2, Zenon
  <2>3. DOMAIN GetProgress = {"name", "length", "transferred"}
    BY <2>1, Zenon DEF GetProgress
  <2>4. progress' \in {progress, PutProgress, GetProgress}
    <3>1. CASE Request
      BY <3>1, Zenon DEF Request, exword_connect, exword_send_file, exword_get_file,
           exword_setpath, exword_disconnect, StartRequest
    <3>2. CASE obex_object_send
      BY <3>2, Zenon DEF obex_object_send, SendBegin, SendFragment, SendBodyEnd,
           SendHeader, SendPacket, Put
    <3>3. CASE obex_verify_seq \/ obex_object_receive
      BY <3>3, Zenon DEF obex_verify_seq, obex_object_receive, SeqEmpty, SeqMatches,
           SeqMismatch, SeqTimeout, Reads, obex_bulk_read, ReadTimeout, ReceiveHeader,
           ParseBody, ParseHeader, ParseDone
    <3>4. CASE RequestContinues \/ RequestReturns
      <4>1. \/ progress' = PutProgress \/ progress' = GetProgress \/ progress' = progress
        BY <3>4, Zenon DEF RequestContinues, RequestReturns, exword_handle_callbacks
      <4>2. QED
        BY <4>1, Zenon
    <3>5. CASE DeviceAnswer
      BY <3>5, Zenon DEF DeviceAnswer
    <3>6. CASE Unplug
      BY <3>6, Zenon DEF Unplug
    <3>7. CASE UNCHANGED vars
      BY <3>7 DEF vars
    <3>8. QED
      BY <3>1, <3>2, <3>3, <3>4, <3>5, <3>6, <3>7 DEF Next, obex_request, Ended
  <2>5. QED
    BY <2>1, <2>2, <2>3, <2>4, Zenon
<1>4. pc' \in Places
  <2>0. pc \in Places
    BY DEF ShapeInv
  <2>1. ASSUME NEW n, Fail(n)
        PROVE  pc' \in Places
    BY <2>1, Zenon DEF Fail, Places
  <2>2. CASE Request
    BY <2>2, Zenon DEF Request, exword_connect, exword_send_file, exword_get_file,
         exword_setpath, exword_disconnect, StartRequest, Places
  <2>3. CASE obex_object_send
    BY <2>0, <2>1, <2>3, Zenon DEF obex_object_send, SendBegin, SendFragment, SendBodyEnd,
         SendHeader, SendPacket, Put, Places
  <2>4. CASE obex_verify_seq
    BY <2>0, <2>1, <2>4, Zenon DEF obex_verify_seq, SeqEmpty, SeqMatches, SeqMismatch,
         SeqTimeout, Places
  <2>5. CASE obex_object_receive
    BY <2>0, <2>5, Zenon DEF obex_object_receive, obex_bulk_read, ReadTimeout, ReceiveHeader,
         ParseBody, ParseHeader, ParseDone, Places
  <2>6. CASE RequestContinues \/ RequestReturns
    BY <2>6, Zenon DEF RequestContinues, RequestReturns, Places
  <2>7. CASE DeviceAnswer
    BY <2>0, <2>7, Zenon DEF DeviceAnswer
  <2>8. CASE Unplug
    BY <2>0, <2>8, Zenon DEF Unplug
  <2>9. CASE UNCHANGED vars
    BY <2>0, <2>9 DEF vars
  <2>10. QED
    BY <2>2, <2>3, <2>4, <2>5, <2>6, <2>7, <2>8, <2>9 DEF Next, obex_request, Ended
<1>5. QED
  BY <1>1, <1>2, <1>3, <1>4, Zenon DEF ShapeInv

-----------------------------------------------------------------------------
(* LiveInv, action by action.                                              *)

\* What a live session says at a place of obex_request.
LEMMA LiveFacts ==
  ASSUME LiveInv, Live
  PROVE  FileInv /\ StageInv
  BY DEF LiveInv

\* The file of the request stays the same.
LEMMA FileKept ==
  ASSUME FileInv, file' = file, session'.requests = session.requests,
         object'.cmd = object.cmd, object'.name = object.name, device'.got = device.got
  PROVE  FileInv'
  BY Zenon DEF FileInv

\* A request that fails breaks the session.
LEMMA FailDead ==
  ASSUME SessionOK, NEW n, Fail(n)
  PROVE  LiveInv'
  BY FailBreaks, Zenon DEF LiveInv, Live

\* A request starts with its whole file before it.
LEMMA StartLive ==
  ASSUME ObexInv, ShapeInv, LiveInv, Request
  PROVE  LiveInv'
<1> SUFFICES ASSUME Live'
             PROVE  FileInv' /\ StageInv'
  BY DEF LiveInv
<1>1. SessionOK
  BY DEF ObexInv
<1>2. PICK cmd \in Commands, name \in Words, n \in Nat :
        /\ Starts(cmd, name, n)
        /\ cmd \in Plain => n = 0 /\ name = "none"
  BY <1>1, RequestForm, Zenon
<1> DEFINE r == session.requests
           c == r + 1
<1>3. r \in Nat /\ c \in Nat
  BY <1>1 DEF SessionOK
<1>4. /\ pc = "idle" /\ pc' = "send"
      /\ self' = self /\ device' = device /\ progress' = progress
      /\ session'.requests = c
      /\ session'.status = IF session.status = "broken" THEN "broken" ELSE "busy"
      /\ file' = Cut(c, 0, n)
      /\ object'.cmd = cmd /\ object'.name = name
      /\ object'.txq = Headers(cmd, Cut(c, 0, n))
      /\ object'.seen = {} /\ object'.rx_body = <<>>
  BY <1>2, Zenon DEF Starts
<1>5. Live /\ session'.status = "busy"
  BY <1>4, Zenon DEF Live
<1>6. FileInv /\ AtIdle
  BY <1>4, <1>5, LiveFacts, Zenon DEF StageInv
<1>7. Len(file') = n /\ file' = Cut(c, 0, Len(file'))
  <2>1. Len(Cut(c, 0, n)) = n - 0
    <3>1. c \in Nat /\ 0 \in Nat /\ 0 <= n
      BY <1>3
    <3> HIDE DEF c
    <3>2. QED
      BY <3>1, CutIs, Zenon
  <2>2. n - 0 = n
    OBVIOUS
  <2>3. QED
    BY <2>1, <2>2, <1>4, Zenon
<1>8. \A i \in DOMAIN device.got : device.got[i][2] \in 0 .. c /\ device.got[i][2] # c
  <2>1. \A i \in DOMAIN device.got : device.got[i][2] \in 0 .. r
    BY <1>6, Zenon DEF FileInv
  <2>2. \A x \in 0 .. r : x \in 0 .. c /\ x # c
    BY <1>3
  <2> HIDE DEF c, r
  <2>3. QED
    BY <2>1, <2>2, Zenon
<1>9. c > 0
  BY <1>3
<1>10. cmd \in Plain => file' = <<>> /\ name # "file"
  <2>1. Cut(c, 0, 0) = <<>>
    BY <1>3, CutEmpty
  <2>2. QED
    BY <2>1, <1>2, <1>4, Zenon
<1>11. Headers("PUT", Cut(c, 0, n)) = <<NameH(c, n), LenH(n), BodyH(c, 0, n)>>
       /\ Headers("GET", Cut(c, 0, n)) = <<NameH(c, n)>>
  <2>1. Len(Cut(c, 0, n)) = n
    BY <1>4, <1>7, Zenon
  <2>2. /\ Headers("PUT", Cut(c, 0, n)) = <<NameHeader(n), LengthHeader(n), BodyHeader(Cut(c, 0, n))>>
        /\ Headers("GET", Cut(c, 0, n)) = <<NameHeader(n)>>
    BY <2>1, Zenon DEF Headers
  <2>3. /\ NameHeader(n) = NameH(c, n) /\ LengthHeader(n) = LenH(n)
        /\ BodyHeader(Cut(c, 0, n)) = BodyH(c, 0, n)
    BY Zenon DEF NameHeader, LengthHeader, BodyHeader, NameH, LenH, BodyH, NameBuf, LenBuf
  <2>4. QED
    BY <2>2, <2>3, Zenon
<1>12. cmd \in Plain \/ cmd = "PUT" \/ cmd = "GET"
  BY DEF Commands, Plain
<1> HIDE DEF c
<1>13. MaySend'
  <2>1. CASE cmd \in Plain
    BY <2>1, <1>4, Zenon DEF MaySend
  <2>2. CASE cmd = "PUT"
    <3>1. PutReady(object'.txq, device.got, progress, name, c, n)
      BY <2>2, <1>4, <1>8, <1>11, Zenon DEF PutReady, PutBefore
    <3>2. QED
      BY <3>1, <2>2, <1>4, <1>7, Zenon DEF MaySend
  <2>3. CASE cmd = "GET"
    <3>1. GetReady(object'.txq, object'.seen, object'.rx_body, object'.hinted, device.out,
                   progress, name, c, n)
      BY <2>3, <1>4, <1>11, Zenon DEF GetReady, GetFresh
    <3>2. QED
      BY <3>1, <2>3, <1>4, <1>7, Zenon DEF MaySend
  <2>4. QED
    BY <1>12, <2>1, <2>2, <2>3, Zenon
<1>14. FileInv'
  <2>1. Len(file') \in Nat
    BY <1>7
  <2>2. QED
    BY <2>1, <1>4, <1>6, <1>7, <1>8, <1>10, Zenon DEF FileInv
<1>15. StageInv'
  <2>1. Silent' /\ self'.rx_msg.data = <<>>
    BY <1>4, <1>6, Zenon DEF AtIdle, Silent
  <2>2. QED
    BY <2>1, <1>4, <1>5, <1>9, <1>13, Zenon DEF StageInv
<1>16. QED
  BY <1>14, <1>15

\* What is still to be sent only depends on these.
LEMMA MaySendKept ==
  ASSUME MaySend, file' = file, session'.requests = session.requests,
         device'.got = device.got, device'.out = device.out, progress' = progress,
         object'.cmd = object.cmd, object'.name = object.name, object'.txq = object.txq,
         object'.seen = object.seen, object'.rx_body = object.rx_body,
         object'.hinted = object.hinted
  PROVE  MaySend'
  BY Zenon DEF MaySend

\* obex_object_send begins with an empty packet.
LEMMA SendBeginLive ==
  ASSUME ObexInv, ShapeInv, LiveInv, SendBegin
  PROVE  LiveInv'
<1> SUFFICES ASSUME Live'
             PROVE  FileInv' /\ StageInv'
  BY DEF LiveInv
<1> DEFINE k == object.nonhdr
           t == buf_insert_end(buf_reuse(self.tx_msg), Pads(k))
<1>1. SelfOK /\ ObjectOK /\ SendOK /\ CommandOK
  BY DEF ObexInv
<1>2. /\ self' = [self EXCEPT !.tx_msg = t]
      /\ object' = [object EXCEPT !.nonhdr = 0]
      /\ send' = [send EXCEPT !.tx_left = self.mtu_tx - 4, !.addmore = TRUE]
      /\ pc = "send" /\ pc' = "fill" /\ session' = session /\ device' = device
      /\ progress' = progress /\ file' = file
  BY Zenon DEF SendBegin
<1>3. FileInv /\ StageInv
  BY <1>2, LiveFacts, Zenon DEF Live
<1>4. /\ session.status = "busy" /\ session.requests > 0
      /\ Silent /\ self.rx_msg.data = <<>> /\ MaySend
  BY <1>2, <1>3, Zenon DEF StageInv
<1>5. k \in Nat /\ k <= 7 /\ self.tx_msg \in SoundBuffers
  BY <1>1, ObjectFields, SelfFields
<1>6. buf_reuse(self.tx_msg) \in SoundBuffers /\ buf_reuse(self.tx_msg).data = <<>>
  BY <1>5, ReuseBuffer DEF SoundBuffers, GoodBuffer
<1>7. Pads(k) \in Seq(Cells) /\ Len(Pads(k)) = k
  BY <1>5, Fillers
<1>8. t \in SoundBuffers /\ Len(t.data) = Len(<<>>) + k
  BY <1>6, <1>7, TxInsert, Zenon
<1> HIDE DEF t
<1>9. k = 0 => t.data = <<>>
  <2>1. t.data \in Seq(Cells)
    BY <1>8 DEF SoundBuffers, Buffers
  <2>2. k = 0 => Len(t.data) = 0
    BY <1>8
  <2>3. QED
    BY <2>1, <2>2, EmptySeq
<1>10. self'.tx_msg = t /\ self'.rx_msg = self.rx_msg
  BY <1>1, <1>2, Zenon DEF SelfOK, Selves
<1>11. send'.addmore = TRUE
  BY <1>1, <1>2, Zenon DEF SendOK
<1>12. /\ object'.cmd = object.cmd /\ object'.name = object.name
       /\ object'.txq = object.txq /\ object'.seen = object.seen
       /\ object'.rx_body = object.rx_body /\ object'.hinted = object.hinted
  BY <1>1, <1>2, Zenon DEF ObjectOK, Wanted
<1>13. FileInv'
  BY <1>2, <1>3, <1>12, FileKept, Zenon
<1>14. MaySend'
  BY <1>2, <1>4, <1>12, MaySendKept, Zenon
<1>15. AtFill'
  <2>1. CASE object.cmd \in Plain
    BY <2>1, <1>12, Zenon DEF AtFill
  <2>2. CASE object.cmd \notin Plain
    <3>1. k = 0
      BY <2>2, <1>1, Zenon DEF CommandOK, Plain
    <3>2. QED
      BY <3>1, <1>9, <1>10, <1>11, <1>14, Zenon DEF AtFill
  <2>3. QED
    BY <2>1, <2>2
<1>16. Silent' /\ self'.rx_msg.data = <<>>
  BY <1>2, <1>4, <1>10, Zenon DEF Silent
<1>17. StageInv'
  BY <1>2, <1>4, <1>15, <1>16, Zenon DEF StageInv
<1>18. QED
  BY <1>13, <1>17

\* What a header or a fragment put in the packet changes.
Filled(cells, left, q) ==
  /\ pc = "fill" /\ pc' = "fill" /\ session' = session /\ device' = device
  /\ progress' = progress /\ file' = file
  /\ send.addmore /\ object.txq # <<>>
  /\ self'.tx_msg.data = self.tx_msg.data \o cells /\ self'.rx_msg = self.rx_msg
  /\ send'.addmore = (left # 0) /\ object'.txq = q
  /\ object'.cmd = object.cmd /\ object'.name = object.name
  /\ object'.seen = object.seen /\ object'.rx_body = object.rx_body
  /\ object'.hinted = object.hinted

\* The fields that Put changes.
LEMMA PutFields ==
  ASSUME ObexInv, Filling, NEW cells \in Seq(Cells), NEW left, NEW q, Put(cells, left, q)
  PROVE  Filled(cells, left, q)
<1> DEFINE t == buf_insert_end(self.tx_msg, cells)
           more == left # 0
<1>1. SelfOK /\ ObjectOK /\ SendOK
  BY DEF ObexInv
<1>2. /\ self' = [self EXCEPT !.tx_msg = t]
      /\ object' = [object EXCEPT !.txq = q]
      /\ send' = [send EXCEPT !.tx_left = left, !.addmore = more]
      /\ pc = "fill" /\ object.txq # <<>> /\ send.addmore
      /\ pc' = pc /\ session' = session /\ device' = device
      /\ progress' = progress /\ file' = file
  BY Zenon DEF Put, Filling
<1>3. self.tx_msg \in SoundBuffers
  BY <1>1, SelfFields
<1>4. GoodBuffer(self.tx_msg, Cells)
  BY <1>3 DEF SoundBuffers, GoodBuffer
<1>5. t.data = self.tx_msg.data \o cells
  BY <1>4, InsertEnd, Zenon
<1> HIDE DEF t, more
<1>6. self'.tx_msg = t /\ self'.rx_msg = self.rx_msg
  BY <1>1, <1>2, Zenon DEF SelfOK, Selves
<1>7. send'.addmore = more
  BY <1>1, <1>2, Zenon DEF SendOK
<1>8. /\ object'.cmd = object.cmd /\ object'.name = object.name /\ object'.txq = q
      /\ object'.seen = object.seen
      /\ object'.rx_body = object.rx_body /\ object'.hinted = object.hinted
  BY <1>1, <1>2, Zenon DEF ObjectOK, Wanted
<1>9. QED
  BY <1>2, <1>5, <1>6, <1>7, <1>8, Zenon DEF Filled, more

\* Only the packet and what is left to be sent change.
LEMMA FilledLive ==
  ASSUME LiveInv, NEW cells, NEW left, NEW q, Filled(cells, left, q),
         ASSUME Live, FileInv, StageInv PROVE AtFill'
  PROVE  LiveInv'
<1> SUFFICES ASSUME Live'
             PROVE  FileInv' /\ StageInv'
  BY DEF LiveInv
<1>1. /\ pc = "fill" /\ pc' = "fill" /\ session' = session /\ device' = device
      /\ progress' = progress /\ file' = file /\ self'.rx_msg = self.rx_msg
      /\ object'.cmd = object.cmd /\ object'.name = object.name
  BY Zenon DEF Filled
<1>2. Live
  BY <1>1, Zenon DEF Live
<1>3. FileInv /\ StageInv
  BY <1>2, LiveFacts, Zenon
<1>4. AtFill'
  BY <1>2, <1>3
<1>5. FileInv'
  BY <1>1, <1>3, FileKept, Zenon
<1>6. StageInv'
  BY <1>1, <1>3, <1>4, Zenon DEF StageInv, Silent
<1>7. QED
  BY <1>5, <1>6

\* Where a packet is being filled: an empty one, or the headers before a body.
LEMMA FillPlaces ==
  ASSUME StageInv, Filling
  PROVE  \/ object.cmd \in Plain
         \/ self.tx_msg.data = <<>> /\ MaySend
         \/ /\ object.cmd = "PUT"
            /\ PutPart(self.tx_msg.data, object.txq, device.got, progress, object.name,
                       session.requests, Len(file))
<1>1. pc = "fill" /\ send.addmore /\ object.txq # <<>>
  BY DEF Filling
<1>2. AtFill
  BY <1>1, Zenon DEF StageInv
<1>3. QED
  BY <1>1, <1>2, Zenon DEF AtFill

\* The front and the rest of a queue of headers.
LEMMA QueueHeads ==
  /\ \A a : Head(<<a>>) = a /\ Tail(<<a>>) = <<>>
  /\ \A a, b : Head(<<a, b>>) = a /\ Tail(<<a, b>>) = <<b>>
  /\ \A a, b, c : Head(<<a, b, c>>) = a /\ Tail(<<a, b, c>>) = <<b, c>>
  OBVIOUS

\* Which header a queue starts with.
LEMMA HeadKinds ==
  /\ \A r, n : NameH(r, n).hi = "NAME" /\ NameH(r, n).buf = NameBuf(r, n)
  /\ \A n : LenH(n).hi = "LENGTH" /\ LenH(n).buf = LenBuf(n)
  /\ \A r, k, n : BodyH(r, k, n).hi = "BODY" /\ BodyH(r, k, n).buf = Cut(r, k, n)
  BY Zenon DEF NameH, LenH, BodyH

\* A body is about to go into the packet, behind the headers of a new file.
BodyDue(first, m) ==
  /\ object.cmd = "PUT" /\ m \in 0 .. Len(file) /\ (first => m = 0)
  /\ object.txq = <<BodyH(session.requests, m, Len(file))>>
  /\ self.tx_msg.data = PutFront(session.requests, Len(file), first)
  /\ PutBefore(first, device.got, progress, object.name, session.requests, Len(file), m)

\* The body comes first, or right behind NAME and LENGTH.
LEMMA BodyPlace ==
  ASSUME FileInv, StageInv, Filling, Head(object.txq).hi = "BODY",
         object.cmd \notin Plain
  PROVE  \E first \in BOOLEAN, m \in 0 .. Len(file) : BodyDue(first, m)
<1> DEFINE r == session.requests
           n == Len(file)
           g == device.got
           nm == object.name
           yes == TRUE
           no == FALSE
<1>0. n \in Nat /\ 0 \in 0 .. n
  BY DEF FileInv
<1>1. \A k : /\ Head(<<NameH(r, n), LenH(n), BodyH(r, k, n)>>).hi = "NAME"
             /\ Head(<<NameH(r, n)>>).hi = "NAME"
             /\ Head(<<LenH(n), BodyH(r, k, n)>>).hi = "LENGTH"
  <2>1. \A k : /\ Head(<<NameH(r, n), LenH(n), BodyH(r, k, n)>>) = NameH(r, n)
               /\ Head(<<NameH(r, n)>>) = NameH(r, n)
               /\ Head(<<LenH(n), BodyH(r, k, n)>>) = LenH(n)
    BY QueueHeads
  <2>2. QED
    BY <2>1, HeadKinds, Zenon
<1>2. \/ self.tx_msg.data = <<>> /\ MaySend
      \/ /\ object.cmd = "PUT"
         /\ PutPart(self.tx_msg.data, object.txq, g, progress, nm, r, n)
  BY FillPlaces, Zenon
<1>3. object.txq # <<>>
  BY DEF Filling
<1>4. CASE self.tx_msg.data = <<>> /\ MaySend
  <2>1. object.cmd = "PUT" /\ PutReady(object.txq, g, progress, nm, r, n)
    <3>1. CASE object.cmd = "GET"
      <4>1. object.txq = <<NameH(r, n)>>
        BY <1>3, <1>4, <3>1, Zenon DEF MaySend, GetReady
      <4>2. QED
        BY <4>1, <1>1, Zenon
    <3>2. QED
      BY <3>1, <1>4, Zenon DEF MaySend
  <2>2. PICK m \in 0 .. n : object.txq = <<BodyH(r, m, n)>>
          /\ PutBefore(FALSE, g, progress, nm, r, n, m)
    BY <2>1, <1>1, Zenon DEF PutReady
  <2>3. PutFront(r, n, no) = <<>>
    BY Zenon DEF PutFront
  <2>4. no \in BOOLEAN /\ ~no
    OBVIOUS
  <2>5. PutBefore(no, g, progress, nm, r, n, m)
    BY <2>2
  <2> HIDE DEF no
  <2>6. BodyDue(no, m)
    BY <1>4, <2>1, <2>2, <2>3, <2>4, <2>5, Zenon DEF BodyDue
  <2>7. QED
    BY <2>4, <2>6, Zenon
<1>5. CASE object.cmd = "PUT" /\ PutPart(self.tx_msg.data, object.txq, g, progress, nm, r, n)
  <2>1. /\ PutBefore(TRUE, g, progress, nm, r, n, 0)
        /\ self.tx_msg.data = NameBuf(r, n) \o LenBuf(n)
        /\ object.txq = <<BodyH(r, 0, n)>>
    BY <1>1, <1>5, Zenon DEF PutPart
  <2>2. PutFront(r, n, yes) = NameBuf(r, n) \o LenBuf(n)
    BY Zenon DEF PutFront
  <2>3. yes \in BOOLEAN
    OBVIOUS
  <2>4. PutBefore(yes, g, progress, nm, r, n, 0)
    BY <2>1
  <2> HIDE DEF yes
  <2>5. BodyDue(yes, 0)
    BY <1>0, <1>5, <2>1, <2>2, <2>4, Zenon DEF BodyDue
  <2>6. QED
    BY <1>0, <2>3, <2>5, Zenon
<1>6. QED
  BY <1>2, <1>4, <1>5

\* send_body: the packet is full, or the body has ended.
LEMMA BodyLive ==
  ASSUME ObexInv, LiveInv, SendFragment \/ SendBodyEnd
  PROVE  LiveInv'
<1> DEFINE h == Head(object.txq)
           k0 == send.tx_left - 3
           c1 == Stream("BODY", SubSeq(h.buf, 1, k0))
           q1 == <<[h EXCEPT !.buf = SubSeq(h.buf, k0 + 1, Len(h.buf))]>>
                  \o Tail(object.txq)
           c2 == Stream("BODY_END", h.buf)
           left == send.tx_left - Len(h.buf)
           r == session.requests
           n == Len(file)
<1>1. /\ Filling /\ h.hi = "BODY"
      /\ \/ send.tx_left < Len(h.buf) + 3 /\ Put(c1, 0, q1)
         \/ send.tx_left >= Len(h.buf) + 3 /\ Put(c2, left, Tail(object.txq))
  BY Zenon DEF SendFragment, SendBodyEnd
<1>2. /\ object.txq \in Queues /\ send.tx_left \in Int /\ send.tx_left >= 3
      /\ object.txq # <<>>
  BY <1>1, FillingFacts, Zenon
<1>3. BodyQueue(object.txq) /\ h \in BodyHeaders /\ Tail(object.txq) = <<>>
  BY <1>1, <1>2, QueueParts, Zenon
<1>4. h.buf \in Seq(Cells)
  BY <1>3 DEF BodyHeaders
<1>5. Len(h.buf) \in Nat
  BY <1>4, LenProperties
<1>6. r \in Nat
  BY DEF ObexInv, SessionOK
<1>7. "BODY" \in Words /\ "BODY_END" \in Words
  BY SomeWords
<1>8. CASE send.tx_left < Len(h.buf) + 3 /\ Put(c1, 0, q1)
  <2>1. k0 \in Nat /\ k0 <= Len(h.buf)
    BY <1>2, <1>5, <1>8
  <2>2. SubSeq(h.buf, 1, k0) \in Seq(Cells)
    BY <2>1, <1>4, SubSeqProperties
  <2>3. c1 \in Seq(Cells)
    BY <2>2, <1>7, StreamIs, Zenon
  <2> HIDE DEF c1, q1, k0
  <2>4. Filled(c1, 0, q1)
    BY <2>3, <1>1, <1>8, PutFields
  <2>5. ASSUME Live, FileInv, StageInv
        PROVE  AtFill'
    <3>1. CASE object.cmd \in Plain
      BY <3>1, <2>4, Zenon DEF AtFill, Filled
    <3>2. CASE object.cmd \notin Plain
      <4>1. PICK first \in BOOLEAN, m \in 0 .. n : BodyDue(first, m)
        BY <1>1, <2>5, <3>2, BodyPlace, Zenon
      <4>2. /\ object.cmd = "PUT" /\ (first => m = 0)
            /\ object.txq = <<BodyH(r, m, n)>>
            /\ self.tx_msg.data = PutFront(r, n, first)
            /\ PutBefore(first, device.got, progress, object.name, r, n, m)
        BY <4>1, Zenon DEF BodyDue
      <4>3. n \in Nat /\ m \in Nat /\ m <= n
        BY <2>5 DEF FileInv
      <4>4. h = BodyH(r, m, n) /\ h.buf = Cut(r, m, n)
        BY <4>2, QueueHeads, HeadKinds, Zenon
      <4>5. Len(h.buf) = n - m
        <5> HIDE DEF n, r, h
        <5>1. Len(Cut(r, m, n)) = n - m
          BY <4>3, <1>6, CutIs, Zenon
        <5>2. QED
          BY <5>1, <4>4, Zenon
      <4>6. k0 <= n - m /\ m + k0 \in Nat /\ m + k0 <= n /\ m <= m + k0 /\ m + k0 \in 0 .. n
        BY <2>1, <4>3, <4>5
      <4> HIDE DEF n, r, h
      <4>7. /\ SubSeq(h.buf, 1, k0) = Cut(r, m, m + k0)
            /\ SubSeq(h.buf, k0 + 1, Len(h.buf)) = Cut(r, m + k0, n)
        <5>1. /\ SubSeq(Cut(r, m, n), 1, k0) = Cut(r, m, m + k0)
              /\ SubSeq(Cut(r, m, n), k0 + 1, n - m) = Cut(r, m + k0, n)
          <6>1. r \in Nat /\ m \in Nat /\ n \in Nat /\ m <= n /\ k0 \in Nat /\ k0 <= n - m
            BY <1>6, <2>1, <4>3, <4>6
          <6>2. CutAt(r, m, n, k0)
            BY <6>1, CutSplit, Zenon
          <6>3. QED
            BY <6>2, Zenon DEF CutAt, Zenon
        <5>2. h.buf = Cut(r, m, n) /\ Len(h.buf) = n - m
          BY <4>4, <4>5, Zenon
        <5> DEFINE b == h.buf
        <5>3. b = Cut(r, m, n) /\ Len(b) = n - m
          BY <5>2
        <5> HIDE DEF b
        <5>4. /\ SubSeq(b, 1, k0) = Cut(r, m, m + k0)
              /\ SubSeq(b, k0 + 1, Len(b)) = Cut(r, m + k0, n)
          BY <5>1, <5>3, Zenon
        <5>5. QED
          BY <5>4 DEF b
      <4> DEFINE k == m + k0
      <4>8. q1 = <<BodyH(r, k, n)>>
        <5>1. [h EXCEPT !.buf = Cut(r, k, n)] = BodyH(r, k, n)
          BY <4>4 DEF BodyH
        <5> DEFINE one == [h EXCEPT !.buf = Cut(r, k, n)]
        <5>2. q1 = <<one>> \o <<>>
          BY <4>7, <1>3, Zenon DEF q1
        <5> HIDE DEF one
        <5>3. <<one>> \o <<>> = <<one>>
          OBVIOUS
        <5>4. QED
          BY <5>1, <5>2, <5>3, Zenon DEF one
      <4>9. q1 # <<>>
        BY <4>8
      <4>10. c1 = Stream(BodyName(q1 = <<>>), Cut(r, m, k))
        BY <4>7, <4>9, Zenon DEF c1, BodyName
      <4> HIDE DEF k
      <4>11. PutLoad(self.tx_msg.data \o c1, q1, r, n, first, m, k)
        BY <4>2, <4>3, <4>6, <4>8, <4>9, <4>10, Zenon DEF PutLoad, k
      <4>12. k \in 0 .. n
        BY <4>6 DEF k
      <4>13. PutFull(self.tx_msg.data \o c1, q1, device.got, progress, object.name, r, n)
        BY <4>2, <4>11, <4>12, Zenon DEF PutFull
      <4>14. LoadedWith(self.tx_msg.data)'
        BY <4>2, <4>13, <2>4, Zenon DEF LoadedWith, Filled, r, n
      <4>15. ~send'.addmore
        BY <2>4, Zenon DEF Filled
      <4>16. QED
        BY <4>14, <4>15, Zenon DEF AtFill
    <3>3. QED
      BY <3>1, <3>2
  <2>6. QED
    BY <2>4, <2>5, FilledLive
<1>9. CASE send.tx_left >= Len(h.buf) + 3 /\ Put(c2, left, Tail(object.txq))
  <2>1. c2 \in Seq(Cells)
    BY <1>4, <1>7, StreamIs, Zenon
  <2> HIDE DEF c2, left
  <2> DEFINE q2 == <<>>
  <2>2. Put(c2, left, q2)
    BY <1>3, <1>9
  <2> HIDE DEF q2
  <2>3. Filled(c2, left, q2)
    BY <2>1, <2>2, <1>1, PutFields
  <2>4. ASSUME Live, FileInv, StageInv
        PROVE  AtFill'
    <3>1. CASE object.cmd \in Plain
      BY <3>1, <2>3, Zenon DEF AtFill, Filled
    <3>2. CASE object.cmd \notin Plain
      <4>1. PICK first \in BOOLEAN, m \in 0 .. n : BodyDue(first, m)
        BY <1>1, <2>4, <3>2, BodyPlace, Zenon
      <4>2. /\ object.cmd = "PUT" /\ (first => m = 0)
            /\ object.txq = <<BodyH(r, m, n)>>
            /\ self.tx_msg.data = PutFront(r, n, first)
            /\ PutBefore(first, device.got, progress, object.name, r, n, m)
        BY <4>1, Zenon DEF BodyDue
      <4>3. n \in Nat /\ m \in Nat /\ m <= n /\ n <= n /\ n \in 0 .. n
        BY <2>4 DEF FileInv
      <4>4. h.buf = Cut(r, m, n)
        BY <4>2, QueueHeads, HeadKinds, Zenon
      <4>5. c2 = Stream(BodyName(q2 = <<>>), Cut(r, m, n))
        BY <4>4, Zenon DEF c2, BodyName, q2
      <4> HIDE DEF n, r, h
      <4>6. PutLoad(self.tx_msg.data \o c2, q2, r, n, first, m, n)
        BY <4>2, <4>3, <4>5, Zenon DEF PutLoad, q2
      <4>7. PutFull(self.tx_msg.data \o c2, q2, device.got, progress, object.name, r, n)
        BY <4>2, <4>3, <4>6, Zenon DEF PutFull
      <4>8. LoadedWith(self.tx_msg.data)'
        BY <4>2, <4>7, <2>3, Zenon DEF LoadedWith, Filled, r, n
      <4>9. object'.txq = <<>>
        BY <2>3, Zenon DEF Filled, q2
      <4>10. QED
        BY <4>8, <4>9, Zenon DEF AtFill
    <3>3. QED
      BY <3>1, <3>2
  <2>5. QED
    BY <2>3, <2>4, FilledLive
<1>10. QED
  BY <1>1, <1>8, <1>9

\* obex_object_send: NAME, then LENGTH, go in front of the body.
LEMMA HeaderLive ==
  ASSUME ObexInv, LiveInv, SendHeader
  PROVE  LiveInv'
<1> DEFINE h == Head(object.txq)
           left == send.tx_left - Len(h.buf)
           q == Tail(object.txq)
           lh == Len(h.buf)
           r == session.requests
           n == Len(file)
           g == device.got
           nm == object.name
           d == self.tx_msg.data
<1>1. /\ Filling /\ h.hi # "BODY" /\ Put(h.buf, left, q)
  BY Zenon DEF SendHeader
<1>2. /\ object.txq \in Queues /\ object.txq # <<>> /\ send.tx_left \in Int
      /\ LengthQueue(object.txq) => send.tx_left >= 8
      /\ FullQueue(object.txq) => send.tx_left >= NameLen + 11
  BY <1>1, FillingFacts, Zenon
<1>3. \/ NameQueue(object.txq) /\ h \in NameHeaders /\ q = <<>>
      \/ FullQueue(object.txq) /\ h \in NameHeaders
      \/ LengthQueue(object.txq) /\ h \in LengthHeaders
  BY <1>1, <1>2, QueueParts, Zenon
<1>4. /\ h \in NameHeaders => h.buf \in Seq(Cells) /\ lh = 3 + NameLen
      /\ h \in LengthHeaders => h.buf \in Seq(Cells) /\ lh = 5
  BY DEF NameHeaders, LengthHeaders
<1>5. h.buf \in Seq(Cells)
  BY <1>3, <1>4, Zenon
<1>6. q = <<>> \/ left # 0
  <2>1. /\ FullQueue(object.txq) /\ lh = 3 + NameLen => left # 0
        /\ LengthQueue(object.txq) /\ lh = 5 => left # 0
    <3> DEFINE tl == send.tx_left
               full == FullQueue(object.txq)
               two == LengthQueue(object.txq)
    <3>1. left = tl - lh /\ NameLen \in Nat
      BY ObexAssumption
    <3>2. tl \in Int /\ (full => tl >= NameLen + 11) /\ (two => tl >= 8)
      BY <1>2, Zenon
    <3> HIDE DEF left, lh, tl, full, two
    <3>3. (full /\ lh = 3 + NameLen => left # 0) /\ (two /\ lh = 5 => left # 0)
      BY <3>1, <3>2
    <3>4. QED
      BY <3>3, Zenon DEF full, two
  <2>2. QED
    BY <2>1, <1>3, <1>4, Zenon
<1> HIDE DEF left
<1>7. Filled(h.buf, left, q)
  BY <1>1, <1>5, PutFields
<1>8. /\ session' = session /\ device' = device /\ progress' = progress /\ file' = file
      /\ self'.tx_msg.data = d \o h.buf
      /\ send'.addmore = (left # 0) /\ object'.txq = q
      /\ object'.cmd = object.cmd /\ object'.name = object.name
      /\ object'.seen = object.seen /\ object'.rx_body = object.rx_body
      /\ object'.hinted = object.hinted
  BY <1>7, Zenon DEF Filled
<1>9. ASSUME Live, FileInv, StageInv
      PROVE  AtFill'
  <2>1. \/ object.cmd \in Plain
        \/ d = <<>> /\ MaySend
        \/ object.cmd = "PUT" /\ PutPart(d, object.txq, g, progress, nm, r, n)
    BY <1>1, <1>9, FillPlaces, Zenon
  <2>2. r \in Nat /\ n \in Nat
    BY <1>9 DEF ObexInv, SessionOK, FileInv
  <2>3. NameBuf(r, n) \in Seq(Cells)
    BY <2>2, NameIs, Zenon
  <2>4. <<>> \o NameBuf(r, n) = NameBuf(r, n)
    <3> DEFINE x == NameBuf(r, n)
    <3>1. x \in Seq(Cells)
      BY <2>3
    <3> HIDE DEF x
    <3>2. <<>> \o x = x
      BY <3>1
    <3>3. QED
      BY <3>2 DEF x
  <2> HIDE DEF d, n, r
  <2>5. CASE object.cmd \in Plain
    BY <2>5, <1>8, Zenon DEF AtFill
  <2>6. CASE d = <<>> /\ MaySend /\ object.cmd = "PUT"
    <3>1. PutReady(object.txq, g, progress, nm, r, n)
      BY <2>6, Zenon DEF MaySend, Plain, r, n
    <3>2. \A m : object.txq = <<BodyH(r, m, n)>> => h.hi = "BODY"
      <4>1. \A m : Head(<<BodyH(r, m, n)>>) = BodyH(r, m, n)
        BY QueueHeads
      <4>2. QED
        BY <4>1, HeadKinds, Zenon
    <3>3. /\ object.txq = <<NameH(r, n), LenH(n), BodyH(r, 0, n)>>
          /\ PutBefore(TRUE, g, progress, nm, r, n, 0)
      BY <3>1, <3>2, <1>1, Zenon DEF PutReady
    <3>4. h = NameH(r, n) /\ q = <<LenH(n), BodyH(r, 0, n)>>
      BY <3>3, QueueHeads
    <3>5. h.buf = NameBuf(r, n)
      BY <3>4, HeadKinds, Zenon
    <3>6. left # 0
      BY <3>4, <1>6
    <3>7. self'.tx_msg.data = NameBuf(r, n)
      BY <3>5, <2>4, <2>6, <1>8, Zenon
    <3>8. PutPart(self'.tx_msg.data, object'.txq, g, progress, nm, r, n)
      BY <3>3, <3>4, <3>7, <1>8, Zenon DEF PutPart
    <3>9. PutPart(self.tx_msg.data, object.txq, device.got, progress, object.name,
                  session.requests, Len(file))'
      BY <3>8, <1>8, Zenon DEF r, n
    <3>10. send'.addmore
      BY <3>6, <1>8
    <3>11. QED
      BY <3>9, <3>10, <2>6, <1>8, Zenon DEF AtFill
  <2>7. CASE d = <<>> /\ MaySend /\ object.cmd = "GET"
    <3>1. GetReady(object.txq, object.seen, object.rx_body, object.hinted, device.out,
                 progress, object.name, r, n)
      BY <2>7, Zenon DEF MaySend, Plain, r, n
    <3>2. /\ object.txq = <<NameH(r, n)>>
          /\ GetFresh(object.seen, object.rx_body)
      BY <3>1, <1>2, Zenon DEF GetReady
    <3>3. h = NameH(r, n) /\ q = <<>>
      BY <3>2, QueueHeads
    <3>4. h.buf = NameBuf(r, n)
      BY <3>3, HeadKinds, Zenon
    <3>5. self'.tx_msg.data = NameBuf(r, n)
      BY <3>4, <2>4, <2>7, <1>8, Zenon
    <3>6. GetFull(self'.tx_msg.data, object.seen, object.rx_body, object.hinted, device.out,
                  progress, object.name, r, n)
      BY <3>2, <3>5, Zenon DEF GetFull
    <3>7. LoadedWith(self.tx_msg.data)'
      BY <3>3, <3>6, <2>7, <1>8, Zenon DEF LoadedWith, r, n
    <3>8. QED
      BY <3>3, <3>7, <1>8, Zenon DEF AtFill
  <2>8. CASE object.cmd = "PUT" /\ PutPart(d, object.txq, g, progress, nm, r, n)
    <3>1. object.txq = <<BodyH(r, 0, n)>> => h.hi = "BODY"
      <4>1. Head(<<BodyH(r, 0, n)>>) = BodyH(r, 0, n)
        BY QueueHeads
      <4>2. QED
        BY <4>1, HeadKinds, Zenon
    <3>2. /\ d = NameBuf(r, n) /\ object.txq = <<LenH(n), BodyH(r, 0, n)>>
          /\ PutBefore(TRUE, g, progress, nm, r, n, 0)
      BY <2>8, <3>1, <1>1, Zenon DEF PutPart
    <3>3. h = LenH(n) /\ q = <<BodyH(r, 0, n)>>
      BY <3>2, QueueHeads
    <3>4. h.buf = LenBuf(n)
      BY <3>3, HeadKinds, Zenon
    <3>5. left # 0
      BY <3>3, <1>6
    <3>6. PutPart(self'.tx_msg.data, object'.txq, g, progress, nm, r, n)
      BY <3>2, <3>3, <3>4, <1>8, Zenon DEF PutPart
    <3>7. PutPart(self.tx_msg.data, object.txq, device.got, progress, object.name,
                  session.requests, Len(file))'
      BY <3>6, <1>8, Zenon DEF r, n
    <3>8. send'.addmore
      BY <3>5, <1>8
    <3>9. QED
      BY <3>7, <3>8, <2>8, <1>8, Zenon DEF AtFill
  <2>9. QED
    BY <2>1, <2>5, <2>6, <2>7, <2>8, Zenon DEF MaySend
<1>10. QED
  BY <1>7, <1>9, FilledLive

\* A packet that takes nothing more holds what the request has to say.
LEMMA FillDone ==
  ASSUME StageInv, pc = "fill", ~send.addmore \/ object.txq = <<>>
  PROVE  LoadedWith(self.tx_msg.data)
<1> DEFINE r == session.requests
           n == Len(file)
<1>1. AtFill
  BY Zenon DEF StageInv
<1>2. \A a, b, c : <<a>> # <<>> /\ <<a, b>> # <<>> /\ <<a, b, c>> # <<>>
  OBVIOUS
<1>3. CASE send.addmore /\ self.tx_msg.data = <<>> /\ MaySend
  <2>1. object.txq = <<>>
    BY <1>3
  <2>2. ~PutReady(object.txq, device.got, progress, object.name, r, n)
    BY <2>1, <1>2, Zenon DEF PutReady
  <2>3. CASE object.cmd = "GET"
    <3>1. GetReady(object.txq, object.seen, object.rx_body, object.hinted, device.out,
                   progress, object.name, r, n)
      BY <2>3, <1>3, Zenon DEF MaySend, Plain
    <3>2. GetFull(<<>>, object.seen, object.rx_body, object.hinted, device.out,
                  progress, object.name, r, n)
      BY <2>1, <3>1, <1>2, Zenon DEF GetReady
    <3>3. QED
      BY <1>3, <2>1, <2>3, <3>2, Zenon DEF LoadedWith
  <2>4. QED
    BY <2>2, <2>3, <1>3, Zenon DEF MaySend, LoadedWith
<1>4. CASE /\ send.addmore /\ object.cmd = "PUT"
           /\ PutPart(self.tx_msg.data, object.txq, device.got, progress, object.name, r, n)
  <2>1. object.txq = <<>>
    BY <1>4
  <2>2. QED
    BY <2>1, <1>2, <1>4, Zenon DEF PutPart
<1>5. QED
  BY <1>1, <1>3, <1>4, Zenon DEF AtFill, LoadedWith

\* What a packet holds only depends on these.
LEMMA LoadedKept ==
  ASSUME NEW d, LoadedWith(d), file' = file, session'.requests = session.requests,
         device'.got = device.got, device'.out = device.out, progress' = progress,
         object' = object
  PROVE  LoadedWith(d)'
  BY Zenon DEF LoadedWith

\* The packet is in the inbox of the device, and nothing else is under way.
LEMMA SendPacketLive ==
  ASSUME ObexInv, ShapeInv, LiveInv, SendPacket
  PROVE  LiveInv'
<1>1. SelfOK /\ ObjectOK /\ SendOK /\ SessionOK
  BY DEF ObexInv
<1>2. CASE Fail(0)
  BY <1>1, <1>2, FailDead
<1>3. CASE ~Fail(0)
  <2> SUFFICES ASSUME Live'
               PROVE  FileInv' /\ StageInv'
    BY DEF LiveInv
  <2> DEFINE d == self.tx_msg.data
             s == self.seq_num
             id == session.packets + 1
             last == object.txq = <<>>
             x == Opening(s, id, object.cmd, last)
             nx == (s + 1) % SeqRange
             pk == Packet
             in == Append(device.inbox, pk.data)
  <2>1. /\ pc = "fill" /\ (~send.addmore \/ object.txq = <<>>)
        /\ self' = [self EXCEPT !.tx_msg = pk, !.seq_num = nx]
        /\ send' = [send EXCEPT !.finished = last, !.seq = s]
        /\ device' = [device EXCEPT !.inbox = in]
        /\ pc' = "verify"
        /\ session' = [session EXCEPT !.packets = id]
        /\ object' = object /\ progress' = progress /\ file' = file
    BY <1>3, Zenon DEF SendPacket
  <2>2. Packet = buf_insert_begin(self.tx_msg, x)
    BY Zenon DEF Packet, Opening
  <2>3. s \in Int /\ id \in Nat /\ object.cmd \in Words /\ last \in BOOLEAN
        /\ self.tx_msg \in SoundBuffers
    BY <1>1, SelfFields, ObjectFields DEF SessionOK
  <2>4. d \in Seq(Cells)
    BY <2>3 DEF SoundBuffers, Buffers
  <2> HIDE DEF s, id, last
  <2>5. x \in Seq(Cells)
    BY <2>3, OpeningIs, Zenon
  <2> HIDE DEF x
  <2>6. pk.data = x \o d
    <3>1. GoodBuffer(self.tx_msg, Cells)
      BY <2>3 DEF SoundBuffers, GoodBuffer
    <3>2. QED
      BY <2>2, <2>5, <3>1, InsertBegin, Zenon
  <2> HIDE DEF pk, nx, d
  <2>7. self'.tx_msg = pk /\ self'.rx_msg = self.rx_msg
    BY <1>1, <2>1, Zenon DEF SelfOK, Selves
  <2>8. send'.seq = s
    BY <1>1, <2>1, Zenon DEF SendOK
  <2>9. /\ session'.packets = id /\ session'.requests = session.requests
        /\ session'.status = session.status
    BY <2>1, Zenon DEF ShapeInv
  <2>10. Live
    BY <2>9, Zenon DEF Live
  <2>11. FileInv /\ StageInv
    BY <2>10, LiveFacts, Zenon
  <2>12. /\ session.status = "busy" /\ session.requests > 0
         /\ Silent /\ self.rx_msg.data = <<>>
    BY <2>1, <2>11, Zenon DEF StageInv
  <2>13. LoadedWith(d)
    BY <2>1, <2>11, FillDone, Zenon DEF d
  <2>14. /\ device'.inbox = in /\ device'.wire = device.wire /\ device'.got = device.got
         /\ device'.out = device.out
    <3> HIDE DEF in
    <3>1. QED
      BY <2>1, Zenon DEF ShapeInv
  <2>15. in = <<pk.data>>
    BY <2>12 DEF Silent
  <2> HIDE DEF in
  <2>16. PICK c \in Runs : c = d /\ LoadedWith(c)'
    <3>1. \A c : LoadedWith(c) => LoadedWith(c)'
      BY <2>1, <2>9, <2>14, LoadedKept, Zenon
    <3>2. d \in Runs
      BY <2>4 DEF Runs
    <3>3. PICK c \in Runs : c = d
      BY <3>2, Zenon
    <3>4. LoadedWith(c)
      BY <3>3, <2>13, Zenon
    <3>5. QED
      BY <3>1, <3>3, <3>4, Zenon
  <2>17. Opened' = x
    BY <2>1, <2>8, <2>9, Zenon DEF Opened, x, last
  <2>18. AtVerify'
    <3>1. self'.tx_msg.data = Opened' \o c
      BY <2>6, <2>7, <2>16, <2>17, Zenon
    <3>2. device'.wire = <<>> /\ self'.rx_msg.data = <<>>
      BY <2>7, <2>12, <2>14, Zenon DEF Silent
    <3>3. device'.inbox = <<self'.tx_msg.data>>
      BY <2>7, <2>14, <2>15, Zenon
    <3>4. QED
      BY <3>1, <3>2, <3>3, <2>16, Zenon DEF AtVerify
  <2>19. FileInv'
    BY <2>1, <2>9, <2>11, <2>14, FileKept, Zenon
  <2>20. StageInv'
    BY <2>1, <2>9, <2>12, <2>18, Zenon DEF StageInv
  <2>21. QED
    BY <2>19, <2>20
<1>4. QED
  BY <1>2, <1>3

\* Concatenation, for runs of cells.
Grouped(x, y, z) ==
  /\ (x \o y) \o z = x \o (y \o z) /\ x \o y \in Seq(Cells)
  /\ y \o z \in Seq(Cells) /\ x \o <<>> = x /\ <<>> \o x = x

\* Three runs of cells behind one another.
LEMMA Regroup ==
  ASSUME NEW x \in Seq(Cells), NEW y \in Seq(Cells), NEW z \in Seq(Cells)
  PROVE  Grouped(x, y, z)
  BY ConcatAssociative DEF Grouped

\* The first cell of what a sequence makes with another one behind it.
FirstOff(t, y, s, x) == Head(t) = s /\ t = <<s>> \o Tail(t) /\ Tail(t) \o y = x
                          /\ Tail(t) \in Seq(Cells)

\* A front of s and x that is not empty starts with s.
LEMMA HeadSplit ==
  ASSUME NEW t \in Seq(Cells), t # <<>>, NEW y \in Seq(Cells), NEW x \in Seq(Cells),
         NEW s \in Cells, t \o y = <<s>> \o x
  PROVE  FirstOff(t, y, s, x)
<1> DEFINE u == Tail(t)
           a == Head(t)
           o == <<a>>
           p == <<s>>
<1>1. a \in Cells /\ u \in Seq(Cells)
  OBVIOUS
<1>2. t = o \o u
  <2>1. Len(t) \in Nat /\ Len(t) > 0 /\ Len(u) = Len(t) - 1 /\ a = t[1]
        /\ \A i \in 1 .. Len(u) : u[i] = t[i + 1]
    BY HeadTailProperties, EmptySeq
  <2>2. o \in Seq(Cells) /\ Len(o) = 1 /\ o[1] = a
    BY <1>1
  <2> HIDE DEF u, o, a
  <2>3. /\ o \o u \in Seq(Cells) /\ Len(o \o u) = Len(o) + Len(u)
        /\ \A i \in 1 .. Len(o) : (o \o u)[i] = o[i]
        /\ \A i \in 1 .. Len(u) : (o \o u)[Len(o) + i] = u[i]
    <3>1. o \in Seq(Cells) /\ u \in Seq(Cells)
      BY <1>1, <2>2
    <3>2. QED
      BY <3>1, ConcatAt
  <2>4. Len(t) = Len(o \o u)
    BY <2>1, <2>2, <2>3
  <2>5. ASSUME NEW i \in 1 .. Len(t)
        PROVE  t[i] = (o \o u)[i]
    <3>1. CASE i = 1
      BY <3>1, <2>1, <2>2, <2>3
    <3>2. CASE i # 1
      <4>1. i - 1 \in 1 .. Len(u) /\ (i - 1) + 1 = i /\ Len(o) + (i - 1) = i
        BY <3>2, <2>1, <2>2
      <4>2. QED
        BY <4>1, <2>1, <2>3, ZenonT(60)
    <3>3. QED
      BY <3>1, <3>2
  <2>6. QED
    BY <2>3, <2>4, <2>5, SeqEqual
<1>3. o \in Seq(Cells) /\ p \in Seq(Cells) /\ Len(o) = 1 /\ Len(p) = 1
      /\ o[1] = a /\ p[1] = s
  BY <1>1
<1>4. a = s => o = p
  OBVIOUS
<1> HIDE DEF u, a, o, p
<1> DEFINE v == u \o y
<1>5. (o \o u) \o y = o \o v
  <2>1. o \in Seq(Cells) /\ u \in Seq(Cells) /\ y \in Seq(Cells)
    BY <1>1, <1>3
  <2>2. Grouped(o, u, y)
    BY <2>1, Regroup, Zenon
  <2>3. QED
    BY <2>2, Zenon DEF v, Grouped
<1>6. v \in Seq(Cells)
  <2>1. u \in Seq(Cells) /\ y \in Seq(Cells)
    BY <1>1
  <2>2. QED
    BY <2>1, ConcatAt
<1> HIDE DEF v
<1>7. o \o v = p \o x
  BY <1>2, <1>5, Zenon DEF p
<1>8. (o \o v)[1] = o[1] /\ (p \o x)[1] = p[1]
  <2>1. o \in Seq(Cells) /\ v \in Seq(Cells) /\ p \in Seq(Cells) /\ x \in Seq(Cells)
    BY <1>3, <1>6
  <2>2. /\ \A i \in 1 .. Len(o) : (o \o v)[i] = o[i]
        /\ \A i \in 1 .. Len(p) : (p \o x)[i] = p[i]
    BY <2>1, ConcatAt
  <2>3. 1 \in 1 .. Len(o) /\ 1 \in 1 .. Len(p)
    BY <1>3
  <2>4. QED
    BY <2>2, <2>3, Zenon
<1>9. a = s
  BY <1>3, <1>7, <1>8
<1>10. o = p
  BY <1>4, <1>9
<1>11. v = x
  <2>1. o \in Seq(Cells) /\ v \in Seq(Cells) /\ x \in Seq(Cells)
    BY <1>3, <1>6
  <2>2. o \o v = o \o x
    BY <1>7, <1>10, Zenon
  <2>3. QED
    BY <2>1, <2>2, ConcatSimplifications
<1>12. QED
  BY <1>1, <1>2, <1>9, <1>10, <1>11, Zenon DEF FirstOff, u, a, v, p

\* An answer that starts with an empty transfer goes on with the rest of it.
LEMMA CarriesTail ==
  ASSUME NEW w \in Seq(Seq(Cells)), w # <<>>, NEW s, NEW x, Carries(w, s, x), Head(w) = <<>>,
         x # <<>>
  PROVE  Carries(Tail(w), s, x)
<1>1. <<s>> # <<>> /\ Head(w) = w[1]
  OBVIOUS
<1>2. w # <<<<s>>, <<>>, x>>
  <2>1. w = <<<<s>>, <<>>, x>> => Head(w) = <<s>>
    OBVIOUS
  <2>2. QED
    BY <2>1, <1>1
<1>3. w # <<<<s>> \o x>>
  <2> DEFINE y == <<s>> \o x
  <2>1. w = <<y>> => Head(w) = y
    BY QueueHeads
  <2>2. w = <<y>> => y \in Seq(Cells)
    OBVIOUS
  <2>3. y # <<>>
    OBVIOUS
  <2>4. QED
    BY <2>1, <2>3, Zenon
<1>4. PICK k \in 0 .. Len(w) :
        /\ Len(w) = k + 2 /\ w[k + 1] = <<s>> /\ w[k + 2] = x
        /\ \A i \in 1 .. k : w[i] = <<>>
  BY <1>2, <1>3, Zenon DEF Carries
<1>5. k # 0
  BY <1>1, <1>4
<1> DEFINE t == Tail(w)
           j == k - 1
<1>6. /\ t \in Seq(Seq(Cells)) /\ Len(t) = Len(w) - 1
      /\ \A i \in 1 .. Len(t) : t[i] = w[i + 1]
  BY HeadTailProperties
<1>7. j \in 0 .. Len(t) /\ Len(t) = j + 2 /\ j + 1 \in 1 .. Len(t) /\ j + 2 \in 1 .. Len(t)
      /\ (j + 1) + 1 = k + 1 /\ (j + 2) + 1 = k + 2
  BY <1>4, <1>5, <1>6
<1>8. \A i \in 1 .. j : i \in 1 .. Len(t) /\ i + 1 \in 1 .. k
  BY <1>4, <1>5, <1>6
<1> HIDE DEF t, j
<1>9. t[j + 1] = <<s>> /\ t[j + 2] = x /\ \A i \in 1 .. j : t[i] = <<>>
  BY <1>4, <1>6, <1>7, <1>8, Zenon
<1>10. Carries(t, s, x)
  BY <1>7, <1>9, Zenon DEF Carries
<1>11. QED
  BY <1>10 DEF t

\* An answer that does not start with an empty transfer.
LEMMA CarriesFirst ==
  ASSUME NEW w \in Seq(Seq(Cells)), w # <<>>, NEW s, NEW x, Carries(w, s, x), Head(w) # <<>>
  PROVE  w = <<<<s>> \o x>> \/ w = <<<<s>>, <<>>, x>> \/ w = <<<<s>>, x>>
<1> SUFFICES ASSUME w # <<<<s>> \o x>>, w # <<<<s>>, <<>>, x>>
             PROVE  w = <<<<s>>, x>>
  BY Zenon
<1>1. PICK k \in 0 .. Len(w) :
        /\ Len(w) = k + 2 /\ w[k + 1] = <<s>> /\ w[k + 2] = x
        /\ \A i \in 1 .. k : w[i] = <<>>
  BY Zenon DEF Carries
<1>2. Head(w) = w[1]
  OBVIOUS
<1>3. k = 0
  <2>1. k # 0 => 1 \in 1 .. k
    BY <1>1
  <2>2. QED
    BY <2>1, <1>1, <1>2, Zenon
<1>4. Len(w) = 2 /\ w[1] = <<s>> /\ w[2] = x
  BY <1>1, <1>3
<1> DEFINE a == <<s>>
           e == Seq(Cells)
<1>5. w \in Seq(e) /\ w[1] = a /\ w[2] = x /\ Len(w) = 2
  BY <1>4
<1> HIDE DEF a, e
<1>6. w = <<a, x>>
  BY <1>5
<1>7. QED
  BY <1>6 DEF a

\* What an answer is only depends on these.
LEMMA AnswerKept ==
  ASSUME object'.cmd = object.cmd, object'.name = object.name, object'.txq = object.txq,
         object'.seen = object.seen, object'.rx_body = object.rx_body,
         object'.hinted = object.hinted, progress' = progress, file' = file,
         session'.requests = session.requests, session'.packets = session.packets,
         device'.got = device.got, device'.out = device.out, send'.seq = send.seq,
         self'.tx_msg = self.tx_msg
  PROVE  /\ Sent => Sent'
         /\ \A code, cells : Expects(code, cells) => Expects(code, cells)'
<1>1. \A d : SentWith(d) => SentWith(d)'
  BY Zenon DEF SentWith
<1>2. Opened' = Opened
  BY Zenon DEF Opened
<1>3. Sent => Sent'
  BY <1>1, <1>2, Zenon DEF Sent
<1>4. \A code, cells : Expects(code, cells) => Expects(code, cells)'
  BY Zenon DEF Expects
<1>5. QED
  BY <1>3, <1>4

\* The transfers of the answer, where one is waiting.
Waits(code, cells) ==
  /\ code \in Codes /\ cells \in Runs /\ device.inbox = <<>> /\ Sent
  /\ self.rx_msg.data = <<>> /\ Expects(code, cells)
  /\ Carries(device.wire, <<"seq", send.seq, session.packets>>,
             Reply(code, session.packets, cells))

\* obex_verify_seq has something to read only when the device has answered.
LEMMA WaitsFor ==
  ASSUME StageInv, pc = "verify", device.wire # <<>>
  PROVE  \E code, cells : Waits(code, cells)
<1>1. AtVerify
  BY Zenon DEF StageInv
<1>2. QED
  BY <1>1, Zenon DEF AtVerify, Waits, Silent

\* The answer is not empty and is made of cells.
LEMMA WaitsCells ==
  ASSUME ObexInv, NEW code, NEW cells, Waits(code, cells)
  PROVE  /\ Reply(code, session.packets, cells) \in Seq(Cells)
         /\ Reply(code, session.packets, cells) # <<>>
         /\ <<"seq", send.seq, session.packets>> \in Cells
<1> DEFINE x == Reply(code, session.packets, cells)
<1>1. code \in Words /\ cells \in Seq(Cells) /\ session.packets \in Nat /\ send.seq \in Int
  BY DEF Waits, Codes, Words, Runs, ObexInv, SessionOK, SendOK
<1>2. ReplyIs(x, code, session.packets, cells)
  BY <1>1, ReplyOf, Zenon
<1> HIDE DEF x
<1>3. x \in Seq(Cells) /\ Len(x) = 3 + Len(cells) /\ Len(cells) \in Nat
  BY <1>2, Zenon DEF ReplyIs
<1>4. x # <<>>
  BY <1>3
<1>5. <<"seq", send.seq, session.packets>> \in Cells
  BY <1>1 DEF Cells, SeqCells
<1>6. QED
  BY <1>3, <1>4, <1>5 DEF x

\* An empty transfer before the number is sat through.
LEMMA SeqEmptyLive ==
  ASSUME ObexInv, ShapeInv, LiveInv, SeqEmpty
  PROVE  LiveInv'
<1>1. SelfOK /\ DeviceOK /\ SessionOK
  BY DEF ObexInv
<1>2. CASE Fail(0)
  BY <1>1, <1>2, FailDead
<1>3. CASE ~Fail(0)
  <2> SUFFICES ASSUME Live'
               PROVE  FileInv' /\ StageInv'
    BY DEF LiveInv
  <2>1. /\ pc = "verify" /\ pc' = pc /\ device.wire # <<>> /\ Take = <<>>
        /\ device' = [device EXCEPT !.wire = Rest]
        /\ object' = object /\ session' = session /\ self' = self
        /\ send' = send /\ progress' = progress /\ file' = file
    BY <1>3, Zenon DEF SeqEmpty, Reads
  <2>2. FileInv /\ StageInv
    BY <2>1, LiveFacts, Zenon DEF Live
  <2>3. PICK code, cells : Waits(code, cells)
    BY <2>1, <2>2, WaitsFor, Zenon
  <2> DEFINE x == Reply(code, session.packets, cells)
             s == <<"seq", send.seq, session.packets>>
             w == device.wire
  <2>4. x # <<>>
    BY <2>3, WaitsCells
  <2> HIDE DEF x, s
  <2>5. Carries(w, s, x) /\ Expects(code, cells) /\ Sent
        /\ device.inbox = <<>> /\ code \in Codes /\ cells \in Runs /\ self.rx_msg.data = <<>>
    BY <2>3, Zenon DEF Waits, x, s
  <2>6. PICK y \in Seq(Cells) :
          /\ Head(w) = Take \o y /\ (Head(w) # <<>> => Take # <<>>)
          /\ IF y = <<>> THEN Rest = Tail(w) ELSE Rest = <<y>> \o Tail(w)
    BY <1>1, <2>1, TakeRest, Zenon DEF Splits
  <2>7. Head(w) = <<>> /\ y = <<>>
    <3>1. Head(w) = <<>>
      BY <2>1, <2>6, Zenon
    <3>2. <<>> \o y = y
      OBVIOUS
    <3>3. QED
      BY <3>1, <3>2, <2>1, <2>6, Zenon
  <2>8. w \in Seq(Seq(Cells))
    BY <1>1 DEF DeviceOK
  <2>9. Carries(Tail(w), s, x)
    BY <2>1, <2>4, <2>5, <2>7, <2>8, CarriesTail, Zenon
  <2>10. Rest = Tail(w)
    BY <2>6, <2>7
  <2>11. /\ device'.wire = Tail(w) /\ device'.inbox = device.inbox
         /\ device'.got = device.got /\ device'.out = device.out
    BY <2>1, <2>10, Zenon DEF ShapeInv
  <2>12. Sent' /\ Expects(code, cells)'
    BY <2>1, <2>5, <2>11, AnswerKept, Zenon
  <2>13. Carries(device'.wire, <<"seq", send'.seq, session'.packets>>,
                 Reply(code, session'.packets, cells))
    BY <2>1, <2>9, <2>11, Zenon DEF s, x
  <2>14. AtVerify'
    BY <2>1, <2>5, <2>11, <2>12, <2>13, Zenon DEF AtVerify
  <2>15. FileInv'
    BY <2>1, <2>2, <2>11, FileKept, Zenon
  <2>16. StageInv'
    BY <2>1, <2>2, <2>14, Zenon DEF StageInv
  <2>17. QED
    BY <2>15, <2>16
<1>4. QED
  BY <1>2, <1>3

\* What obex_verify_seq leaves: z in rx_msg, rest on the wire, together x.
Left(z, rest, v, x) ==
  /\ z \in Seq(Cells) /\ rest \in Seq(Cells) /\ z \o rest = x
  /\ \/ rest # <<>> /\ v \in {<<rest>>, <<<<>>, rest>>}
     \/ v = <<>> /\ rest = <<>>

\* The number comes off the front of the transfer that was taken.
LEMMA SeqTaken ==
  ASSUME SelfOK, DeviceOK, device.wire # <<>>, Take # <<>>, self.rx_msg.data = <<>>,
         NEW s \in Cells, NEW x \in Seq(Cells), x # <<>>, Carries(device.wire, s, x)
  PROVE  /\ Head(Take) = s
         /\ \E rest : Left(buf_remove_begin(Landed(Take), 1).data, rest, Rest, x)
<1> DEFINE w == device.wire
           z == buf_remove_begin(Landed(Take), 1).data
           one == <<s>>
<1>1. PICK y \in Seq(Cells) :
        /\ Head(w) = Take \o y /\ Take \in Seq(Cells) /\ Len(Take) <= DefaultMtu
        /\ IF y = <<>> THEN Rest = Tail(w) ELSE Rest = <<y>> \o Tail(w)
  BY TakeRest, Zenon DEF Splits
<1>2. w \in Seq(Seq(Cells))
  BY DEF DeviceOK
<1>3. Head(w) # <<>>
  <2> DEFINE t == Take
  <2>1. t \in Seq(Cells) /\ t # <<>>
    BY <1>1
  <2> HIDE DEF t
  <2>2. t \o y # <<>>
    BY <2>1, ConcatEqualIffEmpty
  <2>3. QED
    BY <2>2, <1>1 DEF t
<1>4. w = <<<<s>> \o x>> \/ w = <<<<s>>, <<>>, x>> \/ w = <<<<s>>, x>>
  BY <1>2, <1>3, CarriesFirst, Zenon
<1>5. Landed(Take).data = Take
  <2>1. Landed(Take).data = self.rx_msg.data \o Take
    BY <1>1, LandedData, Zenon
  <2> DEFINE t == Take
  <2>2. t \in Seq(Cells)
    BY <1>1
  <2> HIDE DEF t
  <2>3. <<>> \o t = t
    BY <2>2
  <2>4. QED
    BY <2>1, <2>3, Zenon DEF t
<1>6. Landed(Take) \in SoundBuffers
  <2>1. Landed(Take) \in RxBuffers
    BY LandedSelf, Zenon
  <2>2. QED
    BY <2>1 DEF RxBuffers
<1>7. one \in Seq(Cells) /\ Len(one) = 1
  OBVIOUS
<1>8. ASSUME NEW u \in Seq(Cells), Head(w) = one \o u
      PROVE  Head(Take) = s /\ z \in Seq(Cells) /\ z \o y = u
  <2>1. FirstOff(Take, y, s, u)
    BY <1>1, <1>8, HeadSplit, Zenon
  <2>2. /\ Head(Take) = s /\ Take = one \o Tail(Take) /\ Tail(Take) \o y = u
        /\ Tail(Take) \in Seq(Cells)
    BY <2>1, Zenon DEF FirstOff
  <2> HIDE DEF one
  <2> DEFINE b == Landed(Take)
             t == Tail(Take)
  <2>3. b \in SoundBuffers /\ t \in Seq(Cells) /\ b.data = one \o t
    BY <1>5, <1>6, <2>2, Zenon
  <2> HIDE DEF b, t
  <2>4. buf_remove_begin(b, Len(one)).data = t
    BY <2>3, <1>7, RemovedData, Zenon
  <2>5. z = t
    BY <2>4, <1>7, Zenon DEF b
  <2>6. QED
    BY <2>2, <2>5, Zenon DEF t
<1>9. CASE w = <<one \o x>>
  <2>1. Head(w) = one \o x /\ Tail(w) = <<>>
    BY <1>9, QueueHeads
  <2>2. Head(Take) = s /\ z \in Seq(Cells) /\ z \o y = x
    BY <2>1, <1>8
  <2>3. Rest = IF y = <<>> THEN <<>> ELSE <<y>>
    <3>1. <<y>> \o <<>> = <<y>>
      OBVIOUS
    <3>2. QED
      BY <3>1, <2>1, <1>1, Zenon
  <2> HIDE DEF z
  <2>4. Left(z, y, Rest, x)
    BY <2>2, <2>3, Zenon DEF Left
  <2>5. QED
    BY <2>2, <2>4, Zenon DEF z
<1>10. CASE w = <<one, <<>>, x>> \/ w = <<one, x>>
  <2> DEFINE e == <<>>
             v == IF w = <<one, e, x>> THEN <<e, x>> ELSE <<x>>
  <2>1. Head(w) = one /\ Tail(w) = v
    <3> HIDE DEF e, one
    <3>1. w = <<one, e, x>> \/ w = <<one, x>>
      BY <1>10 DEF e
    <3>2. CASE w = <<one, e, x>>
      <4>1. Head(w) = one /\ Tail(w) = <<e, x>>
        <5> HIDE DEF w
        <5>1. QED
          BY <3>2
      <4>2. QED
        BY <4>1, <3>2, Zenon
    <3>3. CASE w # <<one, e, x>>
      <4>1. Head(w) = one /\ Tail(w) = <<x>>
        BY <3>1, <3>3, QueueHeads, Zenon
      <4>2. QED
        BY <4>1, <3>3, Zenon
    <3>4. QED
      BY <3>2, <3>3
  <2>2. one \o e = one
    OBVIOUS
  <2>3. e \in Seq(Cells) /\ Head(w) = one \o e
    BY <2>1, <2>2
  <2>4. Head(Take) = s /\ z \in Seq(Cells) /\ z \o y = e
    <3> HIDE DEF e, one, z
    <3>1. QED
      BY <2>3, <1>8
  <2> HIDE DEF z
  <2>5. z = <<>> /\ y = <<>>
    BY <2>4, ConcatEqualIffEmpty
  <2>6. z \o x = x
    BY <2>5
  <2>7. Rest = v
    BY <2>1, <2>5, <1>1, Zenon
  <2>8. Rest \in {<<x>>, <<<<>>, x>>}
    BY <2>7
  <2>9. Left(z, x, Rest, x)
    BY <2>4, <2>6, <2>8, Zenon DEF Left
  <2>10. QED
    BY <2>4, <2>9, Zenon DEF z
<1>11. QED
  BY <1>4, <1>9, <1>10, Zenon

\* The number is the one the packet had: the response is read behind it.
LEMMA SeqMatchesLive ==
  ASSUME ObexInv, ShapeInv, LiveInv, SeqMatches
  PROVE  LiveInv'
<1> SUFFICES ASSUME Live'
             PROVE  FileInv' /\ StageInv'
  BY DEF LiveInv
<1> DEFINE b == buf_remove_begin(Landed(Take), 1)
           c == session.collided \/ Head(Take)[1] # "seq"
<1>1. SelfOK /\ DeviceOK /\ SessionOK
  BY DEF ObexInv
<1>2. /\ pc = "verify" /\ pc' = "read" /\ device.wire # <<>> /\ Take # <<>>
      /\ device' = [device EXCEPT !.wire = Rest]
      /\ self' = [self EXCEPT !.rx_msg = b]
      /\ session' = [session EXCEPT !.collided = c]
      /\ object' = object /\ send' = send /\ progress' = progress /\ file' = file
  BY Zenon DEF SeqMatches, Reads
<1> HIDE DEF b, c
<1>3. self'.rx_msg = b /\ self'.tx_msg = self.tx_msg
  BY <1>1, <1>2, Zenon DEF SelfOK, Selves
<1>4. /\ session'.requests = session.requests /\ session'.packets = session.packets
      /\ session'.status = session.status
  BY <1>2, Zenon DEF ShapeInv
<1>5. /\ device'.wire = Rest /\ device'.inbox = device.inbox
      /\ device'.got = device.got /\ device'.out = device.out
  BY <1>2, Zenon DEF ShapeInv
<1>6. FileInv /\ StageInv
  BY <1>4, LiveFacts, Zenon DEF Live
<1>7. PICK code, cells : Waits(code, cells)
  BY <1>2, <1>6, WaitsFor, Zenon
<1> DEFINE x == Reply(code, session.packets, cells)
           s == <<"seq", send.seq, session.packets>>
<1>8. x \in Seq(Cells) /\ x # <<>> /\ s \in Cells
  BY <1>7, WaitsCells
<1> HIDE DEF x, s
<1>9. Carries(device.wire, s, x) /\ Expects(code, cells) /\ Sent
      /\ device.inbox = <<>> /\ code \in Codes /\ cells \in Runs /\ self.rx_msg.data = <<>>
  BY <1>7, Zenon DEF Waits, x, s
<1>10. PICK rest : Left(b.data, rest, Rest, x)
  BY <1>1, <1>2, <1>8, <1>9, SeqTaken, Zenon DEF b
<1>11. Sent' /\ Expects(code, cells)'
  BY <1>2, <1>3, <1>4, <1>5, <1>9, AnswerKept, Zenon
<1>12. AtRead'
  <2>1. /\ rest \in Runs /\ b.data \o rest = x
        /\ \/ rest # <<>> /\ Rest \in {<<rest>>, <<<<>>, rest>>}
           \/ Rest = <<>> /\ rest = <<>>
    BY <1>10, Zenon DEF Left, Runs
  <2>2. self'.rx_msg.data \o rest = Reply(code, session'.packets, cells)
    BY <2>1, <1>3, <1>4, Zenon DEF x
  <2>3. \/ rest # <<>> /\ device'.wire \in {<<rest>>, <<<<>>, rest>>}
        \/ device'.wire = <<>> /\ (rest = <<>> \/ device'.gone)
    BY <2>1, <1>5, Zenon
  <2>4. QED
    BY <2>1, <2>2, <2>3, <1>5, <1>9, <1>11, Zenon DEF AtRead
<1>13. FileInv'
  BY <1>2, <1>4, <1>5, <1>6, FileKept, Zenon
<1>14. StageInv'
  BY <1>2, <1>4, <1>6, <1>12, Zenon DEF StageInv
<1>15. QED
  BY <1>13, <1>14

\* The response in rx_msg, with what is still to come of it.
Reading(code, cells, rest) ==
  /\ code \in Codes /\ cells \in Runs /\ rest \in Runs
  /\ device.inbox = <<>> /\ Sent /\ Expects(code, cells)
  /\ self.rx_msg.data \o rest = Reply(code, session.packets, cells)
  /\ \/ rest # <<>> /\ device.wire \in {<<rest>>, <<<<>>, rest>>}
     \/ device.wire = <<>> /\ (rest = <<>> \/ device.gone)

\* What obex_bulk_read goes by, and when it is done.
LEMMA ReadsFor ==
  ASSUME ObexInv, StageInv, pc = "read"
  PROVE  \E code, cells, rest : Reading(code, cells, rest) /\ (Whole <=> rest = <<>>)
<1>1. AtRead
  BY Zenon DEF StageInv
<1>2. PICK code \in Codes, cells \in Runs, rest \in Runs : Reading(code, cells, rest)
  BY <1>1, Zenon DEF AtRead, Reading
<1>3. SelfOK /\ code \in Words /\ session.packets \in Nat /\ cells \in Seq(Cells)
      /\ rest \in Seq(Cells)
  BY DEF ObexInv, SessionOK, Codes, Words, Runs
<1>4. self.rx_msg.data \o rest = Reply(code, session.packets, cells)
  BY <1>2, Zenon DEF Reading
<1>5. Whole <=> rest = <<>>
  BY <1>3, <1>4, WholeIs
<1>6. QED
  BY <1>2, <1>5

\* obex_bulk_read: what comes goes behind what is there.
LEMMA BulkReadLive ==
  ASSUME ObexInv, ShapeInv, LiveInv, obex_bulk_read
  PROVE  LiveInv'
<1> SUFFICES ASSUME Live'
             PROVE  FileInv' /\ StageInv'
  BY DEF LiveInv
<1> DEFINE b == Landed(Take)
           w == device.wire
           d == self.rx_msg.data
<1>1. SelfOK /\ DeviceOK
  BY DEF ObexInv
<1>2. /\ pc = "read" /\ pc' = pc /\ device.wire # <<>> /\ ~Whole
      /\ device' = [device EXCEPT !.wire = Rest]
      /\ self' = [self EXCEPT !.rx_msg = b] /\ session' = session
      /\ object' = object /\ send' = send /\ progress' = progress /\ file' = file
  BY Zenon DEF obex_bulk_read, Reads
<1>3. FileInv /\ StageInv
  BY <1>2, LiveFacts, Zenon DEF Live
<1>4. PICK code, cells, rest : Reading(code, cells, rest) /\ (Whole <=> rest = <<>>)
  BY <1>2, <1>3, ReadsFor, Zenon
<1> DEFINE x == Reply(code, session.packets, cells)
<1>5. /\ code \in Codes /\ cells \in Runs /\ rest \in Seq(Cells)
      /\ device.inbox = <<>> /\ Sent /\ Expects(code, cells)
      /\ d \o rest = x /\ w \in {<<rest>>, <<<<>>, rest>>} /\ rest # <<>>
  BY <1>2, <1>4, Zenon DEF Reading, Runs
<1>6. PICK y \in Seq(Cells) :
        /\ Head(w) = Take \o y /\ Take \in Seq(Cells) /\ Len(Take) <= DefaultMtu
        /\ IF y = <<>> THEN Rest = Tail(w) ELSE Rest = <<y>> \o Tail(w)
  BY <1>1, <1>2, TakeRest, Zenon DEF Splits
<1>7. b.data = d \o Take
  BY <1>1, <1>6, LandedData, Zenon
<1>8. d \in Seq(Cells)
  BY <1>1, SelfFields DEF RxBuffers, SoundBuffers, Buffers
<1> HIDE DEF b, d, x
<1>9. \E more \in Seq(Cells) :
        /\ b.data \o more = x
        /\ \/ more # <<>> /\ Rest \in {<<more>>, <<<<>>, more>>}
           \/ Rest = <<>> /\ more = <<>>
  <2> DEFINE t == Take
  <2>0. t \in Seq(Cells) /\ b.data = d \o t /\ Head(w) = t \o y
    BY <1>6, <1>7
  <2> HIDE DEF t
  <2>1. Grouped(d, t, y)
    BY <1>8, <2>0, Regroup, Zenon
  <2>2. CASE w = <<rest>>
    <3>1. Head(w) = rest /\ Tail(w) = <<>>
      BY <2>2, QueueHeads
    <3>2. (d \o t) \o y = x
      BY <2>0, <2>1, <3>1, <1>5, Zenon DEF Grouped
    <3>3. <<y>> \o <<>> = <<y>>
      OBVIOUS
    <3>4. (y = <<>> /\ Rest = <<>>) \/ (y # <<>> /\ Rest = <<y>>)
      BY <3>1, <3>3, <1>6, Zenon
    <3>5. QED
      BY <2>0, <3>2, <3>4, Zenon
  <2>3. CASE w = <<<<>>, rest>>
    <3>1. Head(w) = <<>> /\ Tail(w) = <<rest>>
      BY <2>3, QueueHeads
    <3>2. t = <<>> /\ y = <<>>
      <4>1. t \o y = <<>>
        BY <3>1, <2>0
      <4>2. QED
        BY <4>1, <2>0, ConcatEqualIffEmpty
    <3>3. d \o t = d
      BY <3>2, <2>1, Zenon DEF Grouped
    <3>4. Rest = <<rest>>
      BY <3>1, <3>2, <1>6, Zenon
    <3>5. QED
      BY <3>3, <3>4, <2>0, <1>5, Zenon
  <2>4. QED
    BY <2>2, <2>3, <1>5, Zenon
<1>10. self'.rx_msg = b /\ self'.tx_msg = self.tx_msg
  BY <1>1, <1>2, Zenon DEF SelfOK, Selves
<1>11. /\ device'.wire = Rest /\ device'.inbox = device.inbox
       /\ device'.got = device.got /\ device'.out = device.out
  BY <1>2, Zenon DEF ShapeInv
<1>12. Sent' /\ Expects(code, cells)'
  BY <1>2, <1>5, <1>10, <1>11, AnswerKept, Zenon
<1>13. AtRead'
  <2>1. PICK more \in Runs :
          /\ b.data \o more = x
          /\ \/ more # <<>> /\ Rest \in {<<more>>, <<<<>>, more>>}
             \/ Rest = <<>> /\ more = <<>>
    BY <1>9, Zenon DEF Runs
  <2>2. self'.rx_msg.data \o more = Reply(code, session'.packets, cells)
    BY <2>1, <1>2, <1>10, Zenon DEF x
  <2>3. \/ more # <<>> /\ device'.wire \in {<<more>>, <<<<>>, more>>}
        \/ device'.wire = <<>> /\ (more = <<>> \/ device'.gone)
    BY <2>1, <1>11, Zenon
  <2>4. QED
    BY <2>2, <2>3, <1>5, <1>11, <1>12, Zenon DEF AtRead
<1>14. FileInv'
  BY <1>2, <1>3, <1>11, FileKept, Zenon
<1>15. StageInv'
  BY <1>2, <1>3, <1>13, Zenon DEF StageInv
<1>16. QED
  BY <1>14, <1>15

\* obex_bulk_read times out only where the device has gone.
LEMMA ReadTimeoutLive ==
  ASSUME ObexInv, ShapeInv, LiveInv, ReadTimeout
  PROVE  LiveInv'
<1> SUFFICES ASSUME Live'
             PROVE  FileInv' /\ StageInv'
  BY DEF LiveInv
<1> DEFINE f == session.faults + Late
<1>1. /\ pc = "read" /\ pc' = "callback" /\ rsp' = "error" /\ ~Whole /\ device.wire = <<>>
      /\ session' = [session EXCEPT !.faults = f]
      /\ object' = object /\ device' = device /\ file' = file
  BY Zenon DEF ReadTimeout, TimedOut
<1> HIDE DEF f
<1>2. session'.requests = session.requests /\ session'.status = session.status
  BY <1>1, Zenon DEF ShapeInv
<1>3. FileInv /\ StageInv
  BY <1>2, LiveFacts, Zenon DEF Live
<1>4. PICK code, cells, rest : Reading(code, cells, rest) /\ (Whole <=> rest = <<>>)
  BY <1>1, <1>3, ReadsFor, Zenon
<1>5. device.gone
  <2>1. <<rest>> # <<>> /\ <<<<>>, rest>> # <<>>
    OBVIOUS
  <2>2. QED
    BY <2>1, <1>1, <1>4, Zenon DEF Reading
<1>6. FileInv'
  BY <1>1, <1>2, <1>3, FileKept, Zenon
<1>6a. Silent'
  BY <1>1, <1>4, Zenon DEF Reading, Silent
<1>7. StageInv'
  BY <1>1, <1>2, <1>3, <1>5, <1>6a, Zenon DEF StageInv
<1>8. QED
  BY <1>6, <1>7

\* What is left of a response without its first three bytes, and without the
\* eight bytes behind them in the answer to CONNECT.
LEMMA HeaderOff ==
  ASSUME ObexInv, NEW code, NEW cells, Reading(code, cells, <<>>)
  PROVE  /\ self.rx_msg.data[1] = <<"rsp", code, session.packets>>
         /\ buf_remove_begin(buf_remove_begin(self.rx_msg, 3),
              IF object.cmd = "CONNECT" THEN 8 ELSE object.offset).data
              = IF object.cmd = "CONNECT" THEN <<>> ELSE cells
<1> DEFINE d == self.rx_msg.data
           x == Reply(code, session.packets, cells)
           b == buf_remove_begin(self.rx_msg, 3)
           n == IF object.cmd = "CONNECT" THEN 8 ELSE object.offset
<1>1. SelfOK /\ ObjectOK /\ code \in Words /\ session.packets \in Nat /\ cells \in Seq(Cells)
  BY DEF Reading, ObexInv, SessionOK, Codes, Words, Runs
<1>2. d \in Seq(Cells) /\ self.rx_msg \in SoundBuffers /\ self.rx_msg \in RxBuffers
  BY <1>1, SelfFields DEF RxBuffers, SoundBuffers, Buffers
<1>3. ReplyIs(x, code, session.packets, cells)
  BY <1>1, ReplyOf, Zenon
<1> HIDE DEF x
<1>4. d = x
  <2>1. d \o <<>> = x
    BY Zenon DEF Reading, x
  <2> HIDE DEF d
  <2>2. d \o <<>> = d
    BY <1>2
  <2>3. QED
    BY <2>1, <2>2
<1>5. x[1] = <<"rsp", code, session.packets>>
  BY <1>3, Zenon DEF ReplyIs
<1>6. b.data = cells
  <2>1. PICK front \in Seq(Cells) : Len(front) = 3 /\ x = front \o cells
    BY <1>3, Zenon DEF ReplyIs
  <2>2. buf_remove_begin(self.rx_msg, Len(front)).data = cells
    BY <2>1, <1>1, <1>2, <1>4, RemovedData, Zenon
  <2>3. QED
    BY <2>1, <2>2, Zenon
<1>7. b \in SoundBuffers
  <2>1. 3 \in Nat
    OBVIOUS
  <2>2. b \in RxBuffers
    BY <1>2, <2>1, RxShortened, Zenon
  <2>3. QED
    BY <2>2 DEF RxBuffers
<1> HIDE DEF b
<1> DEFINE e == <<>>
           z == 0
           p == 8
<1>8. e \in Seq(Cells) /\ Len(e) = z /\ z \in Nat /\ p \in Nat
  OBVIOUS
<1>9. CASE object.cmd # "CONNECT"
  <2>1. n = z
    BY <1>1, <1>9, ObjectFields, Zenon
  <2>2. cells = e \o cells
    BY <1>1
  <2> HIDE DEF e, z
  <2>3. b.data = e \o cells
    BY <2>2, <1>6, Zenon
  <2>4. buf_remove_begin(b, Len(e)).data = cells
    BY <2>3, <1>1, <1>7, <1>8, RemovedData, Zenon
  <2>5. QED
    BY <2>1, <2>4, <1>4, <1>5, <1>8, <1>9, Zenon DEF b
<1>10. CASE object.cmd = "CONNECT"
  <2>1. cells = <<>> \/ cells = Pads(p)
    BY <1>10, Zenon DEF Reading, Expects, Plain
  <2>2. n = p
    BY <1>10, Zenon
  <2> HIDE DEF p
  <2>3. CASE cells = <<>>
    <3>1. buf_remove_begin(b, p).data = <<>>
      BY <2>3, <1>6, <1>7, <1>8, RemovedAll, Zenon
    <3>2. QED
      BY <3>1, <2>2, <1>4, <1>5, <1>10, Zenon DEF b
  <2>4. CASE cells = Pads(p)
    <3>1. Pads(p) \in Seq(Cells) /\ Len(Pads(p)) = p
      BY <1>8, Fillers
    <3> DEFINE y == Pads(p)
    <3>2. y \in Seq(Cells) /\ Len(y) = p /\ b.data = y
      BY <3>1, <2>4, <1>6, Zenon
    <3> HIDE DEF y, e
    <3>3. y \o <<>> = y
      BY <3>2
    <3>4. b.data = y \o e
      BY <3>2, <3>3, Zenon DEF e
    <3>5. buf_remove_begin(b, Len(y)).data = e
      BY <3>2, <3>4, <1>7, <1>8, RemovedData, Zenon
    <3>6. QED
      BY <3>2, <3>5, <2>2, <1>4, <1>5, <1>10, Zenon DEF b, e
  <2>5. QED
    BY <2>1, <2>3, <2>4
<1>11. QED
  BY <1>9, <1>10

\* obex_object_receive has the code of the answer and the headers behind it.
LEMMA ReceiveHeaderLive ==
  ASSUME ObexInv, ShapeInv, LiveInv, ReceiveHeader
  PROVE  LiveInv'
<1> SUFFICES ASSUME Live'
             PROVE  FileInv' /\ StageInv'
  BY DEF LiveInv
<1> DEFINE c == self.rx_msg.data[1][2]
           id == self.rx_msg.data[1][3]
           n == IF object.cmd = "CONNECT" THEN 8 ELSE object.offset
           b == buf_remove_begin(buf_remove_begin(self.rx_msg, 3), n)
           tx == CASE object.cmd = "DISCONNECT" -> DefaultMtu
                   [] object.cmd = "CONNECT" /\ c = "SUCCESS" -> MtuTx
                   [] OTHER -> self.mtu_tx
<1>1. SelfOK /\ ObjectOK
  BY DEF ObexInv
<1>2. /\ pc = "read" /\ pc' = "parse" /\ Whole
      /\ self' = [self EXCEPT !.rx_msg = b, !.mtu_tx = tx]
      /\ object' = [object EXCEPT !.offset = 0]
      /\ session' = [session EXCEPT !.reply = id]
      /\ rsp' = c
      /\ device' = device /\ send' = send /\ progress' = progress /\ file' = file
  BY Zenon DEF ReceiveHeader
<1> HIDE DEF tx, b, c, id
<1>3. self'.rx_msg = b /\ self'.tx_msg = self.tx_msg
  BY <1>1, <1>2, Zenon DEF SelfOK, Selves
<1>4. /\ session'.requests = session.requests /\ session'.packets = session.packets
      /\ session'.status = session.status /\ session'.reply = id
  BY <1>2, Zenon DEF ShapeInv
<1>5. /\ object'.cmd = object.cmd /\ object'.name = object.name
      /\ object'.txq = object.txq /\ object'.seen = object.seen
      /\ object'.rx_body = object.rx_body /\ object'.hinted = object.hinted
      /\ object'.body = object.body
  BY <1>1, <1>2, Zenon DEF ObjectOK, Wanted
<1>6. FileInv /\ StageInv
  BY <1>4, LiveFacts, Zenon DEF Live
<1>7. PICK code, cells, rest : Reading(code, cells, rest) /\ (Whole <=> rest = <<>>)
  BY <1>2, <1>6, ReadsFor, Zenon
<1>8. Reading(code, cells, <<>>)
  BY <1>2, <1>7, Zenon
<1>9. /\ self.rx_msg.data[1] = <<"rsp", code, session.packets>>
      /\ b.data = IF object.cmd = "CONNECT" THEN <<>> ELSE cells
  BY <1>8, HeaderOff, Zenon DEF b
<1>10. c = code /\ id = session.packets
  BY <1>9 DEF c, id
<1>11. /\ code \in Codes /\ Silent /\ Sent /\ Expects(code, cells)
  BY <1>8, Zenon DEF Reading, Silent
<1>12. Sent'
  BY <1>2, <1>3, <1>4, <1>5, <1>11, AnswerKept, Zenon
<1>13. Replied'
  BY <1>2, <1>4, <1>10, <1>11, <1>12, Zenon DEF Replied, Silent
<1> DEFINE r == session.requests
           m == Len(file)
<1>14. CASE code = "FORBIDDEN" /\ cells = <<>>
  <2>1. b.data = <<>>
    BY <1>9, <1>14, Zenon
  <2>2. QED
    BY <2>1, <1>2, <1>3, <1>4, <1>6, <1>10, <1>13, <1>14, <1>5, FileKept, Zenon
       DEF StageInv, Finished
<1>15. CASE /\ object.cmd \in Plain /\ code = "SUCCESS"
            /\ cells = IF object.cmd = "CONNECT" THEN Pads(8) ELSE <<>>
  <2>1. b.data = <<>>
    BY <1>9, <1>15, Zenon
  <2>2. Finished'
    BY <2>1, <1>2, <1>3, <1>5, <1>10, <1>15, Zenon DEF Finished
  <2>3. QED
    BY <2>2, <1>2, <1>4, <1>6, <1>13, <1>5, FileKept, Zenon DEF StageInv
<1>16. CASE /\ object.cmd = "PUT" /\ cells = <<>>
            /\ code = IF object.txq = <<>> THEN "SUCCESS" ELSE "CONTINUE"
  <2>1. b.data = <<>>
    BY <1>9, <1>16, Zenon
  <2>2. Finished'
    BY <2>1, <1>2, <1>3, <1>5, <1>10, <1>16, Zenon DEF Finished
  <2>3. QED
    BY <2>2, <1>2, <1>4, <1>6, <1>13, <1>5, FileKept, Zenon DEF StageInv
<1>17. CASE /\ object.cmd = "GET"
            /\ GetCells(code, cells, object.seen, object.rx_body, object.hinted, device.out, r, m)
  <2>1. b.data = cells
    BY <1>9, <1>17, Zenon
  <2>2. Parses'
    BY <2>1, <1>2, <1>3, <1>4, <1>5, <1>10, <1>17, Zenon DEF Parses
  <2>3. QED
    BY <2>2, <1>2, <1>4, <1>6, <1>13, <1>5, FileKept, Zenon DEF StageInv
<1>18. QED
  BY <1>11, <1>14, <1>15, <1>16, <1>17, Zenon DEF Expects

-----------------------------------------------------------------------------
(* The headers of a response are read one by one.                          *)

\* What is left to parse of the answer to a GET: bytes m + 1 to k of the file
\* behind the headers front.
Parts(front, m, k) ==
  /\ object.cmd = "GET" /\ m \in 0 .. Len(file) /\ k \in 0 .. Len(file) /\ m <= k
  /\ front \in {<<>>, LenBuf(Len(file))}
  /\ device.out = Cut(session.requests, k, Len(file))
  /\ GetFront(front, object.seen, object.rx_body, object.hinted, session.requests,
              Len(file), m)
  /\ rsp \in {"CONTINUE", "SUCCESS"} /\ (rsp = "SUCCESS" => k = Len(file))
  /\ self.rx_msg.data
       = front \o Stream(BodyName(rsp = "SUCCESS"), Cut(session.requests, m, k))

\* While there is something to parse the answer is one to a GET.
LEMMA ParseParts ==
  ASSUME StageInv, Parsing
  PROVE  Replied /\ \E front, m, k : Parts(front, m, k)
<1>1. pc = "parse" /\ self.rx_msg.data # <<>>
  BY DEF Parsing
<1>2. Replied /\ (Finished \/ Parses)
  BY <1>1 DEF StageInv
<1>3. ~Finished
  BY <1>1 DEF Finished
<1>4. Parses
  BY <1>2, <1>3
<1>5. PICK m, k \in 0 .. Len(file) : \E front \in {<<>>, LenBuf(Len(file))} :
    /\ m <= k /\ device.out = Cut(session.requests, k, Len(file))
    /\ GetFront(front, object.seen, object.rx_body, object.hinted, session.requests,
                Len(file), m)
    /\ rsp \in {"CONTINUE", "SUCCESS"} /\ (rsp = "SUCCESS" => k = Len(file))
    /\ self.rx_msg.data
         = front \o Stream(BodyName(rsp = "SUCCESS"), Cut(session.requests, m, k))
  BY <1>4, Zenon DEF Parses, GetCells
<1>6. \E front : Parts(front, m, k)
  BY <1>4, <1>5, Zenon DEF Parts, Parses
<1>7. QED
  BY <1>2, <1>6, Zenon

\* obex_object_receive_body puts the fragment behind what it has.
LEMMA BodyData ==
  ASSUME ObjectOK, NEW n \in Nat, NEW bytes \in Seq(Cells)
  PROVE  buf_insert_end(BodyBuffer(n), bytes).data
           = (IF object.rx_body = <<>> THEN <<>> ELSE object.rx_body[1].data) \o bytes
<1> DEFINE size == IF object.hinted # 0 THEN object.hinted ELSE Threshold + n
           b == IF object.rx_body = <<>> THEN buf_new(size) ELSE object.rx_body[1]
           r == buf_resize(b, buf_total_size(b) + Threshold + n)
<1>1. object.hinted \in Nat /\ object.rx_body \in Seq(SoundBuffers) /\ Threshold \in Nat
  BY ObjectFields, ObexAssumption
<1>2. size \in Nat
  BY <1>1
<1>3. /\ b \in SoundBuffers
      /\ b.data = IF object.rx_body = <<>> THEN <<>> ELSE object.rx_body[1].data
  <2>1. CASE object.rx_body = <<>>
    <3>1. GoodBuffer(buf_new(size), Cells) /\ buf_new(size).data = <<>>
      BY <1>2, NewBuffer, Zenon
    <3>2. QED
      BY <2>1, <3>1, Zenon DEF GoodBuffer, SoundBuffers
  <2>2. CASE object.rx_body # <<>>
    BY <2>2, <1>1
  <2>3. QED
    BY <2>1, <2>2
<1>4. BodyBuffer(n) = IF b.avail + b.tail < n THEN r ELSE b
  BY Zenon DEF BodyBuffer
<1> HIDE DEF b
<1>5. GoodBuffer(b, Cells) /\ buf_total_size(b) = b.block /\ b.block \in Nat
  BY <1>3 DEF SoundBuffers, GoodBuffer, Sound, Buffers
<1>6. /\ buf_total_size(b) + Threshold + n \in Nat
      /\ buf_total_size(b) + Threshold + n >= b.block
  BY <1>1, <1>5
<1>7. GoodBuffer(r, Cells) /\ r.data = b.data
  BY <1>5, <1>6, ResizeBuffer, Zenon
<1>8. GoodBuffer(BodyBuffer(n), Cells) /\ BodyBuffer(n).data = b.data
  BY <1>4, <1>5, <1>7, Zenon
<1>9. buf_insert_end(BodyBuffer(n), bytes).data = BodyBuffer(n).data \o bytes
  BY <1>8, InsertEnd, Zenon
<1>10. QED
  BY <1>3, <1>8, <1>9, Zenon

\* The bytes behind a body header are those it carries.
LEMMA FragmentIs ==
  ASSUME NEW hi \in Words, NEW bytes \in Seq(Cells)
  PROVE  Fragment(Stream(hi, bytes), Len(bytes)) = bytes
<1> DEFINE x == Stream(hi, bytes)
           n == Len(bytes)
           e(i) == IF i + 3 <= Len(x) THEN x[i + 3] ELSE <<"junk">>
<1>0. n \in Nat
  OBVIOUS
<1>1a. /\ Len(x) = 3 + n
       /\ \A i \in 1 .. n : x[3 + i] = bytes[i]
  BY StreamIs, Zenon
<1> HIDE DEF x
<1>1. /\ Len(x) = 3 + n /\ n \in Nat
      /\ \A i \in 1 .. n : x[3 + i] = bytes[i]
  BY <1>0, <1>1a, Zenon
<1>2. ASSUME NEW i \in 1 .. n PROVE e(i) = bytes[i]
  <2>1. i + 3 <= Len(x) /\ i + 3 = 3 + i
    BY <1>1
  <2>2. QED
    BY <2>1, <1>1, Zenon
<1>3. Fragment(x, n) = [i \in 1 .. n |-> e(i)]
  BY Zenon DEF Fragment
<1> HIDE DEF e
<1>4. [i \in 1 .. n |-> e(i)] = [i \in 1 .. n |-> bytes[i]]
  BY <1>2, Zenon
<1>5. bytes = [i \in 1 .. n |-> bytes[i]]
  OBVIOUS
<1>6. QED
  BY <1>3, <1>4, <1>5, Zenon DEF x

\* The body part of an answer.
BodyPart(m, k) == Stream(BodyName(rsp = "SUCCESS"), Cut(session.requests, m, k))

\* What a body part is made of.
BodyPartIs(m, k) ==
  /\ BodyPart(m, k) \in Seq(Cells) /\ Len(BodyPart(m, k)) = 3 + (k - m)
  /\ BodyPart(m, k)[1] = <<"hdr", BodyName(rsp = "SUCCESS"), 3 + (k - m), 0>>
  /\ Cut(session.requests, m, k) \in Seq(Cells) /\ k - m \in Nat
  /\ Fragment(BodyPart(m, k), k - m) = Cut(session.requests, m, k)

\* The cells of a body part.
LEMMA BodyPartOf ==
  ASSUME SessionOK, FileInv, NEW front, NEW m, NEW k, Parts(front, m, k)
  PROVE  BodyPartIs(m, k)
<1> DEFINE hi == BodyName(rsp = "SUCCESS")
           r == session.requests
           c == Cut(r, m, k)
<1>1. r \in Nat /\ Len(file) \in Nat
  BY DEF SessionOK, FileInv
<1>2. m \in Nat /\ k \in Nat /\ m <= k /\ k - m \in Nat
  BY <1>1 DEF Parts
<1>3. hi \in Words
  BY SomeWords DEF BodyName
<1>4. c \in Seq(Cells) /\ Len(c) = k - m
  BY <1>1, <1>2, CutIs, Zenon
<1> HIDE DEF hi, c
<1>5. /\ Stream(hi, c) \in Seq(Cells) /\ Len(Stream(hi, c)) = 3 + Len(c)
      /\ Stream(hi, c)[1] = <<"hdr", hi, 3 + Len(c), 0>>
  BY <1>3, <1>4, StreamIs, Zenon
<1>6. Fragment(Stream(hi, c), Len(c)) = c
  BY <1>3, <1>4, FragmentIs, Zenon
<1>7. QED
  BY <1>2, <1>4, <1>5, <1>6, Zenon DEF BodyPartIs, BodyPart, hi, c

\* The first header of an answer, and what is behind it.
LEMMA ParseLead ==
  ASSUME ObexInv, FileInv, NEW front, NEW m, NEW k, Parts(front, m, k)
  PROVE  \/ /\ front = <<>> /\ self.rx_msg.data = BodyPart(m, k)
            /\ self.rx_msg.data[1] = <<"hdr", BodyName(rsp = "SUCCESS"), 3 + (k - m), 0>>
            /\ buf_remove_begin(self.rx_msg, 3 + (k - m)).data = <<>>
         \/ /\ front = LenBuf(Len(file))
            /\ self.rx_msg.data[1] = <<"hdr", "LENGTH", 5, Len(file)>>
            /\ buf_remove_begin(self.rx_msg, 5).data = BodyPart(m, k)
<1> DEFINE x == BodyPart(m, k)
           n == Len(file)
           d == self.rx_msg.data
<1>1. SelfOK /\ SessionOK /\ n \in Nat
  BY DEF ObexInv, FileInv
<1>2. self.rx_msg \in SoundBuffers
  BY <1>1, SelfFields DEF RxBuffers
<1>3. BodyPartIs(m, k)
  BY <1>1, BodyPartOf, Zenon
<1>4. /\ x \in Seq(Cells) /\ Len(x) = 3 + (k - m)
      /\ x[1] = <<"hdr", BodyName(rsp = "SUCCESS"), 3 + (k - m), 0>>
  BY <1>3, Zenon DEF BodyPartIs
<1>5. front \in {<<>>, LenBuf(n)} /\ d = front \o x
  BY Zenon DEF Parts, BodyPart
<1> HIDE DEF x
<1>6. CASE front = <<>>
  <2>1. <<>> \o x = x
    BY <1>4
  <2>2. d = x
    BY <2>1, <1>5, <1>6, Zenon
  <2>3. x \o <<>> = x
    BY <1>4
  <2> DEFINE e == <<>>
  <2>4. e \in Seq(Cells)
    OBVIOUS
  <2>5. d = x \o e
    BY <2>2, <2>3, Zenon
  <2> HIDE DEF e
  <2>6. buf_remove_begin(self.rx_msg, Len(x)).data = e
    BY <2>4, <2>5, <1>2, <1>4, RemovedData, Zenon
  <2>7. QED
    BY <2>2, <2>6, <1>4, <1>6, Zenon DEF e, x
<1>7. CASE front = LenBuf(n)
  <2> DEFINE y == LenBuf(n)
  <2>1. "LENGTH" \in Words
    BY SomeWords
  <2>2. y \in Seq(Cells) /\ Len(y) = 5 /\ y[1] = <<"hdr", "LENGTH", 5, n>>
    BY <2>1, <1>1, UintIs DEF LenBuf
  <2> HIDE DEF y
  <2>3. d = y \o x
    BY <1>5, <1>7, Zenon DEF y
  <2>4. buf_remove_begin(self.rx_msg, Len(y)).data = x
    BY <2>2, <2>3, <1>2, <1>4, RemovedData, Zenon
  <2>5. 1 \in 1 .. Len(y)
    BY <2>2
  <2>6. (y \o x)[1] = y[1]
    BY <2>2, <2>5, <1>4, ConcatAt, ZenonT(60)
  <2>7. QED
    BY <2>2, <2>3, <2>4, <2>6, <1>7, Zenon DEF x
<1>8. QED
  BY <1>5, <1>6, <1>7

\* A step that parses has only to say what it leaves.
LEMMA ParseFrame ==
  ASSUME FileInv, StageInv, pc = "parse", pc' \in {"parse", "callback"},
         UNCHANGED <<send, rsp, progress, device, session, file>>,
         object'.cmd = object.cmd, object'.name = object.name, object'.txq = object.txq,
         self'.tx_msg = self.tx_msg, Replied,
         Finished' \/ (pc' = "parse" /\ Parses')
  PROVE  FileInv' /\ StageInv'
<1>1. \A d : SentWith(d) => SentWith(d)'
  BY Zenon DEF SentWith
<1>2. Opened' = Opened
  BY Zenon DEF Opened
<1>3. Sent => Sent'
  BY <1>1, <1>2, Zenon DEF Sent
<1>4. Replied'
  BY <1>3, Zenon DEF Replied, Silent
<1>5. FileInv'
  BY FileKept, Zenon
<1>6. session.status = "busy" /\ session.requests > 0
  BY DEF StageInv
<1>7. CASE pc' = "parse"
  BY <1>4, <1>5, <1>6, <1>7, Zenon DEF StageInv
<1>8. CASE pc' = "callback"
  BY <1>4, <1>5, <1>6, <1>8, Zenon DEF StageInv, Replied
<1>9. QED
  BY <1>7, <1>8, Zenon

\* The end of the headers.
LEMMA ParseDoneLive ==
  ASSUME ObexInv, ShapeInv, LiveInv, ParseDone
  PROVE  LiveInv'
<1> SUFFICES ASSUME Live'
             PROVE  FileInv' /\ StageInv'
  BY DEF LiveInv
<1>1. /\ pc = "parse" /\ self.rx_msg.data = <<>> /\ pc' = "callback"
      /\ UNCHANGED <<self, object, send, rsp, progress, device, session, file>>
  BY Zenon DEF ParseDone
<1>2. FileInv /\ StageInv
  BY <1>1, LiveFacts, Zenon DEF Live
<1>3. Replied /\ (Finished \/ Parses)
  BY <1>1, <1>2, Zenon DEF StageInv
<1>4. ~Parses
  <2> SUFFICES ASSUME Parses PROVE FALSE
    OBVIOUS
  <2>1. PICK m, k \in 0 .. Len(file) : \E front \in {<<>>, LenBuf(Len(file))} :
      /\ m <= k
      /\ self.rx_msg.data
           = front \o Stream(BodyName(rsp = "SUCCESS"), Cut(session.requests, m, k))
    BY Zenon DEF Parses, GetCells
  <2>2. PICK front \in {<<>>, LenBuf(Len(file))} :
      /\ m <= k /\ self.rx_msg.data
           = front \o Stream(BodyName(rsp = "SUCCESS"), Cut(session.requests, m, k))
    BY <2>1
  <2>3. session.requests \in Nat /\ Len(file) \in Nat
    BY <1>2 DEF ObexInv, SessionOK, FileInv
  <2>4. m \in Nat /\ k \in Nat
    BY <2>3
  <2> DEFINE hi == BodyName(rsp = "SUCCESS")
             c == Cut(session.requests, m, k)
             x == Stream(hi, c)
  <2>5. hi \in Words /\ "LENGTH" \in Words
    BY SomeWords DEF BodyName
  <2>6. c \in Seq(Cells)
    BY <2>2, <2>3, <2>4, CutIs, Zenon
  <2> HIDE DEF hi, c
  <2>7. x \in Seq(Cells) /\ Len(x) = 3 + Len(c)
    BY <2>5, <2>6, StreamIs, Zenon
  <2>8. front \in Seq(Cells)
    <3>1. LenBuf(Len(file)) \in Seq(Cells)
      BY <2>3, <2>5, UintIs DEF LenBuf
    <3> DEFINE y == LenBuf(Len(file))
    <3>2. front \in {<<>>, y} /\ y \in Seq(Cells)
      BY <2>2, <3>1
    <3>3. <<>> \in Seq(Cells)
      OBVIOUS
    <3> HIDE DEF y
    <3>4. QED
      BY <3>2, <3>3, Zenon
  <2> HIDE DEF x
  <2>9. front \o x = <<>>
    BY <2>2, <1>1, Zenon DEF x, hi, c
  <2>10. Len(front \o x) = Len(front) + Len(x) /\ Len(front) \in Nat /\ Len(c) \in Nat
    <3>1. front \in Seq(Cells) /\ x \in Seq(Cells) /\ c \in Seq(Cells)
      BY <2>6, <2>7, <2>8
    <3>2. QED
      BY <3>1
  <2>11. Len(front \o x) = 0
    BY <2>9
  <2>12. QED
    BY <2>7, <2>10, <2>11
<1>5. Finished'
  BY <1>1, <1>3, <1>4, Zenon DEF Finished
<1>6. QED
  BY <1>1, <1>2, <1>3, <1>5, ParseFrame, Zenon

\* LENGTH is the first header of the first answer: the body comes next.
LEMMA ParseHeaderLive ==
  ASSUME ObexInv, ShapeInv, LiveInv, ParseHeader
  PROVE  LiveInv'
<1> SUFFICES ASSUME Live'
             PROVE  FileInv' /\ StageInv'
  BY DEF LiveInv
<1> DEFINE h == self.rx_msg.data[1]
           n == Len(file)
           r == session.requests
<1>1. /\ Parsing /\ pc = "parse" /\ pc' = pc
      /\ h[2] \notin {"BODY", "BODY_END"}
      /\ object' = IF h[2] = "LENGTH"
                   THEN [object EXCEPT !.hinted = h[4], !.seen = object.seen \cup {"LENGTH"}]
                   ELSE object
      /\ self' = [self EXCEPT !.rx_msg = buf_remove_begin(self.rx_msg, h[3])]
      /\ UNCHANGED <<send, rsp, progress, device, session, file>>
  BY Zenon DEF ParseHeader, Parsing
<1>2. FileInv /\ StageInv /\ SelfOK /\ ObjectOK
  BY <1>1, LiveFacts, Zenon DEF Live, ObexInv
<1>3. Replied /\ \E front, m, k : Parts(front, m, k)
  BY <1>1, <1>2, ParseParts, Zenon
<1>4. PICK front, m, k : Parts(front, m, k)
  BY <1>3
<1>5. front = LenBuf(n) /\ h = <<"hdr", "LENGTH", 5, n>>
      /\ buf_remove_begin(self.rx_msg, 5).data = BodyPart(m, k)
  <2> DEFINE w == self.rx_msg.data[1]
  <2>1. w = <<"hdr", BodyName(rsp = "SUCCESS"), 3 + (k - m), 0>> => w[2] \in {"BODY", "BODY_END"}
    <3> HIDE DEF w
    <3>1. QED
      BY DEF BodyName
  <2>2. QED
    BY <2>1, <1>1, <1>2, <1>4, ParseLead, Zenon
<1>6. h[2] = "LENGTH" /\ h[3] = 5 /\ h[4] = n
  <2> HIDE DEF h
  <2>1. QED
    BY <1>5
<1> HIDE DEF h
<1>7. object' = [object EXCEPT !.hinted = n, !.seen = object.seen \cup {"LENGTH"}]
  BY <1>1, <1>6, Zenon
<1>8. self' = [self EXCEPT !.rx_msg = buf_remove_begin(self.rx_msg, 5)]
  BY <1>1, <1>6, Zenon
<1>9. /\ object'.cmd = object.cmd /\ object'.name = object.name
      /\ object'.txq = object.txq /\ object'.seen = object.seen \cup {"LENGTH"}
      /\ object'.rx_body = object.rx_body /\ object'.hinted = n
  BY <1>2, <1>7, Zenon DEF ObjectOK, Wanted
<1>10. self'.rx_msg = buf_remove_begin(self.rx_msg, 5) /\ self'.tx_msg = self.tx_msg
  BY <1>2, <1>8, Zenon DEF SelfOK, Selves
<1>11. m = 0 /\ object.seen = {} /\ object.rx_body = <<>>
  <2>1. n \in Nat /\ "LENGTH" \in Words
    BY <1>2, SomeWords DEF FileInv
  <2>2. Len(LenBuf(n)) = 5
    BY <2>1, UintIs DEF LenBuf
  <2>3. Len(<<>>) = 0 /\ 0 # 5
    OBVIOUS
  <2>4. front # <<>>
    BY <2>2, <2>3, <1>5, Zenon
  <2>5. GetFront(front, object.seen, object.rx_body, object.hinted, r, n, m)
    BY <1>4, Zenon DEF Parts
  <2>6. QED
    BY <2>4, <2>5, Zenon DEF GetFront, GetFresh
<1>12. GetHalf(object'.seen, object'.rx_body, object'.hinted, r, n, m)
  <2>1. "BODY" \notin object.seen \cup {"LENGTH"} /\ "LENGTH" \in object.seen \cup {"LENGTH"}
    BY <1>11
  <2>2. QED
    BY <2>1, <1>9, <1>11, Zenon DEF GetHalf
<1>13. self'.rx_msg.data = <<>> \o Stream(BodyName(rsp = "SUCCESS"), Cut(r, m, k))
  <2> DEFINE x == BodyPart(m, k)
  <2>1. x \in Seq(Cells)
    BY <1>2, <1>4, BodyPartOf, Zenon DEF BodyPartIs, ObexInv
  <2> HIDE DEF x
  <2>2. <<>> \o x = x
    BY <2>1
  <2>3. QED
    BY <2>2, <1>5, <1>10, Zenon DEF x, BodyPart
<1> DEFINE e == <<>>
<1>14. Parses'
  <2>1. /\ m \in 0 .. n /\ k \in 0 .. n /\ m <= k /\ device.out = Cut(r, k, n)
        /\ rsp \in {"CONTINUE", "SUCCESS"} /\ (rsp = "SUCCESS" => k = n)
        /\ object.cmd = "GET"
    BY <1>4, Zenon DEF Parts
  <2>2. GetFront(e, object'.seen, object'.rx_body, object'.hinted, r, n, m)
    BY <1>12, Zenon DEF GetFront
  <2>3. e \in {<<>>, LenBuf(n)} /\ self'.rx_msg.data
           = e \o Stream(BodyName(rsp = "SUCCESS"), Cut(r, m, k))
    BY <1>13, Zenon
  <2> HIDE DEF e
  <2>4. GetCells(rsp, self'.rx_msg.data, object'.seen, object'.rx_body, object'.hinted,
                 device.out, r, n)
    BY <2>1, <2>2, <2>3, Zenon DEF GetCells
  <2>5. QED
    BY <2>1, <2>4, <1>1, <1>9, Zenon DEF Parses
<1>15. QED
  BY <1>1, <1>2, <1>3, <1>9, <1>10, <1>14, ParseFrame, Zenon

\* What the object has received grows by the fragment.
LEMMA BodyGrows ==
  ASSUME ObexInv, FileInv, NEW m, NEW k, Parts(<<>>, m, k),
         self.rx_msg.data = BodyPart(m, k)
  PROVE  /\ GetHalf(object.seen, object.rx_body, object.hinted, session.requests, Len(file), m)
         /\ buf_insert_end(BodyBuffer(k - m), Fragment(self.rx_msg.data, k - m)).data
              = Cut(session.requests, 0, k)
<1> DEFINE r == session.requests
           n == Len(file)
           z == 0
           c == Cut(r, m, k)
           e == <<>>
<1>1. SessionOK /\ ObjectOK /\ r \in Nat /\ n \in Nat /\ z \in Nat
  BY DEF ObexInv, SessionOK, FileInv
<1>2. m \in Nat /\ k \in Nat /\ m <= k /\ z <= m
  BY <1>1 DEF Parts
<1>3. BodyPartIs(m, k)
  BY <1>1, BodyPartOf, Zenon
<1>4. Fragment(self.rx_msg.data, k - m) = c /\ k - m \in Nat /\ c \in Seq(Cells)
  BY <1>3, Zenon DEF BodyPartIs
<1>5. GetHalf(object.seen, object.rx_body, object.hinted, r, n, m)
  <2>1. Len(LenBuf(n)) = 5
    <3>1. "LENGTH" \in Words
      BY SomeWords
    <3>2. QED
      BY <3>1, <1>1, UintIs DEF LenBuf
  <2>2. Len(e) = 0 /\ 0 # 5
    OBVIOUS
  <2>3. e # LenBuf(n)
    BY <2>1, <2>2, Zenon
  <2>4. GetFront(e, object.seen, object.rx_body, object.hinted, r, n, m)
    BY Zenon DEF Parts
  <2>5. QED
    BY <2>3, <2>4, Zenon DEF GetFront
<1> DEFINE p == IF object.rx_body = <<>> THEN <<>> ELSE object.rx_body[1].data
<1>6. p = Cut(r, z, m)
  <2>1. CASE object.rx_body = <<>>
    <3>1. m = z
      BY <1>5, <2>1, Zenon DEF GetHalf
    <3>2. Cut(r, m, m) = <<>>
      BY <1>1, <1>2, CutEmpty, Zenon
    <3> HIDE DEF z
    <3>3. QED
      BY <3>1, <3>2, <2>1, Zenon
  <2>2. CASE object.rx_body # <<>>
    BY <1>5, <2>2, Zenon DEF GetHalf
  <2>3. QED
    BY <2>1, <2>2
<1> HIDE DEF z
<1>7. Cut(r, z, m) \o c = Cut(r, z, k)
  BY <1>1, <1>2, CutJoin, ZenonT(60)
<1> HIDE DEF c
<1>8. buf_insert_end(BodyBuffer(k - m), c).data = p \o c
  BY <1>1, <1>4, BodyData, Zenon
<1>9. QED
  BY <1>4, <1>5, <1>6, <1>7, <1>8, Zenon DEF z

\* A part of the body, or the end of it.
LEMMA ParseBodyLive ==
  ASSUME ObexInv, ShapeInv, LiveInv, ParseBody
  PROVE  LiveInv'
<1> SUFFICES ASSUME Live'
             PROVE  FileInv' /\ StageInv'
  BY DEF LiveInv
<1> DEFINE h == self.rx_msg.data[1]
           n == Len(file)
           r == session.requests
           w(i) == buf_insert_end(BodyBuffer(i), Fragment(self.rx_msg.data, i))
<1>1. /\ Parsing /\ pc = "parse" /\ pc' = pc /\ h[2] \in {"BODY", "BODY_END"}
      /\ object' = IF h[2] = "BODY"
                   THEN [object EXCEPT !.rx_body = <<w(h[3] - 3)>>]
                   ELSE [object EXCEPT !.rx_body = <<>>, !.body = w(h[3] - 3).data,
                                       !.seen = object.seen \cup {"BODY"}]
      /\ self' = [self EXCEPT !.rx_msg = buf_remove_begin(self.rx_msg, h[3])]
      /\ UNCHANGED <<send, rsp, progress, device, session, file>>
  BY Zenon DEF ParseBody, Parsing
<1>2. FileInv /\ StageInv /\ SelfOK /\ ObjectOK
  BY <1>1, LiveFacts, Zenon DEF Live, ObexInv
<1>3. Replied /\ \E front, m, k : Parts(front, m, k)
  BY <1>1, <1>2, ParseParts, Zenon
<1>4. PICK front, m, k : Parts(front, m, k)
  BY <1>3
<1>5. /\ front = <<>> /\ self.rx_msg.data = BodyPart(m, k)
      /\ h = <<"hdr", BodyName(rsp = "SUCCESS"), 3 + (k - m), 0>>
      /\ buf_remove_begin(self.rx_msg, 3 + (k - m)).data = <<>>
  <2> DEFINE y == self.rx_msg.data[1]
  <2>1. y = <<"hdr", "LENGTH", 5, n>> => y[2] \notin {"BODY", "BODY_END"}
    <3> HIDE DEF y
    <3>1. QED
      OBVIOUS
  <2>2. QED
    BY <2>1, <1>1, <1>2, <1>4, ParseLead, Zenon
<1>5a. m \in Nat /\ k \in Nat /\ n \in Nat /\ m <= k /\ k <= n
  BY <1>2, <1>4 DEF Parts, FileInv
<1>6. h[2] = BodyName(rsp = "SUCCESS") /\ h[3] = 3 + (k - m)
  <2> HIDE DEF h
  <2>1. QED
    BY <1>5
<1> HIDE DEF h
<1>7. h[3] - 3 = k - m
  BY <1>5a, <1>6
<1> HIDE DEF w
<1>8. /\ GetHalf(object.seen, object.rx_body, object.hinted, r, n, m)
      /\ w(k - m).data = Cut(r, 0, k)
  BY <1>2, <1>4, <1>5, BodyGrows, Zenon DEF w
<1>9. self'.rx_msg.data = <<>> /\ self'.tx_msg = self.tx_msg
  BY <1>1, <1>2, <1>5, <1>6, Zenon DEF SelfOK, Selves
<1>10. /\ object.cmd = "GET" /\ device.out = Cut(r, k, n) /\ k \in 0 .. n
       /\ rsp \in {"CONTINUE", "SUCCESS"} /\ (rsp = "SUCCESS" => k = n)
  BY <1>4, Zenon DEF Parts
<1> DEFINE b == w(k - m)
<1> HIDE DEF b
<1>11. CASE rsp = "SUCCESS"
  <2>1. h[2] = "BODY_END"
    BY <1>6, <1>11, Zenon DEF BodyName
  <2>2. "BODY_END" # "BODY"
    OBVIOUS
  <2>3. object' = [object EXCEPT !.rx_body = <<>>, !.body = b.data,
                                 !.seen = object.seen \cup {"BODY"}]
    BY <2>1, <2>2, <1>1, <1>7, Zenon DEF b
  <2>4. /\ object'.cmd = object.cmd /\ object'.name = object.name
        /\ object'.txq = object.txq /\ object'.seen = object.seen \cup {"BODY"}
        /\ object'.body = b.data /\ object'.hinted = object.hinted
    BY <1>2, <2>3, Zenon DEF ObjectOK, Wanted
  <2>5. /\ "BODY" \in object'.seen /\ "LENGTH" \in object'.seen /\ object'.hinted = n
        /\ object'.body = Cut(r, 0, n)
    BY <2>4, <1>8, <1>10, <1>11, Zenon DEF GetHalf, b
  <2>6. GetDone(rsp, object'.seen, object'.rx_body, object'.hinted, object'.body,
                device.out, r, n)
    BY <2>5, <1>11, Zenon DEF GetDone
  <2>7. Finished'
    BY <2>4, <2>6, <1>1, <1>9, <1>10, Zenon DEF Finished
  <2>8. QED
    BY <2>4, <2>7, <1>1, <1>2, <1>3, <1>9, ParseFrame, Zenon
<1>12. CASE rsp = "CONTINUE"
  <2>1. "SUCCESS" # "CONTINUE"
    OBVIOUS
  <2>2. h[2] = "BODY"
    BY <2>1, <1>6, <1>12, Zenon DEF BodyName
  <2>3. object' = [object EXCEPT !.rx_body = <<b>>]
    BY <2>2, <1>1, <1>7, Zenon DEF b
  <2>4. /\ object'.cmd = object.cmd /\ object'.name = object.name
        /\ object'.txq = object.txq /\ object'.seen = object.seen
        /\ object'.rx_body = <<b>> /\ object'.hinted = object.hinted
    BY <1>2, <2>3, Zenon DEF ObjectOK, Wanted
  <2>5. <<b>> # <<>> /\ <<b>>[1] = b
    OBVIOUS
  <2>6. GetHalf(object'.seen, object'.rx_body, object'.hinted, r, n, k)
    BY <2>4, <2>5, <1>8, Zenon DEF GetHalf, b
  <2>7. GetSplit(object'.seen, object'.rx_body, object'.hinted, device.out, r, n)
    BY <2>6, <1>10, Zenon DEF GetSplit
  <2>8. GetDone(rsp, object'.seen, object'.rx_body, object'.hinted, object'.body,
                device.out, r, n)
    BY <2>7, <1>12, Zenon DEF GetDone
  <2>9. Finished'
    BY <2>4, <2>8, <1>1, <1>9, <1>10, Zenon DEF Finished
  <2>10. QED
    BY <2>4, <2>9, <1>1, <1>2, <1>3, <1>9, ParseFrame, Zenon
<1>13. QED
  BY <1>10, <1>11, <1>12

-----------------------------------------------------------------------------
(* exword_handle_callbacks, and what obex_request does next.               *)

\* Where the transfer stands when the callback has been called.
PutNow(k) ==
  /\ k \in 0 .. Len(file) /\ device.got = Cut(session.requests, 0, k)
  /\ object.name = "file" => progress' = Report(session.requests, k, Len(file))
  /\ IF object.txq = <<>> THEN k = Len(file)
     ELSE object.txq = <<BodyH(session.requests, k, Len(file))>>
GetNow ==
  /\ object.txq = <<>>
  /\ object.name = "file" =>
       /\ progress'.name = session.requests
       /\ "BODY" \in object.seen => progress'.transferred = Len(object.body)
       /\ "LENGTH" \in object.seen => progress'.length = object.hinted

\* The callback reports the packet that was sent.
LEMMA Reported ==
  ASSUME ObexInv, ShapeInv, FileInv, Sent, session.requests > 0,
         exword_handle_callbacks
  PROVE  /\ object.cmd = "PUT" => \E k : PutNow(k)
         /\ object.cmd = "GET" => GetNow
<1> DEFINE r == session.requests
           n == Len(file)
           s == send.seq
           id == session.packets
           cmd == object.cmd
           last == object.txq = <<>>
<1>1. /\ r \in Nat /\ r # 0 /\ n \in Nat /\ s \in Int /\ id \in Nat
      /\ last \in BOOLEAN /\ ObjectOK
  BY DEF ObexInv, SessionOK, FileInv, SendOK
<1>2. cmd \in Words
  BY <1>1, ObjectFields, Zenon
<1>3. PICK d \in Runs : self.tx_msg.data = Opening(s, id, cmd, last) \o d /\ SentWith(d)
  BY Zenon DEF Sent, Opened
<1> HIDE DEF last
<1>4. ASSUME cmd = "PUT" PROVE \E k : PutNow(k)
  <2>1. "PUT" \notin Plain /\ "PUT" # "GET"
    BY DEF Plain
  <2>2. PutSent(d, object.txq, device.got, progress, object.name, r, n)
    BY <2>1, <1>3, <1>4, Zenon DEF SentWith
  <2>3. PICK first \in BOOLEAN : \E m, k \in 0 .. n :
      /\ PutLoad(d, object.txq, r, n, first, m, k) /\ device.got = Cut(r, 0, k)
      /\ ~first /\ object.name = "file" => progress = Report(r, m, n)
    BY <2>2, Zenon DEF PutSent
  <2>4. PICK m, k \in 0 .. n :
      /\ PutLoad(d, object.txq, r, n, first, m, k) /\ device.got = Cut(r, 0, k)
      /\ ~first /\ object.name = "file" => progress = Report(r, m, n)
    BY <2>3
  <2>5. progress' = PutProgress
    BY <1>4, Zenon DEF exword_handle_callbacks
  <2>6. ASSUME object.name = "file" PROVE PutProgress = Report(r, k, n)
    <3>1. /\ PutLoad(d, object.txq, r, n, first, m, k)
          /\ ~first => progress = Report(r, m, n)
      BY <2>4, <2>6, Zenon
    <3> DEFINE q == object.txq
    <3>2. /\ PutLoad(d, q, r, n, first, m, k) /\ session.requests = r
          /\ self.tx_msg.data = Opening(s, id, cmd, last) \o d
          /\ r \in Nat /\ n \in Nat /\ s \in Int /\ id \in Nat /\ last \in BOOLEAN
          /\ cmd \in Words
      BY <3>1, <1>1, <1>2, <1>3, Zenon
    <3> HIDE DEF n, s, id, cmd, q, r
    <3>3. PutReporting(s, id, last, cmd, r, n, first, d, q, m, k)
      BY <3>1, <3>2, <2>6, Zenon DEF PutReporting
    <3>4. QED
      BY <3>3, PutReports, Zenon
  <2>7. IF object.txq = <<>> THEN k = n ELSE object.txq = <<BodyH(r, k, n)>>
    BY <2>4, Zenon DEF PutLoad
  <2>8. PutNow(k)
    BY <2>4, <2>5, <2>6, <2>7, Zenon DEF PutNow
  <2>9. QED
    BY <2>8, Zenon
<1>5. ASSUME cmd = "GET" PROVE GetNow
  <2>1. "GET" \notin Plain /\ "PUT" # "GET"
    BY DEF Plain
  <2>2. object.txq = <<>> /\ GetSent(d, progress, object.name, r, n)
    BY <2>1, <1>3, <1>5, Zenon DEF SentWith
  <2>3. progress' = GetProgress
    BY <2>1, <1>5, Zenon DEF exword_handle_callbacks
  <2>4. DOMAIN progress = {"name", "length", "transferred"}
    BY DEF ShapeInv
  <2>5. ASSUME object.name = "file"
        PROVE  /\ GetProgress.name = r
               /\ "BODY" \in object.seen => GetProgress.transferred = Len(object.body)
               /\ "LENGTH" \in object.seen => GetProgress.length = object.hinted
    BY <2>2, <2>4, <2>5, <1>1, <1>2, <1>3, GetReports, Zenon
  <2>6. QED
    BY <2>2, <2>3, <2>5, Zenon DEF GetNow
<1>6. QED
  BY <1>4, <1>5

\* A CONTINUE leaves the rest of the file to be moved.
LEMMA ContinuesLive ==
  ASSUME ObexInv, ShapeInv, LiveInv, RequestContinues
  PROVE  LiveInv'
<1> SUFFICES ASSUME Live'
             PROVE  FileInv' /\ StageInv'
  BY DEF LiveInv
<1> DEFINE r == session.requests
           n == Len(file)
<1>1. /\ pc = "callback" /\ rsp = "CONTINUE" /\ exword_handle_callbacks /\ pc' = "send"
      /\ UNCHANGED <<self, object, send, rsp, device, session, file>>
  BY Zenon DEF RequestContinues
<1>2. FileInv /\ StageInv /\ ObjectOK
  BY <1>1, LiveFacts, Zenon DEF Live, ObexInv
<1>3. /\ Replied /\ Finished /\ session.requests > 0 /\ session.status = "busy"
  <2>1. "CONTINUE" # "error"
    OBVIOUS
  <2>2. pc # "idle" /\ pc # "end"
    BY <1>1
  <2>3. QED
    BY <2>1, <2>2, <1>1, <1>2, Zenon DEF StageInv
<1>4. Silent /\ Sent /\ self.rx_msg.data = <<>>
  BY <1>3, Zenon DEF Replied, Finished
<1>5. /\ object.cmd = "PUT" => \E k : PutNow(k)
      /\ object.cmd = "GET" => GetNow
  BY <1>1, <1>2, <1>3, <1>4, Reported, Zenon
<1>6. \/ object.cmd = "PUT" /\ object.txq # <<>>
      \/ object.cmd = "GET" /\ GetSplit(object.seen, object.rx_body, object.hinted, device.out, r, n)
  BY <1>1, <1>3 DEF Finished, GetDone
<1>7. MaySend'
  <2>1. CASE object.cmd = "PUT" /\ object.txq # <<>>
    <3>1. PICK k : PutNow(k)
      BY <2>1, <1>5
    <3>2. /\ k \in 0 .. n /\ device.got = Cut(r, 0, k)
          /\ object.name = "file" => progress' = Report(r, k, n)
          /\ object.txq = <<BodyH(r, k, n)>>
      BY <3>1, <2>1, Zenon DEF PutNow
    <3>3. PutBefore(FALSE, device.got, progress', object.name, r, n, k)
      BY <3>2 DEF PutBefore
    <3>4. PutReady(object.txq, device.got, progress', object.name, r, n)
      BY <3>2, <3>3, Zenon DEF PutReady
    <3>5. QED
      BY <3>4, <2>1, <1>1, Zenon DEF MaySend
  <2>2. CASE /\ object.cmd = "GET"
             /\ GetSplit(object.seen, object.rx_body, object.hinted, device.out, r, n)
    <3>1. object.txq = <<>> /\ (object.name = "file" => progress'.name = r)
      BY <2>2, <1>5, Zenon DEF GetNow
    <3> DEFINE e == <<>>
    <3>2. e = <<>>
      OBVIOUS
    <3> HIDE DEF e
    <3>3. GetFull(e, object.seen, object.rx_body, object.hinted, device.out, progress',
                  object.name, r, n)
      BY <3>1, <3>2, <2>2, Zenon DEF GetFull
    <3>4. GetReady(object.txq, object.seen, object.rx_body, object.hinted, device.out, progress',
                   object.name, r, n)
      BY <3>1, <3>2, <3>3, Zenon DEF GetReady
    <3>5. QED
      BY <3>4, <2>2, <1>1, Zenon DEF MaySend
  <2>3. QED
    BY <2>1, <2>2, <1>6
<1>8. FileInv'
  BY <1>1, <1>2, FileKept, Zenon
<1>9. Silent' /\ self'.rx_msg.data = <<>>
  BY <1>1, <1>4, Zenon DEF Silent
<1>10. QED
  BY <1>1, <1>3, <1>7, <1>8, <1>9, Zenon DEF StageInv

\* A request that returns has moved and reported the whole file, or says so.
LEMMA ReturnsLive ==
  ASSUME ObexInv, ShapeInv, LiveInv, RequestReturns
  PROVE  LiveInv'
<1> SUFFICES ASSUME Live'
             PROVE  FileInv' /\ StageInv'
  BY DEF LiveInv
<1> DEFINE r == session.requests
           n == Len(file)
           own == session.own /\ (rsp = "SUCCESS" => session.reply = session.packets)
           st == IF session.status = "broken" \/ rsp = "error" THEN "broken"
                 ELSE IF rsp = "SUCCESS" THEN "success" ELSE "refused"
<1>1. /\ pc = "callback" /\ rsp # "CONTINUE" /\ exword_handle_callbacks
      /\ pc' \in {"idle", "end"}
      /\ session' = [session EXCEPT !.own = own, !.status = st]
      /\ UNCHANGED <<self, object, send, rsp, device, file>>
  BY Zenon DEF RequestReturns
<1> HIDE DEF own, st
<1>2. session'.requests = r /\ session'.status = st
  BY <1>1, Zenon DEF ShapeInv
<1>3. rsp # "error" /\ session.status # "broken" /\ st \in {"success", "refused"}
      /\ (st = "success" => rsp = "SUCCESS")
  BY <1>2, Zenon DEF Live, st
<1>4. FileInv /\ StageInv /\ ObjectOK
  BY <1>3, LiveFacts, Zenon DEF Live, ObexInv
<1>5. Replied /\ Finished /\ session.requests > 0
  <2>1. pc # "idle" /\ pc # "end"
    BY <1>1
  <2>2. QED
    BY <2>1, <1>1, <1>3, <1>4, Zenon DEF StageInv
<1>6. Silent /\ Sent /\ self.rx_msg.data = <<>>
  BY <1>5, Zenon DEF Replied, Finished
<1>7. /\ object.cmd = "PUT" => \E k : PutNow(k)
      /\ object.cmd = "GET" => GetNow
  BY <1>1, <1>4, <1>5, <1>6, Reported, Zenon
<1>8. ASSUME rsp = "SUCCESS", object.name = "file"
      PROVE  /\ progress'.name = r /\ progress'.transferred = n /\ progress'.length = n
  <2>1. object.cmd \notin Plain
    BY <1>4, <1>8, Zenon DEF FileInv
  <2>2. \/ object.cmd = "PUT" /\ object.txq = <<>>
        \/ /\ object.cmd = "GET" /\ "BODY" \in object.seen /\ "LENGTH" \in object.seen
           /\ object.hinted = n /\ object.body = Cut(r, 0, n)
    BY <2>1, <1>5, <1>8 DEF Finished, GetDone
  <2>3. CASE object.cmd = "PUT" /\ object.txq = <<>>
    <3>1. PICK k : PutNow(k)
      BY <2>3, <1>7
    <3>2. progress' = Report(r, n, n)
      BY <3>1, <2>3, <1>8, Zenon DEF PutNow
    <3>3. QED
      BY <3>2, Zenon DEF Report
  <2>4. CASE /\ object.cmd = "GET" /\ "BODY" \in object.seen /\ "LENGTH" \in object.seen
             /\ object.hinted = n /\ object.body = Cut(r, 0, n)
    <3>1. object.body = file
      BY <2>4, <1>4, Zenon DEF FileInv
    <3>2. QED
      BY <3>1, <2>4, <1>7, <1>8, Zenon DEF GetNow
  <2>5. QED
    BY <2>2, <2>3, <2>4
<1>9. ProgressMatches'
  BY <1>1, <1>2, <1>3, <1>8, Zenon DEF ProgressMatches
<1>10. FileInv'
  BY <1>1, <1>2, <1>4, FileKept, Zenon
<1>11. Silent' /\ self'.rx_msg.data = <<>>
  BY <1>1, <1>6, Zenon DEF Silent
<1>12. AtIdle'
  BY <1>2, <1>3, <1>9, <1>11, Zenon DEF AtIdle
<1>13. CASE pc' = "idle"
  BY <1>10, <1>12, <1>13, Zenon DEF StageInv
<1>14. CASE pc' = "end"
  BY <1>10, <1>11, <1>14, Zenon DEF StageInv
<1>15. QED
  BY <1>1, <1>13, <1>14, Zenon

-----------------------------------------------------------------------------
(* The device answers the packet.                                          *)

\* The transfers of an answer carry its number and its response.
LEMMA TransfersCarry ==
  ASSUME NEW s \in Cells, NEW x \in Seq(Cells), NEW t \in Transfers(<<s>>, x)
  PROVE  Carries(t.wire, s, x) /\ <<>> \o t.wire = t.wire
<1> DEFINE e == <<>>
           w1 == <<<<s>>, x>>
           w2 == <<<<s>> \o x>>
           w3 == <<<<s>>, <<>>, x>>
           z == [i \in 1 .. SeqTries |-> <<>>]
           w4 == z \o <<<<s>>, x>>
<1>0. SeqTries \in Nat
  BY ObexAssumption
<1>1. t \in {[wire |-> w1, empties |-> 0], [wire |-> w2, empties |-> 0],
             [wire |-> w3, empties |-> 1], [wire |-> w4, empties |-> SeqTries]}
  BY Zenon DEF Transfers
<1>2. Carries(w1, s, x)
  <2>1. Len(w1) = 0 + 2 /\ w1[0 + 1] = <<s>> /\ w1[0 + 2] = x /\ 0 \in 0 .. Len(w1)
        /\ 1 .. 0 = {}
    OBVIOUS
  <2> HIDE DEF w1
  <2>2. QED
    BY <2>1, Zenon DEF Carries
<1>3. Carries(w2, s, x) /\ Carries(w3, s, x)
  BY Zenon DEF Carries
<1>4. Carries(w4, s, x)
  <2> DEFINE y == <<<<s>>, x>>
             S == Seq(Cells)
             k == SeqTries
  <2>1. <<s>> \in Seq(Cells) /\ e \in Seq(Cells)
    OBVIOUS
  <2>2. y \in Seq(S) /\ Len(y) = 2 /\ y[1] = <<s>> /\ y[2] = x
    BY <2>1
  <2>3. z = [i \in 1 .. k |-> e]
    OBVIOUS
  <2> HIDE DEF e, z, y
  <2>4. z \in Seq(S) /\ Len(z) = k
    BY <2>1, <2>3, <1>0
  <2>5. \A i \in 1 .. k : z[i] = e
    BY <2>3, Zenon
  <2> HIDE DEF S
  <2>6. /\ z \o y \in Seq(S) /\ Len(z \o y) = Len(z) + Len(y)
        /\ \A i \in 1 .. Len(z) : (z \o y)[i] = z[i]
        /\ \A i \in 1 .. Len(y) : (z \o y)[Len(z) + i] = y[i]
    <3>1. z \in Seq(S) /\ y \in Seq(S)
      BY <2>2, <2>4
    <3>2. QED
      BY <3>1, ConcatAt
  <2>7. w4 = z \o y
    BY Zenon DEF y
  <2> HIDE DEF w4, k
  <2>8. Len(w4) = k + 2 /\ k \in 0 .. Len(w4) /\ 1 \in 1 .. Len(y) /\ 2 \in 1 .. Len(y)
    BY <2>2, <2>4, <2>6, <2>7, <1>0 DEF k
  <2>9. w4[k + 1] = <<s>> /\ w4[k + 2] = x
    BY <2>2, <2>4, <2>6, <2>7, <2>8, Zenon
  <2>10. \A i \in 1 .. k : w4[i] = e
    BY <2>4, <2>5, <2>6, <2>7, Zenon
  <2>11. QED
    BY <2>8, <2>9, <2>10, Zenon DEF Carries, e
<1> HIDE DEF w1, w2, w3, w4
<1>5. t.wire \in {w1, w2, w3, w4}
  BY <1>1
<1>6. Carries(t.wire, s, x)
  BY <1>2, <1>3, <1>4, <1>5, Zenon
<1>7. <<s>> \in Seq(Cells)
  OBVIOUS
<1>8. t.wire \in Seq(Seq(Cells))
  BY <1>7, TransferCells, Zenon
<1> DEFINE w == t.wire
<1>9. w \in Seq(Seq(Cells))
  BY <1>8
<1> HIDE DEF w
<1>10. <<>> \o w = w
  BY <1>9
<1>11. QED
  BY <1>6, <1>10, Zenon DEF w

\* A device that answers: packet p, loaded with d, is answered by t.
AnswerStep(p, d, refuse, t) ==
  /\ pc = "verify" /\ pc' = pc /\ self.rx_msg.data = <<>> /\ self.tx_msg.data = p
  /\ d \in Runs /\ p = Opened \o d /\ LoadedWith(d) /\ refuse \in BOOLEAN
  /\ t \in Transfers(<<p[1]>>, Response(p, refuse))
  /\ device'.inbox = <<>> /\ device'.wire = <<>> \o t.wire
  /\ device'.got = IF p[2][2] = "PUT"
                   THEN (IF Named(p) # {} THEN <<>> ELSE device.got) \o Carried(p)
                   ELSE device.got
  /\ device'.out = IF p[2][2] = "GET"
                   THEN IF Len(Fetched(p)) > Chunk
                        THEN SubSeq(Fetched(p), Chunk + 1, Len(Fetched(p))) ELSE <<>>
                   ELSE device.out
  /\ session'.requests = session.requests /\ session'.packets = session.packets
  /\ session'.status = session.status
  /\ UNCHANGED <<self, object, send, rsp, progress, file>>

\* The device answers only while obex_verify_seq waits.
LEMMA AnswerForm ==
  ASSUME ShapeInv, StageInv, DeviceAnswer
  PROVE  \E p, d, refuse, t : AnswerStep(p, d, refuse, t)
<1> DEFINE p == Head(device.inbox)
           got == (IF Named(p) # {} THEN <<>> ELSE device.got) \o Carried(p)
           left == IF Len(Fetched(p)) > Chunk
                   THEN SubSeq(Fetched(p), Chunk + 1, Len(Fetched(p))) ELSE <<>>
           g == IF p[2][2] = "PUT" THEN got ELSE device.got
           o == IF p[2][2] = "GET" THEN left ELSE device.out
<1>1. device.inbox # <<>> /\ pc' = pc /\ UNCHANGED <<self, object, send, rsp, progress, file>>
  BY Zenon DEF DeviceAnswer
<1>2. PICK refuse \in BOOLEAN : \E t \in Transfers(<<p[1]>>, Response(p, refuse)) :
        /\ session' = [session EXCEPT !.empties = session.empties + t.empties]
        /\ device' = [device EXCEPT !.inbox = Tail(device.inbox),
                        !.wire = device.wire \o t.wire, !.got = g, !.out = o]
  BY Zenon DEF DeviceAnswer, Answers
<1>3. PICK t \in Transfers(<<p[1]>>, Response(p, refuse)) :
        /\ session' = [session EXCEPT !.empties = session.empties + t.empties]
        /\ device' = [device EXCEPT !.inbox = Tail(device.inbox),
                        !.wire = device.wire \o t.wire, !.got = g, !.out = o]
  BY <1>2
<1>4. ~Silent
  BY <1>1, Zenon DEF Silent
<1>5. pc = "verify"
  <2>1. pc \notin {"idle", "end", "send", "fill", "read", "parse", "callback"}
    BY <1>1, <1>4 DEF StageInv, AtIdle, AtRead, Replied
  <2>2. QED
    BY <2>1 DEF ShapeInv, Places
<1>6. /\ self.rx_msg.data = <<>> /\ device.inbox = <<self.tx_msg.data>> /\ device.wire = <<>>
      /\ \E d \in Runs : self.tx_msg.data = Opened \o d /\ LoadedWith(d)
  BY <1>1, <1>4, <1>5, Zenon DEF StageInv, AtVerify
<1>7. PICK d \in Runs : self.tx_msg.data = Opened \o d /\ LoadedWith(d)
  BY <1>6
<1>8. p = self.tx_msg.data /\ Tail(device.inbox) = <<>>
  BY <1>6, QueueHeads, Zenon
<1> HIDE DEF p, g, o
<1>11. /\ device'.inbox = <<>> /\ device'.wire = device.wire \o t.wire
       /\ device'.got = g /\ device'.out = o
  BY <1>3, <1>8, Zenon DEF ShapeInv
<1>12. /\ session'.requests = session.requests /\ session'.packets = session.packets
       /\ session'.status = session.status
  BY <1>3, Zenon DEF ShapeInv
<1>13. device'.wire = <<>> \o t.wire
  BY <1>6, <1>11, Zenon
<1>14. AnswerStep(p, d, refuse, t)
  BY <1>1, <1>3, <1>5, <1>6, <1>7, <1>8, <1>11, <1>12, <1>13, Zenon DEF AnswerStep, g, o
<1>15. QED
  BY <1>14, Zenon

\* The first cells of the packet that is answered.
LEMMA AnsweredPacket ==
  ASSUME ObexInv, NEW p, NEW d, NEW refuse, NEW t, AnswerStep(p, d, refuse, t)
  PROVE  /\ p[1] = <<"seq", send.seq, session.packets>> /\ p[1] \in Cells
         /\ p[1][3] = session.packets
         /\ p[2][2] = object.cmd /\ p[2][3] = (object.txq = <<>>)
         /\ object.cmd \in Plain \cup {"PUT", "GET"}
<1> DEFINE s == send.seq
           id == session.packets
           cmd == object.cmd
           last == object.txq = <<>>
<1>1. s \in Int /\ id \in Nat /\ last \in BOOLEAN /\ ObjectOK
  BY DEF ObexInv, SessionOK, SendOK
<1>2. cmd \in Words
  BY <1>1, ObjectFields, Zenon
<1>3. d \in Seq(Cells) /\ p = Opening(s, id, cmd, last) \o d
  BY Zenon DEF AnswerStep, Opened, Runs
<1> HIDE DEF s, id, cmd, last
<1>4. PacketIs(p, s, id, cmd, last, d)
  BY <1>1, <1>2, <1>3, PacketOf, Zenon
<1>5. p[1] = <<"seq", s, id>> /\ p[2] = <<"cmd", cmd, last>>
  BY <1>4, Zenon DEF PacketIs
<1>6. p[1] \in Cells
  BY <1>1, <1>5, NewCells, Zenon
<1>7. p[1][3] = id /\ p[2][2] = cmd /\ p[2][3] = last
  BY <1>5
<1>8. object.cmd \in Plain \cup {"PUT", "GET"}
  BY Zenon DEF AnswerStep, LoadedWith
<1>9. QED
  BY <1>5, <1>6, <1>7, <1>8, Zenon DEF s, id, cmd, last

\* What makes an answer one that obex_object_receive expects.
Answered(p, d, refuse) ==
  /\ FileInv' /\ SentWith(d)'
  /\ \E code \in Codes : \E cells \in Runs :
       /\ Response(p, refuse) = Reply(code, session.packets, cells)
       /\ Expects(code, cells)'

\* A refusal is expected of every request.
LEMMA AnswersRefusing ==
  ASSUME ObexInv, NEW p, NEW d, NEW refuse, NEW t, AnswerStep(p, d, refuse, t),
         refuse, FileInv', SentWith(d)'
  PROVE  Answered(p, d, refuse)
<1>1. p[1][3] = session.packets
  BY AnsweredPacket, Zenon
<1>2. "FORBIDDEN" \in Codes /\ <<>> \in Runs
  BY DEF Codes, Runs
<1>3. PICK code \in Codes, cells \in Runs : code = "FORBIDDEN" /\ cells = <<>>
  BY <1>2, Zenon
<1>4. Response(p, refuse) = Reply(code, session.packets, cells)
  BY <1>1, <1>3, Zenon DEF Response
<1>5. Expects(code, cells)'
  BY <1>3, Zenon DEF Expects
<1>6. QED
  BY <1>4, <1>5, Zenon DEF Answered

\* A request that moves no file.
LEMMA AnswersPlain ==
  ASSUME ObexInv, FileInv, NEW p, NEW d, NEW refuse, NEW t, AnswerStep(p, d, refuse, t),
         object.cmd \in Plain
  PROVE  Answered(p, d, refuse)
<1> DEFINE id == session.packets
<1>1. p[1][3] = id /\ p[2][2] = object.cmd
  BY AnsweredPacket, Zenon
<1>2. object.cmd # "PUT" /\ object.cmd # "GET"
  BY DEF Plain
<1>3. /\ device'.got = device.got /\ file' = file /\ object' = object
      /\ session'.requests = session.requests /\ refuse \in BOOLEAN
  BY <1>1, <1>2, Zenon DEF AnswerStep
<1>4. FileInv'
  BY <1>3, FileKept, Zenon
<1>5. SentWith(d)'
  BY <1>3, Zenon DEF SentWith
<1>6. CASE refuse
  BY <1>4, <1>5, <1>6, AnswersRefusing, Zenon
<1>7. CASE ~refuse
  <2>1. PICK code \in Codes, cells \in Runs :
           code = "SUCCESS" /\ cells = IF object.cmd = "CONNECT" THEN Pads(8) ELSE <<>>
    <3>1. <<>> \in Runs /\ Pads(8) \in Runs
      BY Fillers DEF Runs
    <3>2. "SUCCESS" \in Codes
      BY DEF Codes
    <3>3. QED
      BY <3>1, <3>2, Zenon
  <2>2. Response(p, refuse) = Reply(code, id, cells)
    BY <2>1, <1>1, <1>2, <1>7, Zenon DEF Response
  <2>3. Expects(code, cells)'
    BY <2>1, <1>3, Zenon DEF Expects
  <2>4. QED
    BY <2>2, <2>3, <1>4, <1>5, Zenon DEF Answered
<1>8. QED
  BY <1>3, <1>6, <1>7

\* The device has got bytes 1 to k of the file, up to m of them before.
PutGrown(d, first, m, k) ==
  /\ first \in BOOLEAN /\ m \in 0 .. Len(file) /\ k \in 0 .. Len(file)
  /\ PutLoad(d, object.txq, session.requests, Len(file), first, m, k)
  /\ PutBefore(first, device.got, progress, object.name, session.requests, Len(file), m)
  /\ device'.got = Cut(session.requests, 0, k)

\* The bytes of a packet of a PUT follow those the device has got.
LEMMA PutGrows ==
  ASSUME ObexInv, FileInv,
         NEW p, NEW d, NEW refuse, NEW t, AnswerStep(p, d, refuse, t),
         object.cmd = "PUT"
  PROVE  \E first, m, k : PutGrown(d, first, m, k)
<1> DEFINE r == session.requests
           n == Len(file)
           s == send.seq
           id == session.packets
           cmd == object.cmd
           last == object.txq = <<>>
           q == object.txq
           z == 0
<1>1. /\ r \in Nat /\ n \in Nat /\ s \in Int /\ id \in Nat /\ z \in Nat
      /\ last \in BOOLEAN /\ ObjectOK
  BY DEF ObexInv, SessionOK, FileInv, SendOK
<1>2. cmd \in Words
  BY <1>1, ObjectFields, Zenon
<1>3. p[1][3] = id /\ p[2][2] = cmd /\ p[2][3] = last
  BY AnsweredPacket, Zenon
<1>4. /\ d \in Seq(Cells) /\ p = Opening(s, id, cmd, last) \o d
      /\ device'.got = (IF Named(p) # {} THEN <<>> ELSE device.got) \o Carried(p)
      /\ file' = file /\ object' = object /\ progress' = progress
      /\ session'.requests = session.requests /\ refuse \in BOOLEAN
  BY <1>3, Zenon DEF AnswerStep, Opened, Runs
<1>5. PutFull(d, q, device.got, progress, object.name, r, n)
  <2>1. "PUT" \notin Plain /\ "PUT" # "GET"
    BY DEF Plain
  <2>2. QED
    BY <2>1, Zenon DEF AnswerStep, LoadedWith
<1>6. PICK first \in BOOLEAN : \E m, k \in 0 .. n :
        PutLoad(d, q, r, n, first, m, k) /\ PutBefore(first, device.got, progress, object.name, r, n, m)
  BY <1>5, Zenon DEF PutFull
<1>7. PICK m, k \in 0 .. n :
        PutLoad(d, q, r, n, first, m, k) /\ PutBefore(first, device.got, progress, object.name, r, n, m)
  BY <1>6
<1>8. Carried(p) = Cut(r, m, k) /\ (Named(p) # {} <=> first)
  <2> HIDE DEF r, n, s, id, cmd, last, q
  <2>1. PutSending(s, id, last, cmd, r, n, first, d, q, m, k, p)
    BY <1>1, <1>2, <1>4, <1>7, Zenon DEF PutSending
  <2>2. PutCarries(p, r, first, m, k)
    BY <2>1, PutPacket, Zenon
  <2>3. QED
    BY <2>2, Zenon DEF PutCarries
<1>9. m \in Nat /\ k \in Nat /\ m <= k /\ z <= m /\ z <= k /\ (first => m = z)
  BY <1>1, <1>7 DEF PutLoad
<1> HIDE DEF z
<1>10. Cut(r, z, m) \o Cut(r, m, k) = Cut(r, z, k)
  <2>1. r \in Nat /\ z \in Nat /\ m \in Nat /\ k \in Nat /\ z <= m /\ m <= k
    BY <1>1, <1>9
  <2> HIDE DEF r
  <2>2. QED
    BY <2>1, CutJoin
<1>11. device'.got = Cut(r, z, k)
  <2>1. CASE first
    <3>1. Cut(r, m, m) = <<>>
      BY <1>1, <1>9, CutEmpty, Zenon
    <3>2. QED
      BY <2>1, <3>1, <1>4, <1>8, <1>9, <1>10, Zenon
  <2>2. CASE ~first
    <3>1. device.got = Cut(r, z, m)
      BY <2>2, <1>7, Zenon DEF PutBefore, z
    <3>2. QED
      BY <2>2, <3>1, <1>4, <1>8, <1>10, Zenon
  <2>3. QED
    BY <2>1, <2>2
<1>12. PutGrown(d, first, m, k)
  BY <1>7, <1>11, Zenon DEF PutGrown, z
<1>13. QED
  BY <1>12, Zenon

\* A packet of a PUT: its bytes follow those the device has got.
LEMMA AnswersPut ==
  ASSUME ObexInv, FileInv, session.requests > 0,
         NEW p, NEW d, NEW refuse, NEW t, AnswerStep(p, d, refuse, t),
         object.cmd = "PUT"
  PROVE  Answered(p, d, refuse)
<1> DEFINE r == session.requests
           n == Len(file)
           s == send.seq
           id == session.packets
           cmd == object.cmd
           last == object.txq = <<>>
           q == object.txq
           z == 0
<1>1. /\ r \in Nat /\ n \in Nat /\ s \in Int /\ id \in Nat /\ z \in Nat
      /\ last \in BOOLEAN /\ ObjectOK
  BY DEF ObexInv, SessionOK, FileInv, SendOK
<1>2. cmd \in Words
  BY <1>1, ObjectFields, Zenon
<1>3. p[1][3] = id /\ p[2][2] = cmd /\ p[2][3] = last
  BY AnsweredPacket, Zenon
<1>4. /\ d \in Seq(Cells) /\ p = Opening(s, id, cmd, last) \o d
      /\ device'.got = (IF Named(p) # {} THEN <<>> ELSE device.got) \o Carried(p)
      /\ file' = file /\ object' = object /\ progress' = progress
      /\ session'.requests = session.requests /\ refuse \in BOOLEAN
  BY <1>3, Zenon DEF AnswerStep, Opened, Runs
<1>5. PICK first, m, k : PutGrown(d, first, m, k)
  BY PutGrows, Zenon
<1>7. /\ first \in BOOLEAN /\ m \in 0 .. n /\ k \in 0 .. n
      /\ PutLoad(d, q, r, n, first, m, k)
      /\ PutBefore(first, device.got, progress, object.name, r, n, m)
  BY <1>5, Zenon DEF PutGrown
<1>9. m \in Nat /\ k \in Nat /\ m <= k /\ z <= m /\ z <= k /\ (first => m = z)
  BY <1>1, <1>7 DEF PutLoad
<1>11. device'.got = Cut(r, z, k)
  BY <1>5, Zenon DEF PutGrown
<1> HIDE DEF z
<1>12. FileInv'
  <2>1. ASSUME NEW i \in DOMAIN device'.got PROVE device'.got[i][2] \in 0 .. r
    <3>1. /\ DOMAIN Cut(r, z, k) = 1 .. (k - z)
          /\ \A j \in 1 .. (k - z) : Cut(r, z, k)[j] = <<"byte", r, z + j>>
      <4> DEFINE a == r
      <4>1. a \in Nat /\ z \in Nat /\ k \in Nat /\ z <= k
        BY <1>1, <1>9
      <4> HIDE DEF a
      <4>2. /\ DOMAIN Cut(a, z, k) = 1 .. (k - z)
            /\ \A j \in 1 .. (k - z) : Cut(a, z, k)[j] = <<"byte", a, z + j>>
        BY <4>1, CutIs
      <4>3. QED
        BY <4>2, Zenon DEF a
    <3>2. device'.got[i] = <<"byte", r, z + i>>
      BY <3>1, <2>1, <1>11, Zenon
    <3>3. device'.got[i][2] = r
      BY <3>2
    <3>4. QED
      BY <3>3, <1>1
  <2>2. device'.got \in Seq(Cells)
    <3> DEFINE a == r
    <3>1. a \in Nat /\ z \in Nat /\ k \in Nat /\ z <= k
      BY <1>1, <1>9
    <3> HIDE DEF a
    <3>2. Cut(a, z, k) \in Seq(Cells)
      BY <3>1, CutIs
    <3>3. QED
      BY <3>2, <1>11, Zenon DEF a
  <2>3. QED
    BY <2>1, <2>2, <1>4, Zenon DEF FileInv
<1>13. SentWith(d)'
  <2>1. ~first /\ object.name = "file" => progress = Report(r, m, n)
    BY <1>7, Zenon DEF PutBefore
  <2>2. PutSent(d, q, device'.got, progress, object.name, r, n)
    BY <2>1, <1>7, <1>11, Zenon DEF PutSent, z
  <2>3. QED
    BY <2>2, <1>4, Zenon DEF SentWith
<1>14. CASE refuse
  BY <1>12, <1>13, <1>14, AnswersRefusing, Zenon
<1>15. CASE ~refuse
  <2>1. "SUCCESS" \in Codes /\ "CONTINUE" \in Codes /\ <<>> \in Runs
    BY DEF Codes, Runs
  <2>2. PICK code \in Codes, cells \in Runs :
           code = (IF object.txq = <<>> THEN "SUCCESS" ELSE "CONTINUE") /\ cells = <<>>
    BY <2>1, Zenon
  <2>3. Response(p, refuse) = Reply(code, id, cells)
    <3>1. "PUT" # "GET" /\ "PUT" # "CONNECT"
      OBVIOUS
    <3>2. QED
      BY <3>1, <2>2, <1>3, <1>15, Zenon DEF Response
  <2>4. Expects(code, cells)'
    BY <2>2, <1>4, Zenon DEF Expects
  <2>5. QED
    BY <2>3, <2>4, <1>12, <1>13, Zenon DEF Answered
<1>16. QED
  BY <1>4, <1>14, <1>15

\* The file a packet of a GET asks for: bytes m + 1 to the end, behind front.
GetAsks(p, d, front, m) ==
  /\ m \in 0 .. Len(file) /\ Fetched(p) = Cut(session.requests, m, Len(file))
  /\ front = IF Named(p) # {} THEN Uint("LENGTH", Len(Fetched(p))) ELSE <<>>
  /\ front \in {<<>>, LenBuf(Len(file))}
  /\ GetFront(front, object.seen, object.rx_body, object.hinted, session.requests,
              Len(file), m)
  /\ object.txq = <<>> /\ GetSent(d, progress, object.name, session.requests, Len(file))

\* A GET asks for the whole file, or for what it has not got of it.
LEMMA GetAsksFor ==
  ASSUME ObexInv, FileInv, NEW p, NEW d, NEW refuse, NEW t, AnswerStep(p, d, refuse, t),
         object.cmd = "GET"
  PROVE  \E front, m : GetAsks(p, d, front, m)
<1> DEFINE r == session.requests
           n == Len(file)
           s == send.seq
           id == session.packets
           cmd == object.cmd
           last == object.txq = <<>>
           z == 0
<1>1. /\ r \in Nat /\ n \in Nat /\ s \in Int /\ id \in Nat /\ z \in Nat /\ z <= n
      /\ last \in BOOLEAN /\ ObjectOK
  BY DEF ObexInv, SessionOK, FileInv, SendOK
<1>2. cmd \in Words
  BY <1>1, ObjectFields, Zenon
<1>3. d \in Seq(Cells) /\ p = Opening(s, id, cmd, last) \o d
  BY Zenon DEF AnswerStep, Opened, Runs
<1>4. object.txq = <<>>
      /\ GetFull(d, object.seen, object.rx_body, object.hinted, device.out, progress,
                 object.name, r, n)
  <2>1. "GET" \notin Plain /\ "PUT" # "GET"
    BY DEF Plain
  <2>2. QED
    BY <2>1, Zenon DEF AnswerStep, LoadedWith
<1>5. /\ d = NameBuf(r, n) => Named(p) # {} /\ Fetched(p) = Cut(r, z, n)
      /\ d = <<>> => Named(p) = {} /\ Fetched(p) = device.out
  <2> HIDE DEF r, n, s, id, cmd, last
  <2>1. GetFetches(p, d, r, n)
    BY <1>1, <1>2, <1>3, GetPacket, Zenon
  <2>2. QED
    BY <2>1, Zenon DEF GetFetches
<1>6. CASE d = NameBuf(r, n) /\ GetFresh(object.seen, object.rx_body)
  <2> DEFINE front == LenBuf(n)
  <2>1. Named(p) # {} /\ Fetched(p) = Cut(r, z, n)
    BY <1>5, <1>6, Zenon
  <2>2. Len(Cut(r, z, n)) = n
    <3>1. Len(Cut(r, z, n)) = n - z
      <4> HIDE DEF z, r, n
      <4>1. QED
        BY <1>1, CutIs
    <3>2. QED
      BY <3>1, <1>1
  <2>3. front = Uint("LENGTH", Len(Fetched(p)))
    BY <2>1, <2>2, Zenon DEF LenBuf
  <2>4. z \in 0 .. n
    BY <1>1
  <2>5. GetFront(front, object.seen, object.rx_body, object.hinted, r, n, z)
    BY <1>6, Zenon DEF GetFront
  <2>6. GetSent(d, progress, object.name, r, n)
    BY <1>6, Zenon DEF GetSent
  <2>7. GetAsks(p, d, front, z)
    BY <2>1, <2>3, <2>4, <2>5, <2>6, <1>4, Zenon DEF GetAsks
  <2>8. QED
    BY <2>7, Zenon
<1>7. CASE /\ d = <<>> /\ (object.name = "file" => progress.name = r)
           /\ GetSplit(object.seen, object.rx_body, object.hinted, device.out, r, n)
  <2> DEFINE front == <<>>
  <2>1. Named(p) = {} /\ Fetched(p) = device.out
    BY <1>5, <1>7, Zenon
  <2>2. PICK m \in 0 .. n : /\ GetHalf(object.seen, object.rx_body, object.hinted, r, n, m)
                            /\ device.out = Cut(r, m, n)
    BY <1>7, Zenon DEF GetSplit
  <2>3. GetFront(front, object.seen, object.rx_body, object.hinted, r, n, m)
    BY <2>2, Zenon DEF GetFront
  <2>4. GetSent(d, progress, object.name, r, n)
    BY <1>7, Zenon DEF GetSent
  <2>5. GetAsks(p, d, front, m)
    BY <2>1, <2>2, <2>3, <2>4, <1>4, Zenon DEF GetAsks
  <2>6. QED
    BY <2>5, Zenon
<1>8. QED
  BY <1>4, <1>6, <1>7, Zenon DEF GetFull

\* The device sends bytes m + 1 to k behind front, and keeps the rest.
NextPart(p, front, m, k) ==
  /\ m <= k /\ (k = Len(file) <=> ~(Len(Fetched(p)) > Chunk))
  /\ (IF Len(Fetched(p)) > Chunk
      THEN SubSeq(Fetched(p), Chunk + 1, Len(Fetched(p))) ELSE <<>>)
       = Cut(session.requests, k, Len(file))
  /\ Part(Fetched(p), Named(p) # {})
       = front \o Stream(BodyName(~(Len(Fetched(p)) > Chunk)), Cut(session.requests, m, k))

\* The part of the file the device sends next.
LEMMA PartIs ==
  ASSUME SessionOK, FileInv, NEW p, NEW d, NEW front, NEW m, GetAsks(p, d, front, m)
  PROVE  \E k \in 0 .. Len(file) : NextPart(p, front, m, k)
<1> DEFINE r == session.requests
           n == Len(file)
           f == Fetched(p)
<1>1. /\ r \in Nat /\ n \in Nat /\ Chunk \in Nat
  BY ObexAssumption DEF SessionOK, FileInv
<1>2. m \in Nat /\ m <= n /\ f = Cut(r, m, n)
      /\ front = IF Named(p) # {} THEN Uint("LENGTH", Len(f)) ELSE <<>>
  BY <1>1 DEF GetAsks
<1>3. Len(f) = n - m
  <2> HIDE DEF f, r, n
  <2>1. QED
    BY <1>1, <1>2, CutIs
<1>4. CASE Len(f) > Chunk
  <2> DEFINE k == m + Chunk
  <2>1. k \in 0 .. n /\ m <= k /\ k # n /\ Chunk <= n - m
    BY <1>1, <1>2, <1>3, <1>4
  <2>2. CutAt(r, m, n, Chunk)
    BY <2>1, <1>1, <1>2, CutSplit, Zenon
  <2>3. SubSeq(f, 1, Chunk) = Cut(r, m, k) /\ SubSeq(f, Chunk + 1, Len(f)) = Cut(r, k, n)
    BY <2>2, <1>2, <1>3, Zenon DEF CutAt
  <2> HIDE DEF k
  <2>4. Part(f, Named(p) # {}) = front \o Stream("BODY", Cut(r, m, k))
    BY <2>3, <1>2, <1>4, Zenon DEF Part
  <2>5. BodyName(~(Len(f) > Chunk)) = "BODY"
    BY <1>4, Zenon DEF BodyName
  <2> HIDE DEF f
  <2>6. QED
    BY <2>1, <2>3, <2>4, <2>5, <1>4, Zenon DEF f, NextPart
<1>5. CASE ~(Len(f) > Chunk)
  <2>1. n \in 0 .. n
    BY <1>1
  <2>2. Cut(r, n, n) = <<>>
    BY <1>1, CutEmpty, Zenon
  <2>3. Part(f, Named(p) # {}) = front \o Stream("BODY_END", f)
    BY <1>2, <1>5, Zenon DEF Part
  <2>4. BodyName(~(Len(f) > Chunk)) = "BODY_END"
    BY <1>5, Zenon DEF BodyName
  <2>5. QED
    BY <2>1, <2>2, <2>3, <2>4, <1>2, <1>5, Zenon DEF NextPart
<1>6. QED
  BY <1>4, <1>5

\* A packet of a GET: the device sends the bytes that are next.
LEMMA AnswersGet ==
  ASSUME ObexInv, FileInv, NEW p, NEW d, NEW refuse, NEW t, AnswerStep(p, d, refuse, t),
         object.cmd = "GET"
  PROVE  Answered(p, d, refuse)
<1> DEFINE r == session.requests
           n == Len(file)
           id == session.packets
           more == Len(Fetched(p)) > Chunk
           left == IF more THEN SubSeq(Fetched(p), Chunk + 1, Len(Fetched(p))) ELSE <<>>
<1>1. SessionOK /\ r \in Nat /\ n \in Nat
  BY DEF ObexInv, SessionOK, FileInv
<1>2. p[1][3] = id /\ p[2][2] = "GET"
  BY AnsweredPacket, Zenon
<1>3. /\ device'.got = device.got /\ device'.out = left
      /\ file' = file /\ object' = object /\ progress' = progress
      /\ session'.requests = session.requests /\ refuse \in BOOLEAN
  <2>1. "GET" # "PUT"
    OBVIOUS
  <2>2. QED
    BY <2>1, <1>2, Zenon DEF AnswerStep
<1>4. PICK front, m : GetAsks(p, d, front, m)
  BY GetAsksFor, Zenon
<1>5. /\ m \in 0 .. n /\ front \in {<<>>, LenBuf(n)}
      /\ GetFront(front, object.seen, object.rx_body, object.hinted, r, n, m)
      /\ object.txq = <<>> /\ GetSent(d, progress, object.name, r, n)
  BY <1>4, Zenon DEF GetAsks
<1>6a. PICK k \in 0 .. n : NextPart(p, front, m, k)
  BY <1>1, <1>4, PartIs, Zenon
<1>6. /\ m <= k /\ (k = n <=> ~more) /\ left = Cut(r, k, n)
      /\ Part(Fetched(p), Named(p) # {}) = front \o Stream(BodyName(~more), Cut(r, m, k))
  BY <1>6a, Zenon DEF NextPart
<1>7. FileInv'
  BY <1>3, FileKept, Zenon
<1>8. SentWith(d)'
  BY <1>3, <1>5, Zenon DEF SentWith
<1>9. CASE refuse
  BY <1>7, <1>8, <1>9, AnswersRefusing, Zenon
<1>10. CASE ~refuse
  <2> DEFINE x == front \o Stream(BodyName(~more), Cut(r, m, k))
  <2>1. x \in Runs
    <3> DEFINE hi == BodyName(~more)
               c == Cut(r, m, k)
    <3>1. hi \in Words /\ "LENGTH" \in Words
      BY SomeWords DEF BodyName
    <3>2. m \in Nat /\ k \in Nat /\ m <= k
      BY <1>1, <1>5, <1>6
    <3>3. c \in Seq(Cells)
      BY <1>1, <3>2, CutIs, Zenon
    <3>4. LenBuf(n) \in Seq(Cells)
      BY <1>1, <3>1, UintIs DEF LenBuf
    <3>5. <<>> \in Seq(Cells)
      OBVIOUS
    <3>6. front \in Seq(Cells)
      BY <3>4, <3>5, <1>5, Zenon
    <3> HIDE DEF hi, c
    <3>7. Stream(hi, c) \in Seq(Cells)
      BY <3>1, <3>3, StreamIs, Zenon
    <3>8. front \o Stream(hi, c) \in Seq(Cells)
      BY <3>6, <3>7, ConcatProperties, Zenon
    <3>9. QED
      BY <3>8, Zenon DEF Runs, hi, c
  <2>2. "SUCCESS" \in Codes /\ "CONTINUE" \in Codes /\ "SUCCESS" # "CONTINUE"
    BY DEF Codes
  <2> HIDE DEF more
  <2>3. PICK code \in Codes, cells \in Runs :
           code = (IF more THEN "CONTINUE" ELSE "SUCCESS") /\ cells = x
    BY <2>1, <2>2, Zenon
  <2>4. Response(p, refuse) = Reply(code, id, cells)
    <3>1. "PUT" # "GET" /\ "GET" # "CONNECT"
      OBVIOUS
    <3>2. QED
      BY <3>1, <2>3, <1>2, <1>6, <1>10, Zenon DEF Response, more
  <2>5. cells = front \o Stream(BodyName(code = "SUCCESS"), Cut(r, m, k))
    <3>1. BodyName(code = "SUCCESS") = BodyName(~more)
      BY <2>2, <2>3, Zenon DEF BodyName
    <3>2. QED
      BY <3>1, <2>3, Zenon
  <2>6. code \in {"CONTINUE", "SUCCESS"} /\ (code = "SUCCESS" => k = n)
    BY <2>2, <2>3, <1>6, Zenon
  <2>7. GetCells(code, cells, object.seen, object.rx_body, object.hinted, device'.out, r, n)
    BY <2>5, <2>6, <1>3, <1>5, <1>6, Zenon DEF GetCells
  <2>8. Expects(code, cells)'
    BY <2>7, <1>3, Zenon DEF Expects
  <2>9. QED
    BY <2>4, <2>8, <1>7, <1>8, Zenon DEF Answered
<1>11. QED
  BY <1>3, <1>9, <1>10

\* The device answers what it was sent.
LEMMA AnswerLive ==
  ASSUME ObexInv, ShapeInv, LiveInv, DeviceAnswer
  PROVE  LiveInv'
<1> SUFFICES ASSUME Live'
             PROVE  FileInv' /\ StageInv'
  BY DEF LiveInv
<1>1. session'.status = session.status
  <2>1. PICK v : session' = [session EXCEPT !.empties = v]
    BY Zenon DEF DeviceAnswer, Answers
  <2>2. QED
    BY <2>1, Zenon DEF ShapeInv
<1>2. FileInv /\ StageInv /\ SessionOK /\ DeviceOK
  BY <1>1, LiveFacts, Zenon DEF Live, ObexInv
<1>3. PICK p, d, refuse, t : AnswerStep(p, d, refuse, t)
  BY <1>2, AnswerForm, Zenon
<1>4. /\ pc = "verify" /\ pc' = pc /\ self.rx_msg.data = <<>> /\ self.tx_msg.data = p
      /\ d \in Runs /\ p = Opened \o d
      /\ t \in Transfers(<<p[1]>>, Response(p, refuse))
      /\ device'.inbox = <<>> /\ device'.wire = <<>> \o t.wire
      /\ session'.requests = session.requests /\ session'.packets = session.packets
      /\ UNCHANGED <<self, object, send, rsp, progress, file>>
  BY <1>3, Zenon DEF AnswerStep
<1>5. session.status = "busy" /\ session.requests > 0
  BY <1>2, <1>4 DEF StageInv
<1>6. /\ p[1] = <<"seq", send.seq, session.packets>> /\ p[1] \in Cells
      /\ object.cmd \in Plain \cup {"PUT", "GET"}
  BY <1>3, AnsweredPacket, Zenon
<1>7. Answered(p, d, refuse)
  BY <1>2, <1>3, <1>5, <1>6, AnswersPlain, AnswersPut, AnswersGet, Zenon
<1>8. PICK code \in Codes, cells \in Runs :
        /\ Response(p, refuse) = Reply(code, session.packets, cells)
        /\ Expects(code, cells)'
  BY <1>7, Zenon DEF Answered
<1>9. FileInv' /\ SentWith(d)'
  BY <1>7, Zenon DEF Answered
<1> DEFINE x == Reply(code, session.packets, cells)
           s == p[1]
<1>10. x \in Seq(Cells)
  <2>1. code \in Words /\ session.packets \in Nat /\ cells \in Seq(Cells)
    BY <1>2 DEF SessionOK, Codes, Words, Runs
  <2>2. QED
    BY <2>1, ReplyCells, Zenon
<1>11. s \in Cells /\ t \in Transfers(<<s>>, x)
  BY <1>4, <1>6, <1>8, Zenon
<1> HIDE DEF x, s
<1>12. Carries(t.wire, s, x) /\ <<>> \o t.wire = t.wire
  BY <1>10, <1>11, TransfersCarry, Zenon
<1>13. Carries(device'.wire, s, x)
  BY <1>4, <1>12, Zenon
<1>14. Sent'
  <2>1. Opened' = Opened
    BY <1>4, Zenon DEF Opened
  <2>2. self'.tx_msg.data = Opened' \o d
    BY <2>1, <1>4, Zenon
  <2>3. QED
    BY <2>2, <1>4, <1>9, Zenon DEF Sent
<1>15. s = <<"seq", send'.seq, session'.packets>> /\ x = Reply(code, session'.packets, cells)
  BY <1>4, <1>6, Zenon DEF s, x
<1>16. AtVerify'
  BY <1>4, <1>8, <1>13, <1>14, <1>15, Zenon DEF AtVerify
<1>17. QED
  BY <1>1, <1>4, <1>5, <1>9, <1>16, Zenon DEF StageInv

\* The device is pulled out: what was under way is lost.
LEMMA UnplugLive ==
  ASSUME ObexInv, ShapeInv, LiveInv, Unplug
  PROVE  LiveInv'
<1> SUFFICES ASSUME Live'
             PROVE  FileInv' /\ StageInv'
  BY DEF LiveInv
<1> DEFINE f == session.faults + 1
<1>1. /\ pc \in {"idle", "verify", "read"}
      /\ session' = [session EXCEPT !.faults = f]
      /\ device' = [device EXCEPT !.gone = TRUE, !.inbox = <<>>, !.wire = <<>>]
      /\ UNCHANGED <<self, object, send, pc, tries, rsp, progress, file>>
  BY Zenon DEF Unplug
<1> HIDE DEF f
<1>2. /\ session'.requests = session.requests /\ session'.packets = session.packets
      /\ session'.status = session.status
  BY <1>1, Zenon DEF ShapeInv
<1>3. /\ device'.gone = TRUE /\ device'.inbox = <<>> /\ device'.wire = <<>>
      /\ device'.got = device.got /\ device'.out = device.out
  BY <1>1, Zenon DEF ShapeInv
<1>4. FileInv /\ StageInv
  BY <1>2, LiveFacts, Zenon DEF Live
<1>5. FileInv'
  BY <1>1, <1>2, <1>3, <1>4, FileKept, Zenon
<1>6. Silent'
  BY <1>3, Zenon DEF Silent
<1>7. CASE pc = "idle"
  <2>1. AtIdle
    BY <1>4, <1>7, Zenon DEF StageInv
  <2>2. ProgressMatches'
    BY <2>1, <1>1, <1>2, Zenon DEF AtIdle, ProgressMatches
  <2>3. AtIdle'
    BY <2>1, <2>2, <1>1, <1>2, <1>6, Zenon DEF AtIdle
  <2>4. QED
    BY <2>3, <1>1, <1>5, <1>7, Zenon DEF StageInv
<1>8. CASE pc = "verify"
  <2>1. AtVerify'
    BY <1>1, <1>3, <1>4, <1>6, <1>8, Zenon DEF StageInv, AtVerify
  <2>2. QED
    BY <2>1, <1>1, <1>2, <1>4, <1>5, <1>8, Zenon DEF StageInv
<1>9. CASE pc = "read"
  <2>1. PICK code \in Codes, cells \in Runs, rest \in Runs :
          Sent /\ Expects(code, cells)
            /\ self.rx_msg.data \o rest = Reply(code, session.packets, cells)
    BY <1>4, <1>9, Zenon DEF StageInv, AtRead
  <2>2. Sent' /\ Expects(code, cells)'
    BY <2>1, <1>1, <1>2, <1>3, AnswerKept, Zenon
  <2>3. AtRead'
    BY <2>1, <2>2, <1>1, <1>2, <1>3, Zenon DEF AtRead
  <2>4. QED
    BY <2>3, <1>1, <1>2, <1>4, <1>5, <1>9, Zenon DEF StageInv
<1>10. QED
  BY <1>1, <1>7, <1>8, <1>9, Zenon

-----------------------------------------------------------------------------
(* The stages hold in every reachable state.                               *)

\* Nothing is under way before the first request.
LEMMA LiveStarts ==
  ASSUME Init
  PROVE  LiveInv
<1> DEFINE e == <<>>
           z == 0
<1>1. /\ pc = "idle" /\ self.rx_msg.data = <<>> /\ session.status = "new"
      /\ session.requests = 0 /\ file = <<>> /\ object.cmd = "NONE" /\ object.name = "none"
      /\ device.got = <<>> /\ device.inbox = <<>> /\ device.wire = <<>>
  BY Zenon DEF Init, NoObject, buf_new
<1>2. Len(file) = z /\ z \in Nat /\ DOMAIN e = {} /\ e \in Seq(Cells)
  BY <1>1
<1>3. Cut(z, z, z) = <<>>
  <2> HIDE DEF z
  <2>1. QED
    BY <1>2, CutEmpty, Zenon
<1>4. FileInv
  <2>1. object.cmd \notin Plain
    BY <1>1 DEF Plain
  <2>2. \A i \in DOMAIN device.got : device.got[i][2] \in 0 .. session.requests
    BY <1>1, <1>2, Zenon
  <2>3. QED
    BY <2>1, <2>2, <1>1, <1>2, <1>3, Zenon DEF FileInv
<1>5. StageInv
  <2>1. AtIdle
    BY <1>1 DEF AtIdle, Silent, ProgressMatches
  <2>2. QED
    BY <2>1, <1>1, Zenon DEF StageInv
<1>6. QED
  BY <1>4, <1>5 DEF LiveInv

\* A step that changes nothing.
LEMMA StutterLive ==
  ASSUME LiveInv, UNCHANGED vars
  PROVE  LiveInv'
<1> SUFFICES ASSUME Live'
             PROVE  FileInv' /\ StageInv'
  BY DEF LiveInv
<1>1. /\ self' = self /\ object' = object /\ send' = send /\ pc' = pc /\ rsp' = rsp
      /\ progress' = progress /\ device' = device /\ session' = session /\ file' = file
  BY DEF vars
<1>2. FileInv /\ StageInv
  BY <1>1, LiveFacts, Zenon DEF Live
<1>3. FileInv'
  BY <1>1, <1>2, FileKept, Zenon
<1>4. /\ Sent => Sent'
      /\ \A code, cells : Expects(code, cells) => Expects(code, cells)'
  BY <1>1, AnswerKept, Zenon
<1>5. \A d : LoadedWith(d) => LoadedWith(d)'
  BY <1>1, LoadedKept, Zenon
<1>6. MaySend => MaySend'
  BY <1>1, MaySendKept, Zenon
<1>7. Silent => Silent'
  BY <1>1, Zenon DEF Silent
<1>8. AtIdle => AtIdle'
  BY <1>1, <1>7, Zenon DEF AtIdle, ProgressMatches
<1>9. AtFill => AtFill'
  <2>1. LoadedWith(self.tx_msg.data) => LoadedWith(self.tx_msg.data)'
    BY <1>1, Zenon DEF LoadedWith
  <2>2. QED
    BY <2>1, <1>1, <1>6, Zenon DEF AtFill
<1>10. Opened' = Opened
  BY <1>1, Zenon DEF Opened
<1>11. AtVerify => AtVerify'
  BY <1>1, <1>4, <1>5, <1>7, <1>10, Zenon DEF AtVerify
<1>12. AtRead => AtRead'
  BY <1>1, <1>4, Zenon DEF AtRead
<1>13. Replied => Replied'
  BY <1>1, <1>4, <1>7, Zenon DEF Replied
<1>14. (Finished => Finished') /\ (Parses => Parses')
  BY <1>1, Zenon DEF Finished, Parses
<1>15. StageInv'
  BY <1>1, <1>2, <1>6, <1>7, <1>8, <1>9, <1>11, <1>12, <1>13, <1>14 DEF StageInv
<1>16. QED
  BY <1>3, <1>15

\* Every step of a live session keeps the stages of the transfer.
LEMMA LiveSteps ==
  ASSUME ObexInv, ShapeInv, LiveInv, [Next]_vars
  PROVE  LiveInv'
<1>1. SessionOK
  BY DEF ObexInv
<1>2. CASE Request
  BY <1>2, StartLive, Zenon
<1>3. CASE obex_object_send
  BY <1>3, SendBeginLive, BodyLive, HeaderLive, SendPacketLive, Zenon DEF obex_object_send
<1>4. CASE obex_verify_seq
  BY <1>1, <1>4, SeqEmptyLive, SeqMatchesLive, FailDead, Zenon
     DEF obex_verify_seq, SeqMismatch, SeqTimeout
<1>5. CASE obex_object_receive
  BY <1>5, BulkReadLive, ReadTimeoutLive, ReceiveHeaderLive, ParseBodyLive,
     ParseHeaderLive, ParseDoneLive, Zenon DEF obex_object_receive
<1>6. CASE RequestContinues \/ RequestReturns
  BY <1>6, ContinuesLive, ReturnsLive, Zenon
<1>7. CASE DeviceAnswer
  BY <1>7, AnswerLive, Zenon
<1>8. CASE Unplug
  BY <1>8, UnplugLive, Zenon
<1>9. CASE UNCHANGED vars
  BY <1>9, StutterLive, Zenon
<1>10. QED
  BY <1>2, <1>3, <1>4, <1>5, <1>6, <1>7, <1>8, <1>9 DEF Next, obex_request, Ended

\* In every reachable state the stages of a live transfer are in order.
THEOREM LiveInductive == Spec => [](ObexInv /\ ShapeInv /\ LiveInv)
<1>1. Init => ObexInv /\ ShapeInv /\ LiveInv
  BY ObexStarts, ShapeStarts, LiveStarts
<1>2. ObexInv /\ ShapeInv /\ LiveInv /\ [Next]_vars => (ObexInv /\ ShapeInv /\ LiveInv)'
  BY ObexSteps, ShapeKept, LiveSteps
<1>3. QED
  BY <1>1, <1>2, PTL DEF Spec

\* When a file transfer has succeeded the progress callback has reported the
\* whole of it.
THEOREM ProgressAlwaysMatches == Spec => []ProgressMatches
<1>1. LiveInv => ProgressMatches
  <2> SUFFICES ASSUME LiveInv, pc = "idle", session.status = "success"
               PROVE  ProgressMatches
    BY DEF ProgressMatches
  <2>1. Live
    BY DEF Live
  <2>2. QED
    BY <2>1 DEF LiveInv, StageInv, AtIdle
<1>2. QED
  BY <1>1, LiveInductive, PTL

-----------------------------------------------------------------------------
(* Every step is one of FileTransfer, or leaves it as it is.               *)

\* A step of the transfer as its caller sees it.
Allowed == [Abstract!Next]_(Abstract!vars)

\* The transfer starts with nothing to move and nothing moved.
LEMMA TransferStarts ==
  ASSUME Init
  PROVE  Abstract!Init
<1>1. session.status = "new" /\ file = <<>> /\ object.cmd = "NONE"
  BY Zenon DEF Init, NoObject
<1>2. Promise(file) = <<>>
  BY <1>1 DEF Promise
<1>3. Promise(Moved) = <<>>
  BY <1>1 DEF Promise, Moved
<1>4. QED
  BY <1>1, <1>2, <1>3 DEF Abstract!Init

\* Nothing is promised of a broken session.
LEMMA StaysBroken ==
  ASSUME session.status = "broken", session'.status = "broken"
  PROVE  Allowed
<1>1. Promise(file) = <<>> /\ Promise(Moved) = <<>>
  BY DEF Promise
<1>2. Promise(file)' = <<>> /\ Promise(Moved)' = <<>>
  BY DEF Promise
<1>3. QED
  BY <1>1, <1>2 DEF Allowed, Abstract!vars

\* A request ends with an error.
LEMMA Breaks ==
  ASSUME session.status = "busy", session'.status = "broken"
  PROVE  Allowed
<1>1. Promise(file)' = <<>> /\ Promise(Moved)' = <<>>
  BY DEF Promise
<1>2. Abstract!Break
  BY <1>1 DEF Abstract!Break
<1>3. QED
  BY <1>2 DEF Allowed, Abstract!Next

\* What is promised of a session that is not broken.
LEMMA Promises ==
  /\ Live => Promise(file) = file /\ Promise(Moved) = Moved
  /\ Live' => Promise(file)' = file' /\ Promise(Moved)' = Moved'
  BY DEF Live, Promise

\* A step that moves nothing.
LEMMA Rests ==
  ASSUME Live, session'.status = session.status, file' = file, Moved' = Moved
  PROVE  Allowed
<1>1. Live'
  BY DEF Live
<1>2. Promise(file)' = Promise(file) /\ Promise(Moved)' = Promise(Moved)
  BY <1>1, Promises, Zenon
<1>3. QED
  BY <1>2 DEF Allowed, Abstract!vars

\* What has been moved changes only with these.
LEMMA MovedKept ==
  ASSUME object'.cmd = object.cmd, session'.requests = session.requests,
         object.cmd = "PUT" => device'.got = device.got,
         object.cmd = "GET" =>
           /\ ("BODY" \in object'.seen <=> "BODY" \in object.seen)
           /\ object'.body = object.body /\ object'.rx_body = object.rx_body
  PROVE  Moved' = Moved
<1>1. CASE object.cmd = "PUT"
  BY <1>1, Zenon DEF Moved
<1>2. CASE object.cmd = "GET"
  <2>1. "GET" # "PUT"
    OBVIOUS
  <2>2. QED
    BY <1>2, <2>1, Zenon DEF Moved, Received
<1>3. CASE object.cmd # "PUT" /\ object.cmd # "GET"
  BY <1>3, Zenon DEF Moved
<1>4. QED
  BY <1>1, <1>2, <1>3

\* The front of a file, and a shorter front.
LEMMA CutPrefix ==
  ASSUME NEW r \in Nat, NEW m \in Nat, NEW k \in Nat, m <= k
  PROVE  /\ IsPrefix(Cut(r, 0, m), Cut(r, 0, k))
         /\ m # k => IsStrictPrefix(Cut(r, 0, m), Cut(r, 0, k))
<1> DEFINE z == 0
           s == Cut(r, z, m)
           t == Cut(r, z, k)
<1>1. z \in Nat /\ z <= m /\ z <= k /\ m - z = m /\ k - z = k
  OBVIOUS
<1> HIDE DEF z
<1>2. /\ Len(s) = m - z /\ \A i \in 1 .. (m - z) : s[i] = <<"byte", r, z + i>>
  BY <1>1, CutIs
<1>3. /\ Len(t) = k - z /\ \A i \in 1 .. (k - z) : t[i] = <<"byte", r, z + i>>
  BY <1>1, CutIs
<1> HIDE DEF s, t
<1>4. Len(s) = m /\ Len(t) = k
  BY <1>1, <1>2, <1>3
<1>5. \A i \in 1 .. m : s[i] = t[i]
  BY <1>1, <1>2, <1>3
<1>6. IsPrefix(s, t)
  <2>1. Len(s) <= Len(t) /\ \A i \in 1 .. Len(s) : s[i] = t[i]
    BY <1>4, <1>5
  <2>2. QED
    BY <2>1 DEF IsPrefix
<1>7. m # k => s # t
  BY <1>4, Zenon
<1>8. QED
  BY <1>6, <1>7, Zenon DEF IsStrictPrefix, s, t, z

\* More of the file arrives.
LEMMA Moves ==
  ASSUME Live, session.status = "busy", session'.status = session.status, file' = file,
         NEW r \in Nat, NEW m \in Nat, NEW k \in Nat, NEW n \in Nat, m <= k, k <= n,
         file = Cut(r, 0, n), Moved = Cut(r, 0, m), Moved' = Cut(r, 0, k)
  PROVE  Allowed
<1>1. CASE m = k
  BY <1>1, Rests, Zenon
<1>2. CASE m # k
  <2>1. Live'
    BY DEF Live
  <2>2. /\ Promise(file)' = Promise(file) /\ Promise(file) = Cut(r, 0, n)
        /\ Promise(Moved) = Cut(r, 0, m) /\ Promise(Moved)' = Cut(r, 0, k)
    BY <2>1, Promises, Zenon
  <2>3. IsStrictPrefix(Cut(r, 0, m), Cut(r, 0, k)) /\ IsPrefix(Cut(r, 0, k), Cut(r, 0, n))
    BY <1>2, CutPrefix, Zenon
  <2>4. IsStrictPrefix(Promise(Moved), Promise(Moved)') /\ IsPrefix(Promise(Moved)', Promise(file))
    BY <2>2, <2>3, Zenon
  <2>5. Abstract!Move
    BY <2>2, <2>4, Zenon DEF Abstract!Move, IsStrictPrefix, IsPrefix,
       Abstract!IsStrictPrefix, Abstract!IsPrefix
  <2>6. QED
    BY <2>5 DEF Allowed, Abstract!Next
<1>3. QED
  BY <1>1, <1>2

\* A request begins, with a file of its own.
LEMMA StartAllowed ==
  ASSUME ObexInv, ShapeInv, LiveInv, Live, Request
  PROVE  Allowed
<1>1. SessionOK
  BY DEF ObexInv
<1>2. PICK cmd \in Commands, name \in Words, n \in Nat :
        /\ Starts(cmd, name, n) /\ n \in Sizes
        /\ cmd \in Plain => n = 0 /\ name = "none"
  BY <1>1, RequestForm, Zenon
<1> DEFINE r == session.requests
           c == r + 1
<1>3. /\ pc = "idle" /\ device' = device /\ r < MaxRequests
      /\ session'.requests = c
      /\ session'.status = IF session.status = "broken" THEN "broken" ELSE "busy"
      /\ file' = Cut(c, 0, n) /\ object'.cmd = cmd
      /\ object'.seen = {} /\ object'.rx_body = <<>>
  BY <1>2, Zenon DEF Starts
<1>4. FileInv /\ AtIdle
  BY <1>3, LiveFacts, Zenon DEF StageInv
<1>5. /\ session.status \in {"new", "success", "refused"} /\ session'.status = "busy"
      /\ Live'
  BY <1>3, <1>4 DEF AtIdle, Live
<1>6. r \in Nat /\ c \in Nat /\ c \in 1 .. MaxRequests
  BY <1>1, <1>3, ObexAssumption DEF SessionOK
<1>7. file' = [i \in 1 .. n |-> <<"byte", c, i>>]
  BY <1>3, <1>6, WholeFile, Zenon
<1>8. Moved' = <<>>
  <2>1. CASE cmd = "PUT"
    <3>1. \A i \in DOMAIN device.got : device.got[i][2] # c
      <4>1. \A x \in 0 .. r : x # c
        BY <1>6
      <4> HIDE DEF c
      <4>2. QED
        BY <4>1, <1>4, Zenon DEF FileInv
    <3>2. CASE DOMAIN device.got = {}
      <4> DEFINE g == device.got
      <4>1. g \in Seq(Cells) /\ DOMAIN g = {}
        BY <3>2, <1>4 DEF FileInv
      <4> HIDE DEF g
      <4>2. g = <<>>
        BY <4>1
      <4>3. QED
        BY <4>2, <2>1, <1>3, Zenon DEF Moved, g
    <3>3. CASE DOMAIN device.got # {}
      <4>1. ~(\A i \in DOMAIN device'.got : device'.got[i][2] = session'.requests)
        BY <3>1, <3>3, <1>3, Zenon
      <4>2. QED
        BY <4>1, <2>1, <1>3, Zenon DEF Moved
    <3>4. QED
      BY <3>2, <3>3
  <2>2. CASE cmd = "GET"
    <3>1. "GET" # "PUT"
      OBVIOUS
    <3>2. QED
      BY <2>2, <3>1, <1>3, Zenon DEF Moved, Received
  <2>3. CASE cmd # "PUT" /\ cmd # "GET"
    BY <2>3, <1>3, Zenon DEF Moved
  <2>4. QED
    BY <2>1, <2>2, <2>3
<1>9. Promise(file)' = file' /\ Promise(Moved)' = <<>>
  BY <1>5, <1>8, Promises, Zenon
<1>10. Abstract!Begin
  <2>1. n \in {o[1] : o \in Objects} \cup {0}
    BY <1>2 DEF Sizes
  <2> DEFINE f == file'
             a == {o[1] : o \in Objects} \cup {0}
             M == 1 .. MaxRequests
  <2>2. n \in a /\ c \in M /\ f = [i \in 1 .. n |-> <<"byte", c, i>>]
    BY <2>1, <1>6, <1>7, Zenon
  <2> HIDE DEF f, a, M, c
  <2>3. f \in {[i \in 1 .. l |-> <<"byte", q, i>>] : l \in a, q \in M}
    BY <2>2
  <2>4. Promise(file)' \in {[i \in 1 .. l |-> <<"byte", q, i>>] : l \in a, q \in M}
    BY <2>3, <1>9 DEF f
  <2>5. QED
    BY <2>4, <1>5, <1>9 DEF Abstract!Begin, a, M
<1>11. QED
  BY <1>10 DEF Allowed, Abstract!Next

\* Of the file of a PUT the device has got what it has got.
LEMMA PutMoved ==
  ASSUME SessionOK, NEW k \in Nat
  PROVE  /\ object.cmd = "PUT" /\ device.got = Cut(session.requests, 0, k) =>
              Moved = Cut(session.requests, 0, k)
         /\ object'.cmd = "PUT" /\ session'.requests = session.requests
              /\ device'.got = Cut(session.requests, 0, k) =>
              Moved' = Cut(session.requests, 0, k)
<1> DEFINE r == session.requests
           z == 0
           c == Cut(r, z, k)
<1>1. r \in Nat /\ z \in Nat /\ z <= k
  BY DEF SessionOK
<1> HIDE DEF z, r
<1>2. DOMAIN c = 1 .. (k - z) /\ \A i \in 1 .. (k - z) : c[i] = <<"byte", r, z + i>>
  BY <1>1, CutIs
<1> HIDE DEF c
<1>3. \A i \in DOMAIN c : c[i][2] = r
  <2>1. \A x : <<"byte", r, x>>[2] = r
    OBVIOUS
  <2>2. QED
    BY <2>1, <1>2, Zenon
<1>4. object.cmd = "PUT" /\ device.got = c => Moved = c
  BY <1>3, Zenon DEF Moved, r
<1>5. object'.cmd = "PUT" /\ session'.requests = session.requests /\ device'.got = c => Moved' = c
  BY <1>3, Zenon DEF Moved, r
<1>6. QED
  BY <1>4, <1>5, Zenon DEF c, r, z

\* Of another file's bytes none count.
LEMMA NothingMoved ==
  ASSUME device.got \in Seq(Cells), object.cmd = "PUT",
         \A i \in DOMAIN device.got : device.got[i][2] # session.requests
  PROVE  Moved = <<>>
<1> DEFINE g == device.got
<1>1. g \in Seq(Cells)
  OBVIOUS
<1> HIDE DEF g
<1>2. CASE DOMAIN g = {}
  <2>1. g = <<>>
    BY <1>1, <1>2
  <2>2. QED
    BY <2>1, Zenon DEF Moved, g
<1>3. CASE DOMAIN g # {}
  BY <1>3, Zenon DEF Moved, g
<1>4. QED
  BY <1>2, <1>3

\* The device answers: what it has got of a PUT may have grown.
LEMMA AnswerAllowed ==
  ASSUME ObexInv, ShapeInv, LiveInv, Live, DeviceAnswer
  PROVE  Allowed
<1>1. SessionOK
  BY DEF ObexInv
<1>2. FileInv /\ StageInv
  BY LiveFacts, Zenon
<1>3. PICK p, d, refuse, t : AnswerStep(p, d, refuse, t)
  BY <1>2, AnswerForm, Zenon
<1> DEFINE r == session.requests
           n == Len(file)
           q == object.txq
<1>4. /\ pc = "verify" /\ LoadedWith(d)
      /\ session'.requests = r /\ session'.status = session.status
      /\ device'.got = IF p[2][2] = "PUT"
                       THEN (IF Named(p) # {} THEN <<>> ELSE device.got) \o Carried(p)
                       ELSE device.got
      /\ object' = object /\ progress' = progress /\ file' = file
  BY <1>3, Zenon DEF AnswerStep
<1>5. session.status = "busy" /\ r > 0 /\ r \in Nat /\ n \in Nat
  BY <1>1, <1>2, <1>4 DEF StageInv, SessionOK, FileInv
<1>6. p[2][2] = object.cmd
  BY <1>3, AnsweredPacket, Zenon
<1>7. CASE object.cmd # "PUT"
  <2>1. device'.got = device.got
    BY <1>4, <1>6, <1>7, Zenon
  <2>2. Moved' = Moved
    BY <2>1, <1>4, MovedKept, Zenon
  <2>3. QED
    BY <2>2, <1>4, Rests, Zenon
<1>8. CASE object.cmd = "PUT"
  <2>1. PICK first, m, k : PutGrown(d, first, m, k)
    BY <1>2, <1>3, <1>8, PutGrows, Zenon
  <2>2. /\ first \in BOOLEAN /\ m \in 0 .. n /\ k \in 0 .. n /\ m <= k /\ k <= n
        /\ (first => m = 0) /\ device'.got = Cut(r, 0, k)
        /\ PutBefore(first, device.got, progress, object.name, r, n, m)
    BY <2>1, Zenon DEF PutGrown, PutLoad
  <2>3. m \in Nat /\ k \in Nat
    BY <2>2, <1>5
  <2>4. Moved = Cut(r, 0, m)
    <3>1. CASE ~first
      <4>1. device.got = Cut(r, 0, m)
        BY <3>1, <2>2, Zenon DEF PutBefore
      <4>2. QED
        BY <4>1, <2>3, <1>1, <1>8, PutMoved, Zenon
    <3>2. CASE first
      <4>1. \A i \in DOMAIN device.got : device.got[i][2] # r
        BY <3>2, <2>2, Zenon DEF PutBefore
      <4>2. Moved = <<>>
        BY <4>1, <1>2, <1>8, NothingMoved, Zenon DEF FileInv
      <4>3. Cut(r, m, m) = <<>>
        BY <2>3, <1>5, CutEmpty, Zenon
      <4>4. m = 0
        BY <3>2, <2>2
      <4>5. QED
        BY <4>2, <4>3, <4>4
    <3>3. QED
      BY <2>2, <3>1, <3>2
  <2>5. Moved' = Cut(r, 0, k)
    BY <2>2, <2>3, <1>1, <1>4, <1>8, PutMoved, Zenon
  <2>6. file = Cut(r, 0, n)
    BY <1>2, Zenon DEF FileInv
  <2>7. QED
    BY <2>2, <2>3, <2>4, <2>5, <2>6, <1>4, <1>5, Moves, Zenon
<1>9. QED
  BY <1>7, <1>8

\* A step that leaves the file, what has arrived of it and the result alone.
Quiet ==
  /\ session'.status = session.status /\ session'.requests = session.requests
  /\ file' = file /\ device'.got = device.got /\ object'.cmd = object.cmd
  /\ object'.body = object.body /\ object'.rx_body = object.rx_body
  /\ "BODY" \in object'.seen <=> "BODY" \in object.seen

\* Such a step is none of the transfer.
LEMMA QuietAllowed ==
  ASSUME Quiet
  PROVE  Allowed
<1>1. CASE Live
  <2>1. Moved' = Moved
    BY MovedKept, Zenon DEF Quiet
  <2>2. QED
    BY <2>1, <1>1, Rests, Zenon DEF Quiet
<1>2. CASE ~Live
  BY <1>2, StaysBroken, Zenon DEF Live, Quiet
<1>3. QED
  BY <1>1, <1>2

\* The steps of obex_object_send, short of an error.
LEMMA SendQuiet ==
  ASSUME ObexInv, ShapeInv, obex_object_send
  PROVE  Quiet \/ (pc = "fill" /\ Fail(0))
<1>1. ObjectOK
  BY DEF ObexInv
<1>2. CASE SendBegin
  <2>1. /\ object' = [object EXCEPT !.nonhdr = 0]
        /\ session' = session /\ file' = file /\ device' = device
    BY <1>2, Zenon DEF SendBegin
  <2>2. /\ object'.cmd = object.cmd /\ object'.body = object.body
        /\ object'.rx_body = object.rx_body /\ object'.seen = object.seen
    BY <2>1, <1>1, Zenon DEF ObjectOK, Wanted
  <2>3. QED
    BY <2>1, <2>2, Zenon DEF Quiet
<1>3. CASE SendFragment \/ SendBodyEnd \/ SendHeader
  <2>1. PICK cells, left, q : Put(cells, left, q)
    BY <1>3, Zenon DEF SendFragment, SendBodyEnd, SendHeader
  <2>2. /\ object' = [object EXCEPT !.txq = q]
        /\ session' = session /\ file' = file /\ device' = device
    BY <2>1, Zenon DEF Put
  <2>3. /\ object'.cmd = object.cmd /\ object'.body = object.body
        /\ object'.rx_body = object.rx_body /\ object'.seen = object.seen
    BY <2>2, <1>1, Zenon DEF ObjectOK, Wanted
  <2>4. QED
    BY <2>2, <2>3, Zenon DEF Quiet
<1>4. CASE SendPacket
  <2> DEFINE in == Append(device.inbox, Packet.data)
             id == session.packets + 1
  <2>1. CASE device.gone
    BY <1>4, <2>1, Zenon DEF SendPacket
  <2>2. CASE ~device.gone
    <3>1. /\ device' = [device EXCEPT !.inbox = in] /\ object' = object /\ file' = file
          /\ session' = [session EXCEPT !.packets = id]
      BY <1>4, <2>2, Zenon DEF SendPacket
    <3> HIDE DEF in, id
    <3>2. /\ device'.got = device.got /\ session'.status = session.status
          /\ session'.requests = session.requests
      BY <3>1, Zenon DEF ShapeInv
    <3>3. QED
      BY <3>1, <3>2, Zenon DEF Quiet
  <2>3. QED
    BY <2>1, <2>2
<1>5. QED
  BY <1>2, <1>3, <1>4, Zenon DEF obex_object_send

\* The steps of obex_verify_seq, short of an error.
LEMMA VerifyQuiet ==
  ASSUME ShapeInv, obex_verify_seq
  PROVE  Quiet \/ (pc = "verify" /\ \E n : Fail(n))
<1>1. CASE SeqMismatch \/ SeqTimeout
  BY <1>1, Zenon DEF SeqMismatch, SeqTimeout
<1>2. CASE SeqEmpty
  <2>1. pc = "verify" /\ device' = [device EXCEPT !.wire = Rest] /\ file' = file
    BY <1>2, Zenon DEF SeqEmpty, Reads
  <2>2. device'.got = device.got
    BY <2>1, Zenon DEF ShapeInv
  <2>3. CASE tries + 1 < SeqTries
    <3>1. object' = object /\ session' = session
      BY <1>2, <2>3, Zenon DEF SeqEmpty
    <3>2. QED
      BY <2>1, <2>2, <3>1, Zenon DEF Quiet
  <2>4. CASE ~(tries + 1 < SeqTries)
    BY <1>2, <2>1, <2>4, Zenon DEF SeqEmpty
  <2>5. QED
    BY <2>3, <2>4
<1>3. CASE SeqMatches
  <2> DEFINE c == session.collided \/ Head(Take)[1] # "seq"
  <2>1. /\ device' = [device EXCEPT !.wire = Rest] /\ file' = file /\ object' = object
        /\ session' = [session EXCEPT !.collided = c]
    BY <1>3, Zenon DEF SeqMatches, Reads
  <2> HIDE DEF c
  <2>2. /\ device'.got = device.got /\ session'.status = session.status
        /\ session'.requests = session.requests
    BY <2>1, Zenon DEF ShapeInv
  <2>3. QED
    BY <2>1, <2>2, Zenon DEF Quiet
<1>4. QED
  BY <1>1, <1>2, <1>3, Zenon DEF obex_verify_seq

\* The steps of obex_object_receive that copy no body.
LEMMA ReceiveQuiet ==
  ASSUME ObexInv, ShapeInv, obex_object_receive, ~ParseBody
  PROVE  Quiet
<1>1. ObjectOK
  BY DEF ObexInv
<1>2. CASE obex_bulk_read
  <2>1. /\ device' = [device EXCEPT !.wire = Rest] /\ file' = file /\ object' = object
        /\ session' = session
    BY <1>2, Zenon DEF obex_bulk_read, Reads
  <2>2. device'.got = device.got
    BY <2>1, Zenon DEF ShapeInv
  <2>3. QED
    BY <2>1, <2>2, Zenon DEF Quiet
<1>3. CASE ReadTimeout
  <2> DEFINE f == session.faults + Late
  <2>1. /\ device' = device /\ file' = file /\ object' = object
        /\ session' = [session EXCEPT !.faults = f]
    BY <1>3, Zenon DEF ReadTimeout
  <2> HIDE DEF f
  <2>2. session'.status = session.status /\ session'.requests = session.requests
    BY <2>1, Zenon DEF ShapeInv
  <2>3. QED
    BY <2>1, <2>2, Zenon DEF Quiet
<1>4. CASE ReceiveHeader
  <2> DEFINE id == self.rx_msg.data[1][3]
             z == 0
  <2>1. /\ device' = device /\ file' = file /\ object' = [object EXCEPT !.offset = z]
        /\ session' = [session EXCEPT !.reply = id]
    BY <1>4, Zenon DEF ReceiveHeader
  <2> HIDE DEF id, z
  <2>2. session'.status = session.status /\ session'.requests = session.requests
    BY <2>1, Zenon DEF ShapeInv
  <2>3. /\ object'.cmd = object.cmd /\ object'.body = object.body
        /\ object'.rx_body = object.rx_body /\ object'.seen = object.seen
    BY <2>1, <1>1, Zenon DEF ObjectOK, Wanted
  <2>4. QED
    BY <2>1, <2>2, <2>3, Zenon DEF Quiet
<1>5. CASE ParseHeader
  <2> DEFINE v == self.rx_msg.data[1][4]
             sn == object.seen \cup {"LENGTH"}
  <2>1. /\ device' = device /\ file' = file /\ session' = session
        /\ object' = object \/ object' = [object EXCEPT !.hinted = v, !.seen = sn]
    BY <1>5, Zenon DEF ParseHeader
  <2>2. "BODY" \in sn <=> "BODY" \in object.seen
    OBVIOUS
  <2> HIDE DEF v, sn
  <2>3. /\ object'.cmd = object.cmd /\ object'.body = object.body
        /\ object'.rx_body = object.rx_body
        /\ object'.seen = object.seen \/ object'.seen = sn
    BY <2>1, <1>1, Zenon DEF ObjectOK, Wanted
  <2>4. QED
    BY <2>1, <2>2, <2>3, Zenon DEF Quiet
<1>6. CASE ParseDone
  BY <1>6, Zenon DEF ParseDone, Quiet
<1>7. QED
  BY <1>2, <1>3, <1>4, <1>5, <1>6, Zenon DEF obex_object_receive

\* The other steps that move nothing.
LEMMA OtherQuiet ==
  ASSUME ShapeInv, RequestContinues \/ Unplug \/ UNCHANGED vars
  PROVE  Quiet
<1>1. CASE RequestContinues
  BY <1>1, Zenon DEF RequestContinues, Quiet
<1>2. CASE Unplug
  <2> DEFINE f == session.faults + 1
             e == <<>>
  <2>1. /\ session' = [session EXCEPT !.faults = f]
        /\ device' = [device EXCEPT !.gone = TRUE, !.inbox = e, !.wire = e]
        /\ object' = object /\ file' = file
    BY <1>2, Zenon DEF Unplug
  <2> HIDE DEF e, f
  <2>2. /\ device'.got = device.got /\ session'.status = session.status
        /\ session'.requests = session.requests
    BY <2>1, Zenon DEF ShapeInv
  <2>3. QED
    BY <2>1, <2>2, Zenon DEF Quiet
<1>3. CASE UNCHANGED vars
  BY <1>3 DEF vars, Quiet
<1>4. QED
  BY <1>1, <1>2, <1>3

\* What a GET has received.
LEMMA GetMoved ==
  ASSUME SessionOK, NEW n, NEW m, object.cmd = "GET",
         GetHalf(object.seen, object.rx_body, object.hinted, session.requests, n, m)
  PROVE  Moved = Cut(session.requests, 0, m)
<1> DEFINE r == session.requests
           z == 0
<1>1. "GET" # "PUT"
  OBVIOUS
<1>2. Moved = IF object.rx_body # <<>> THEN object.rx_body[1].data ELSE <<>>
  BY <1>1, Zenon DEF Moved, Received, GetHalf
<1>3. CASE object.rx_body = <<>>
  <2>1. m = z
    BY <1>3, Zenon DEF GetHalf
  <2>2. r \in Nat /\ z \in Nat
    BY DEF SessionOK
  <2> HIDE DEF z
  <2>3. Cut(r, z, z) = <<>>
    BY <2>2, CutEmpty, Zenon
  <2>4. QED
    BY <2>1, <2>3, <1>2, <1>3, Zenon DEF z
<1>4. CASE object.rx_body # <<>>
  BY <1>2, <1>4, Zenon DEF GetHalf
<1>5. QED
  BY <1>3, <1>4

\* A body header of an answer to a GET: its bytes follow those received.
LEMMA ParseBodyAllowed ==
  ASSUME ObexInv, ShapeInv, LiveInv, Live, ParseBody
  PROVE  Allowed
<1> DEFINE h == self.rx_msg.data[1]
           n == Len(file)
           r == session.requests
           w(i) == buf_insert_end(BodyBuffer(i), Fragment(self.rx_msg.data, i))
<1>1. /\ Parsing /\ pc = "parse" /\ h[2] \in {"BODY", "BODY_END"}
      /\ object' = IF h[2] = "BODY"
                   THEN [object EXCEPT !.rx_body = <<w(h[3] - 3)>>]
                   ELSE [object EXCEPT !.rx_body = <<>>, !.body = w(h[3] - 3).data,
                                       !.seen = object.seen \cup {"BODY"}]
      /\ UNCHANGED <<session, file>>
  BY Zenon DEF ParseBody, Parsing
<1>2. FileInv /\ StageInv /\ SessionOK /\ ObjectOK
  BY LiveFacts, Zenon DEF ObexInv
<1>3. PICK front, m, k : Parts(front, m, k)
  BY <1>1, <1>2, ParseParts, Zenon
<1>4. /\ front = <<>> /\ self.rx_msg.data = BodyPart(m, k)
      /\ h = <<"hdr", BodyName(rsp = "SUCCESS"), 3 + (k - m), 0>>
  <2> DEFINE y == self.rx_msg.data[1]
  <2>1. y = <<"hdr", "LENGTH", 5, n>> => y[2] \notin {"BODY", "BODY_END"}
    <3> HIDE DEF y
    <3>1. QED
      OBVIOUS
  <2>2. QED
    BY <2>1, <1>1, <1>2, <1>3, ParseLead, Zenon
<1>5. m \in Nat /\ k \in Nat /\ n \in Nat /\ r \in Nat /\ m <= k /\ k <= n
  BY <1>2, <1>3 DEF Parts, FileInv, SessionOK
<1>6. h[3] = 3 + (k - m)
  <2> HIDE DEF h
  <2>1. QED
    BY <1>4
<1> HIDE DEF h
<1>7. h[3] - 3 = k - m
  BY <1>5, <1>6
<1> HIDE DEF w
<1>8. /\ GetHalf(object.seen, object.rx_body, object.hinted, r, n, m)
      /\ w(k - m).data = Cut(r, 0, k)
  BY <1>2, <1>3, <1>4, BodyGrows, Zenon DEF w
<1> DEFINE b == w(k - m)
<1> HIDE DEF b
<1>9. object.cmd = "GET" /\ "GET" # "PUT"
  BY <1>3 DEF Parts
<1>10. Moved = Cut(r, 0, m)
  BY <1>2, <1>8, <1>9, GetMoved, Zenon
<1>11. Moved' = Cut(r, 0, k)
  <2>1. CASE h[2] = "BODY"
    <3>1. object' = [object EXCEPT !.rx_body = <<b>>]
      BY <2>1, <1>1, <1>7, Zenon DEF b
    <3>2. object'.cmd = object.cmd /\ object'.seen = object.seen /\ object'.rx_body = <<b>>
      BY <1>2, <3>1, Zenon DEF ObjectOK, Wanted
    <3>3. <<b>> # <<>> /\ <<b>>[1] = b
      OBVIOUS
    <3>4. QED
      BY <3>2, <3>3, <1>8, <1>9, Zenon DEF Moved, Received, GetHalf, b
  <2>2. CASE h[2] # "BODY"
    <3>1. object' = [object EXCEPT !.rx_body = <<>>, !.body = b.data,
                                   !.seen = object.seen \cup {"BODY"}]
      BY <2>2, <1>1, <1>7, Zenon DEF b
    <3>2. /\ object'.cmd = object.cmd /\ object'.seen = object.seen \cup {"BODY"}
          /\ object'.body = b.data
      BY <1>2, <3>1, Zenon DEF ObjectOK, Wanted
    <3>3. QED
      BY <3>2, <1>8, <1>9, Zenon DEF Moved, Received, b
  <2>3. QED
    BY <2>1, <2>2
<1>12. file = Cut(r, 0, n) /\ session.status = "busy"
  BY <1>1, <1>2 DEF FileInv, StageInv
<1>13. QED
  BY <1>1, <1>5, <1>10, <1>11, <1>12, Moves, Zenon

\* A request that returns success has moved the whole file.
LEMMA AllMoved ==
  ASSUME ObexInv, ShapeInv, FileInv, Replied, Finished, session.requests > 0,
         exword_handle_callbacks, rsp = "SUCCESS"
  PROVE  Moved = file
<1> DEFINE r == session.requests
           n == Len(file)
<1>1. SessionOK /\ file = Cut(r, 0, n) /\ n \in Nat
  BY DEF ObexInv, FileInv
<1>2. \/ object.cmd \in Plain
      \/ object.cmd = "PUT" /\ object.txq = <<>>
      \/ object.cmd = "GET" /\ "BODY" \in object.seen /\ object.body = Cut(r, 0, n)
  BY DEF Finished, GetDone
<1>3. CASE object.cmd \in Plain
  <2>1. object.cmd # "PUT" /\ object.cmd # "GET" /\ file = <<>>
    BY <1>3 DEF Plain, FileInv
  <2>2. QED
    BY <2>1, Zenon DEF Moved
<1>4. CASE object.cmd = "PUT" /\ object.txq = <<>>
  <2>1. PICK k : PutNow(k)
    BY <1>4, Reported, Zenon DEF Replied
  <2>2. k = n /\ device.got = Cut(r, 0, k)
    BY <1>4, <2>1, Zenon DEF PutNow
  <2>3. QED
    BY <1>1, <1>4, <2>2, PutMoved, Zenon
<1>5. CASE object.cmd = "GET" /\ "BODY" \in object.seen /\ object.body = Cut(r, 0, n)
  <2>1. "GET" # "PUT"
    OBVIOUS
  <2>2. QED
    BY <1>1, <1>5, <2>1, Zenon DEF Moved, Received
<1>6. QED
  BY <1>2, <1>3, <1>4, <1>5

\* A request returns: with all of the file moved, refused, or with an error.
LEMMA ReturnsAllowed ==
  ASSUME ObexInv, ShapeInv, LiveInv, Live, RequestReturns
  PROVE  Allowed
<1> DEFINE own == session.own /\ (rsp = "SUCCESS" => session.reply = session.packets)
           st == IF session.status = "broken" \/ rsp = "error" THEN "broken"
                 ELSE IF rsp = "SUCCESS" THEN "success" ELSE "refused"
<1>1. /\ pc = "callback" /\ exword_handle_callbacks
      /\ session' = [session EXCEPT !.own = own, !.status = st]
      /\ UNCHANGED <<object, device, file>>
  BY Zenon DEF RequestReturns
<1> HIDE DEF own, st
<1>2. session'.requests = session.requests /\ session'.status = st
  BY <1>1, Zenon DEF ShapeInv
<1>3. FileInv /\ StageInv
  BY LiveFacts, Zenon
<1>4. session.status = "busy" /\ session.requests > 0
  BY <1>1, <1>3 DEF StageInv
<1>5. Moved' = Moved
  BY <1>1, <1>2, MovedKept, Zenon
<1>6. CASE rsp = "error"
  <2>1. session'.status = "broken"
    BY <1>2, <1>6, Zenon DEF st
  <2>2. QED
    BY <2>1, <1>4, Breaks, Zenon
<1>7. CASE rsp # "error" /\ rsp = "SUCCESS"
  <2>1. st = "success"
    BY <1>7, Zenon DEF st, Live
  <2>2. Live'
    BY <2>1, <1>2 DEF Live
  <2>3. Replied /\ Finished
    BY <1>1, <1>3, <1>7, Zenon DEF StageInv
  <2>4. Moved = file
    BY <2>3, <1>1, <1>3, <1>4, <1>7, AllMoved, Zenon
  <2>5. /\ Promise(Moved) = Promise(file)
        /\ Promise(file)' = Promise(file) /\ Promise(Moved)' = Promise(Moved)
    BY <2>2, <2>4, <1>1, <1>5, Promises, Zenon
  <2>6. Abstract!Succeed
    BY <2>1, <2>5, <1>2, <1>4 DEF Abstract!Succeed
  <2>7. QED
    BY <2>6 DEF Allowed, Abstract!Next
<1>8. CASE rsp # "error" /\ rsp # "SUCCESS"
  <2>1. st = "refused"
    BY <1>8, Zenon DEF st, Live
  <2>2. Live'
    BY <2>1, <1>2 DEF Live
  <2>3. Promise(file)' = Promise(file) /\ Promise(Moved)' = Promise(Moved)
    BY <2>2, <1>1, <1>5, Promises, Zenon
  <2>4. Abstract!Refuse
    BY <2>1, <2>3, <1>2, <1>4 DEF Abstract!Refuse
  <2>5. QED
    BY <2>4 DEF Allowed, Abstract!Next
<1>9. QED
  BY <1>6, <1>7, <1>8

\* A broken session stays broken.
LEMMA BrokenStays ==
  ASSUME ObexInv, ShapeInv, ~Live, [Next]_vars
  PROVE  session'.status = "broken"
<1>1. SessionOK /\ session.status = "broken"
  BY DEF ObexInv, Live
<1>2. Quiet => session'.status = "broken"
  BY <1>1, Zenon DEF Quiet
<1>3. ASSUME NEW n, Fail(n) PROVE session'.status = "broken"
  BY <1>1, <1>3, FailBreaks, Zenon
<1>4. CASE Request
  BY <1>1, <1>4, RequestForm, Zenon DEF Starts
<1>5. CASE obex_object_send
  BY <1>2, <1>3, <1>5, SendQuiet, Zenon
<1>6. CASE obex_verify_seq
  BY <1>2, <1>3, <1>6, VerifyQuiet, Zenon
<1>7. CASE obex_object_receive
  <2>1. CASE ParseBody
    BY <1>1, <2>1, Zenon DEF ParseBody
  <2>2. CASE ~ParseBody
    BY <1>2, <1>7, <2>2, ReceiveQuiet, Zenon
  <2>3. QED
    BY <2>1, <2>2
<1>8. CASE RequestReturns
  <2> DEFINE own == session.own /\ (rsp = "SUCCESS" => session.reply = session.packets)
  <2>1. session' = [session EXCEPT !.own = own, !.status = "broken"]
    BY <1>1, <1>8, Zenon DEF RequestReturns
  <2> HIDE DEF own
  <2>2. QED
    BY <2>1, Zenon DEF ShapeInv
<1>9. CASE RequestContinues \/ Unplug \/ UNCHANGED vars
  BY <1>2, <1>9, OtherQuiet, Zenon
<1>10. CASE DeviceAnswer
  <2>1. PICK t : session' = [session EXCEPT !.empties = session.empties + t.empties]
    BY <1>10, Zenon DEF DeviceAnswer, Answers
  <2>2. QED
    BY <2>1, <1>1, Zenon DEF ShapeInv
<1>11. QED
  BY <1>4, <1>5, <1>6, <1>7, <1>8, <1>9, <1>10 DEF Next, obex_request, Ended

\* Every step of a session is a step of the transfer its caller sees, or none.
LEMMA StepAllowed ==
  ASSUME ObexInv, ShapeInv, LiveInv, [Next]_vars
  PROVE  Allowed
<1>1. CASE ~Live
  <2>1. session.status = "broken" /\ session'.status = "broken"
    BY <1>1, BrokenStays, Zenon DEF Live
  <2>2. QED
    BY <2>1, StaysBroken, Zenon
<1>2. CASE Live
  <2>1. SessionOK /\ StageInv
    BY <1>2, LiveFacts, Zenon DEF ObexInv
  <2>2. ASSUME NEW n, Fail(n), pc = "fill" \/ pc = "verify" PROVE Allowed
    <3>1. session.status = "busy"
      BY <2>1, <2>2 DEF StageInv
    <3>2. session'.status = "broken"
      BY <2>1, <2>2, FailBreaks, Zenon
    <3>3. QED
      BY <3>1, <3>2, Breaks, Zenon
  <2>3. CASE Request
    BY <1>2, <2>3, StartAllowed, Zenon
  <2>4. CASE obex_object_send
    BY <2>2, <2>4, SendQuiet, QuietAllowed, Zenon
  <2>5. CASE obex_verify_seq
    BY <2>2, <2>5, VerifyQuiet, QuietAllowed, Zenon
  <2>6. CASE obex_object_receive
    BY <1>2, <2>6, ReceiveQuiet, QuietAllowed, ParseBodyAllowed, Zenon
  <2>7. CASE RequestReturns
    BY <1>2, <2>7, ReturnsAllowed, Zenon
  <2>8. CASE RequestContinues \/ Unplug \/ UNCHANGED vars
    BY <2>8, OtherQuiet, QuietAllowed, Zenon
  <2>9. CASE DeviceAnswer
    BY <1>2, <2>9, AnswerAllowed, Zenon
  <2>10. QED
    BY <2>3, <2>4, <2>5, <2>6, <2>7, <2>8, <2>9 DEF Next, obex_request, Ended
<1>3. QED
  BY <1>1, <1>2

\* TransferExact: obex_request implements FileTransfer.  The file arrives in
\* order, and a request that reports success has moved all of it.
THEOREM TransferAlwaysExact == Spec => TransferExact
<1>1. Init => Abstract!Init
  BY TransferStarts
<1>2. (ObexInv /\ ShapeInv /\ LiveInv) /\ [Next]_vars => [Abstract!Next]_(Abstract!vars)
  BY StepAllowed DEF Allowed
<1>3. QED
  BY <1>1, <1>2, LiveInductive, PTL DEF Spec, TransferExact, Abstract!Spec

-----------------------------------------------------------------------------
(* Late answers.  A number is sent back at the front of an answer and      *)
(* nowhere else, so that what is left of a transfer that was read in part  *)
(* is never taken for one.                                                 *)

\* The cells that are no sequence number.
Muted == {c \in Cells : c[1] # "seq"}

\* The cells of an answer behind its number.
LEMMA MutedCells ==
  /\ <<"pad">> \in Muted /\ <<"len">> \in Muted
  /\ \A n \in Nat : <<"len", n>> \in Muted
  /\ \A hi \in Words, n \in Nat, v \in Nat : n >= 3 => <<"hdr", hi, n, v>> \in Muted
  /\ \A r \in Nat, n \in Nat : <<"byte", r, n>> \in Muted
  /\ \A c \in Words, n \in Nat : <<"rsp", c, n>> \in Muted
<1>1. \A c \in Cells : c[1] # "seq" => c \in Muted
  BY Zenon DEF Muted
<1>2. /\ <<"pad">>[1] # "seq" /\ <<"len">>[1] # "seq" /\ \A n : <<"len", n>>[1] # "seq"
      /\ \A hi, n, v : <<"hdr", hi, n, v>>[1] # "seq"
      /\ \A r, n : <<"byte", r, n>>[1] # "seq"
      /\ \A c, n : <<"rsp", c, n>>[1] # "seq"
  OBVIOUS
<1>3. QED
  BY <1>1, <1>2, NewCells, Zenon

\* Runs of such cells are runs of cells.
LEMMA MutedRuns ==
  /\ Seq(Muted) \subseteq Seq(Cells) /\ <<>> \in Seq(Muted)
  /\ \A n \in Nat : Pads(n) \in Seq(Muted)
<1>1. Muted \subseteq Cells
  BY Zenon DEF Muted
<1>2. Seq(Muted) \subseteq Seq(Cells)
  <2> DEFINE A == Muted
             B == Cells
  <2>1. A \subseteq B
    BY <1>1
  <2> HIDE DEF A, B
  <2>2. Seq(A) \subseteq Seq(B)
    BY <2>1
  <2>3. QED
    BY <2>2 DEF A, B
<1>3. ASSUME NEW n \in Nat PROVE Pads(n) \in Seq(Muted)
  <2> DEFINE c == <<"pad">>
             A == Muted
  <2>1. c \in A
    BY MutedCells
  <2> HIDE DEF c, A
  <2>2. [i \in 1 .. n |-> c] \in Seq(A)
    BY <2>1
  <2>3. QED
    BY <2>2, Zenon DEF Pads, c, A
<1>4. QED
  BY <1>2, <1>3

\* Headers hold no number.
LEMMA MutedHeaders ==
  ASSUME NEW hi \in Words, NEW bytes \in Seq(Muted), NEW v \in Nat
  PROVE  Stream(hi, bytes) \in Seq(Muted) /\ Uint(hi, v) \in Seq(Muted)
<1> DEFINE S == Muted
           a == <<"hdr", hi, 3 + Len(bytes), 0>>
           b == <<"hdr", hi, 5, v>>
<1>1. Len(bytes) \in Nat /\ 3 + Len(bytes) \in Nat /\ 3 + Len(bytes) >= 3
  OBVIOUS
<1>2. a \in S /\ b \in S
  BY <1>1, MutedCells
<1>3. Pads(2) \in Seq(S) /\ Pads(4) \in Seq(S) /\ bytes \in Seq(S)
  BY MutedRuns
<1> HIDE DEF S
<1>4. \A c \in S, p \in Seq(S) : <<c>> \o p \in Seq(S)
  OBVIOUS
<1> HIDE DEF a, b
<1>5. <<b>> \o Pads(4) \in Seq(S) /\ <<a>> \o Pads(2) \in Seq(S)
  BY <1>2, <1>3, <1>4, Zenon
<1>6. (<<a>> \o Pads(2)) \o bytes \in Seq(S)
  BY <1>3, <1>5, ConcatProperties, Zenon
<1>7. QED
  BY <1>5, <1>6, Zenon DEF Stream, Uint, S, a, b

\* The file a packet asks for holds no number.
LEMMA MutedFetched ==
  ASSUME device.out \in Seq(Muted), NEW p \in Packets
  PROVE  Fetched(p) \in Seq(Muted)
<1> DEFINE name == CHOOSE c \in Named(p) : TRUE
<1>1. CASE Named(p) # {}
  <2>1. name \in Named(p)
    BY <1>1, Zenon
  <2>2. name \in ToSet(p) /\ name[1] = "name"
    BY <2>1, Zenon DEF Named
  <2>3. name \in Cells
    <3>1. PICK i \in DOMAIN p : name = p[i]
      BY <2>2, Zenon DEF ToSet
    <3>2. p \in Seq(Cells)
      BY Zenon DEF Packets
    <3>3. \A s \in Seq(Cells) : \A j \in DOMAIN s : s[j] \in Cells
      OBVIOUS
    <3>4. QED
      BY <3>1, <3>2, <3>3, Zenon
  <2>4. name[2] \in Nat /\ name[3] \in Nat
    BY <2>2, <2>3, CellKinds, Zenon
  <2>5. Fetched(p) = [i \in 1 .. name[3] |-> <<"byte", name[2], i>>]
    BY <1>1, Zenon DEF Fetched
  <2> DEFINE r == name[2]
             n == name[3]
  <2>6. r \in Nat /\ n \in Nat
    BY <2>4
  <2> HIDE DEF r, n
  <2>7. \A i \in 1 .. n : <<"byte", r, i>> \in Muted
    <3>1. (1 .. n) \subseteq Nat
      BY <2>6
    <3>2. QED
      BY <3>1, <2>6, MutedCells, Zenon
  <2>8. [i \in 1 .. n |-> <<"byte", r, i>>] \in Seq(Muted)
    BY <2>6, <2>7
  <2>9. QED
    BY <2>5, <2>8, Zenon DEF r, n
<1>2. CASE Named(p) = {}
  BY <1>2, Zenon DEF Fetched
<1>3. QED
  BY <1>1, <1>2

\* A response holds no number.
LEMMA MutedReply ==
  ASSUME NEW code \in Words, NEW id \in Nat, NEW cells \in Seq(Muted)
  PROVE  Reply(code, id, cells) \in Seq(Muted)
<1>1. <<"rsp", code, id>> \in Muted /\ <<"len">> \in Muted
  BY MutedCells, Zenon
<1>2. 3 + Len(cells) \in Nat
  OBVIOUS
<1>3. <<"len", 3 + Len(cells)>> \in Muted
  BY <1>2, MutedCells, Zenon
<1>4. \A a, b, c \in Muted : <<a, b, c>> \in Seq(Muted)
  OBVIOUS
<1>5. <<<<"rsp", code, id>>, <<"len", 3 + Len(cells)>>, <<"len">>>> \in Seq(Muted)
  BY <1>1, <1>3, <1>4, Zenon
<1>6. QED
  BY <1>5, ConcatProperties, Zenon DEF Reply

\* Nor does a part of a file.
LEMMA MutedPart ==
  ASSUME NEW out \in Seq(Muted), NEW first \in BOOLEAN
  PROVE  /\ Part(out, first) \in Seq(Muted)
         /\ Len(out) > Chunk => SubSeq(out, Chunk + 1, Len(out)) \in Seq(Muted)
<1>1. Chunk \in Nat /\ Len(out) \in Nat
  BY ObexAssumption
<1>2. "LENGTH" \in Words /\ "BODY" \in Words /\ "BODY_END" \in Words
  BY SomeWords
<1> DEFINE one == IF first THEN Uint("LENGTH", Len(out)) ELSE <<>>
           two == IF Len(out) > Chunk THEN Stream("BODY", SubSeq(out, 1, Chunk))
                  ELSE Stream("BODY_END", out)
<1>3. <<>> \in Seq(Muted)
  OBVIOUS
<1>4. one \in Seq(Muted)
  BY <1>1, <1>2, <1>3, MutedHeaders, Zenon
<1>5. two \in Seq(Muted)
  <2>1. CASE Len(out) > Chunk
    <3>1. SubSeq(out, 1, Chunk) \in Seq(Muted)
      BY <2>1, <1>1, SubSeqProperties
    <3>2. Stream("BODY", SubSeq(out, 1, Chunk)) \in Seq(Muted)
      BY <3>1, <1>1, <1>2, MutedHeaders, Zenon
    <3>3. QED
      BY <3>2, <2>1, Zenon
  <2>2. CASE ~(Len(out) > Chunk)
    <3>1. Stream("BODY_END", out) \in Seq(Muted)
      BY <1>1, <1>2, MutedHeaders, Zenon
    <3>2. QED
      BY <3>1, <2>2, Zenon
  <2>3. QED
    BY <2>1, <2>2
<1>6. Part(out, first) = one \o two
  BY Zenon DEF Part
<1> HIDE DEF one, two
<1>7. Part(out, first) \in Seq(Muted)
  BY <1>4, <1>5, <1>6, ConcatProperties, Zenon
<1>8. ASSUME Len(out) > Chunk
      PROVE  SubSeq(out, Chunk + 1, Len(out)) \in Seq(Muted)
  <2>1. Chunk <= Len(out)
    BY <1>1, <1>8
  <2>2. QED
    BY <2>1, <1>1, CutFront, Zenon
<1>9. QED
  BY <1>7, <1>8

\* The answer to a packet holds no number behind the one it starts with.
LEMMA MutedResponse ==
  ASSUME device.out \in Seq(Muted), NEW p \in Packets, NEW refuse \in BOOLEAN
  PROVE  /\ Response(p, refuse) \in Seq(Muted)
         /\ \E code \in Words, id \in Nat, cells \in Seq(Muted) :
              Response(p, refuse) = Reply(code, id, cells)
<1> DEFINE cmd == p[2][2]
           more == \/ cmd = "PUT" /\ ~p[2][3]
                   \/ cmd = "GET" /\ Len(Fetched(p)) > Chunk
           cells == CASE cmd = "CONNECT" -> Pads(8)
                      [] cmd = "GET"     -> Part(Fetched(p), Named(p) # {})
                      [] OTHER           -> <<>>
           code == IF more THEN "CONTINUE" ELSE "SUCCESS"
<1>1. p[1][3] \in Nat
  <2>1. p[1] \in SeqCells
    BY Zenon DEF Packets
  <2>2. \A c \in SeqCells : c[3] \in Nat
    BY DEF SeqCells
  <2>3. QED
    BY <2>1, <2>2, Zenon
<1>2. <<>> \in Seq(Muted) /\ 8 \in Nat /\ (Named(p) # {}) \in BOOLEAN
  OBVIOUS
<1>3. Fetched(p) \in Seq(Muted)
  BY MutedFetched, Zenon
<1>4. Pads(8) \in Seq(Muted) /\ Part(Fetched(p), Named(p) # {}) \in Seq(Muted)
  BY <1>2, <1>3, MutedRuns, MutedPart, Zenon
<1>5. cells \in Seq(Muted)
  <2>1. CASE cmd = "CONNECT"
    BY <2>1, <1>4, Zenon
  <2>2. CASE cmd = "GET"
    BY <2>2, <1>4, Zenon
  <2>3. CASE cmd # "CONNECT" /\ cmd # "GET"
    BY <2>3, <1>2, Zenon
  <2>4. QED
    BY <2>1, <2>2, <2>3
<1>6. {"FORBIDDEN", "CONTINUE", "SUCCESS"} \subseteq Words
  BY SomeWords
<1>7. code \in Words /\ "FORBIDDEN" \in Words
  BY <1>6, Zenon
<1>8. Response(p, refuse) = IF refuse THEN Reply("FORBIDDEN", p[1][3], <<>>)
                            ELSE Reply(code, p[1][3], cells)
  BY Zenon DEF Response
<1> HIDE DEF code, cells
<1>9. \E c \in Words, id \in Nat, x \in Seq(Muted) : Response(p, refuse) = Reply(c, id, x)
  BY <1>1, <1>2, <1>5, <1>7, <1>8, Zenon
<1>10. QED
  BY <1>9, MutedReply, Zenon

-----------------------------------------------------------------------------
(* Numbers: seq_num is the count of packets, modulo SeqRange.              *)

\* Quotient and remainder.
LEMMA DivMod ==
  ASSUME NEW R \in Nat \ {0}, NEW a \in Nat
  PROVE  /\ a = R * (a \div R) + (a % R)
         /\ a % R \in 0 .. (R - 1) /\ a \div R \in Nat
  OBVIOUS

\* The multiples of R are R apart.
LEMMA Apart ==
  ASSUME NEW R \in Nat \ {0}, NEW p \in Nat, NEW q \in Nat, p < q
  PROVE  R * p + R <= R * q
  OBVIOUS

\* Quotients differ only where the numbers are at least as far apart as the
\* remainders allow.
LEMMA SameQuotient ==
  ASSUME NEW R \in Nat \ {0}, NEW p \in Nat, NEW q \in Nat,
         NEW x \in 0 .. (R - 1), NEW y \in 0 .. (R - 1),
         NEW a \in Nat, NEW b \in Nat, a = R * p + x, b = R * q + y,
         a <= b, b - a < R, x <= y
  PROVE  p = q
<1> DEFINE u == R * p
           v == R * q
<1>1. u \in Int /\ v \in Int /\ a = u + x /\ b = v + y
  OBVIOUS
<1>2. p < q => u + R <= v
  BY Apart
<1>3. q < p => v + R <= u
  BY Apart
<1> HIDE DEF u, v
<1>4. ~(p < q) /\ ~(q < p)
  BY <1>1, <1>2, <1>3
<1>5. QED
  BY <1>4

\* Two numbers less than R apart with the same remainder are the same.
LEMMA SameNumber ==
  ASSUME NEW R \in Nat \ {0}, NEW a \in Nat, NEW b \in Nat, a <= b, b - a < R,
         a % R = b % R
  PROVE  a = b
<1> DEFINE x == a % R
           p == a \div R
           q == b \div R
<1>1. /\ x \in 0 .. (R - 1) /\ p \in Nat /\ a = R * p + x
      /\ q \in Nat /\ b = R * q + x
  BY DivMod
<1> HIDE DEF x, p, q
<1>2. p = q
  BY <1>1, SameQuotient
<1>3. QED
  BY <1>1, <1>2

\* A remainder is known by the quotient it goes with.
LEMMA RemainderIs ==
  ASSUME NEW R \in Nat \ {0}, NEW p \in Nat, NEW x \in 0 .. (R - 1), NEW a \in Nat,
         a = R * p + x
  PROVE  a % R = x
<1> DEFINE y == a % R
           q == a \div R
<1>1. y \in 0 .. (R - 1) /\ q \in Nat /\ a = R * q + y
  BY DivMod
<1> HIDE DEF y, q
<1>2. a <= a /\ a - a < R /\ (x <= y \/ y <= x)
  BY <1>1
<1>3. p = q
  <2>1. CASE x <= y
    BY <2>1, <1>1, <1>2, SameQuotient
  <2>2. CASE y <= x
    BY <2>2, <1>1, <1>2, SameQuotient
  <2>3. QED
    BY <2>1, <2>2, <1>2
<1> DEFINE u == R * p
<1>4. u \in Int /\ u + x = u + y
  BY <1>1, <1>3
<1> HIDE DEF u
<1>5. x = y
  BY <1>1, <1>4
<1>6. QED
  BY <1>5 DEF y

\* Counting modulo R.
LEMMA NextNumber ==
  ASSUME NEW R \in Nat \ {0}, NEW a \in Nat
  PROVE  ((a % R) + 1) % R = (a + 1) % R
<1> DEFINE x == a % R
           p == a \div R
<1>1. x \in 0 .. (R - 1) /\ p \in Nat /\ a = R * p + x
  BY DivMod
<1> HIDE DEF x, p
<1>2. CASE x + 1 < R
  <2>1. x + 1 \in 0 .. (R - 1) /\ x + 1 \in Nat /\ a + 1 \in Nat /\ x + 1 = R * 0 + (x + 1)
    BY <1>1, <1>2
  <2>2. a + 1 = R * p + (x + 1)
    <3> DEFINE u == R * p
    <3>1. u \in Int /\ a = u + x
      BY <1>1
    <3> HIDE DEF u
    <3>2. a + 1 = u + (x + 1)
      BY <3>1, <1>1
    <3>3. QED
      BY <3>2 DEF u
  <2>3. (x + 1) % R = x + 1
    BY <2>1, RemainderIs
  <2>4. (a + 1) % R = x + 1
    BY <2>1, <2>2, <1>1, RemainderIs
  <2>5. QED
    BY <2>3, <2>4 DEF x
<1>3. CASE x + 1 = R
  <2>1. 0 \in 0 .. (R - 1) /\ a + 1 \in Nat /\ p + 1 \in Nat /\ 1 \in Nat /\ R = R * 1 + 0
        /\ R \in Nat
    BY <1>1, <1>3
  <2>2. a + 1 = R * (p + 1) + 0
    <3> DEFINE u == R * p
    <3>1. u \in Int /\ a = u + x /\ R * (p + 1) = u + R
      BY <1>1
    <3> HIDE DEF u
    <3>2. a + 1 = u + R
      BY <3>1, <1>1, <1>3
    <3>3. QED
      BY <3>1, <3>2, <2>1
  <2>3. R % R = 0
    BY <2>1, RemainderIs
  <2>4. (a + 1) % R = 0
    <3> DEFINE b == a + 1
               q == p + 1
               z == 0
    <3>1. b \in Nat /\ q \in Nat /\ z \in 0 .. (R - 1) /\ b = R * q + z
      BY <2>1, <2>2
    <3> HIDE DEF b, q, z
    <3>2. b % R = z
      BY <3>1, RemainderIs
    <3>3. QED
      BY <3>2 DEF b, z
  <2>5. QED
    BY <2>3, <2>4, <1>3 DEF x
<1>4. QED
  BY <1>1, <1>2, <1>3

-----------------------------------------------------------------------------
(* The transfers that wait to be read.                                     *)

\* The number the packet id was sent with, and the cell that sends it back.
NumberOf(id) == (id - 1) % SeqRange
Number(id) == <<"seq", NumberOf(id), id>>

\* A transfer: the number of a packet up to top and what follows it, or
\* cells none of which is a number.
Piece(w, top) ==
  \/ w \in Seq(Muted)
  \/ \E id \in 1 .. top : \E x \in Seq(Muted) : w = <<Number(id)>> \o x
Pieces(wire, top) == \A i \in DOMAIN wire : Piece(wire[i], top)

\* A number is a cell.
LEMMA NumberCell ==
  ASSUME NEW id \in Nat, id > 0
  PROVE  Number(id) \in Cells /\ Number(id)[1] = "seq" /\ Number(id)[2] = NumberOf(id)
         /\ Number(id)[3] = id
<1>1. NumberOf(id) \in Int
  <2> DEFINE a == id - 1
             R == SeqRange
  <2>1. a \in Nat /\ R \in Nat \ {0}
    BY ObexAssumption
  <2> HIDE DEF a, R
  <2>2. a % R \in 0 .. (R - 1)
    BY <2>1, DivMod, Zenon
  <2>3. a % R \in Int
    BY <2>1, <2>2
  <2>4. QED
    BY <2>3, Zenon DEF NumberOf, a, R
<1> DEFINE n == NumberOf(id)
<1> HIDE DEF n
<1>2. <<"seq", n, id>> \in Cells
  BY <1>1, NewCells DEF n
<1>3. <<"seq", n, id>>[1] = "seq" /\ <<"seq", n, id>>[2] = n /\ <<"seq", n, id>>[3] = id
  OBVIOUS
<1>4. QED
  BY <1>2, <1>3, Zenon DEF Number, n

\* A front of a run that holds no number, and what is behind it.
LEMMA MutedSplit ==
  ASSUME NEW x \in Seq(Cells), NEW y \in Seq(Cells), x \o y \in Seq(Muted)
  PROVE  y \in Seq(Muted) /\ x \in Seq(Muted)
<1> DEFINE S == Cells
           M == Muted
           z == x \o y
<1>1. x \in Seq(S) /\ y \in Seq(S) /\ z \in Seq(M)
  OBVIOUS
<1> HIDE DEF S, M
<1>2. /\ Len(z) = Len(x) + Len(y) /\ Len(x) \in Nat /\ Len(y) \in Nat
      /\ \A i \in 1 .. Len(x) : z[i] = x[i]
      /\ \A i \in 1 .. Len(y) : z[Len(x) + i] = y[i]
  BY <1>1, ConcatAt
<1> HIDE DEF z
<1>3. ASSUME NEW i \in 1 .. Len(y) PROVE y[i] \in M
  <2>1. Len(x) + i \in 1 .. Len(z)
    BY <1>2
  <2>2. z[Len(x) + i] \in M
    BY <2>1, <1>1
  <2>3. QED
    BY <2>2, <1>2, <1>3, Zenon
<1>4. ASSUME NEW i \in 1 .. Len(x) PROVE x[i] \in M
  <2>1. i \in 1 .. Len(z)
    BY <1>2
  <2>2. z[i] \in M
    BY <2>1, <1>1
  <2>3. QED
    BY <2>2, <1>2, <1>4, Zenon
<1>5. y \in Seq(M) /\ x \in Seq(M)
  <2>1. y = [i \in 1 .. Len(y) |-> y[i]] /\ x = [i \in 1 .. Len(x) |-> x[i]]
    BY <1>1
  <2>2. QED
    BY <2>1, <1>2, <1>3, <1>4
<1>6. QED
  BY <1>5 DEF M

\* What is left of a transfer when its front t has been read, and how t starts.
LEMMA PieceTaken ==
  ASSUME NEW top \in Nat, NEW w \in Seq(Cells), Piece(w, top),
         NEW t \in Seq(Cells), NEW y \in Seq(Cells), w = t \o y, w # <<>> => t # <<>>
  PROVE  /\ y \in Seq(Muted)
         /\ t # <<>> => \/ Head(t) \in Muted
                        \/ \E id \in 1 .. top : Head(t) = Number(id) /\ w[1] = Number(id)
<1>1. CASE w \in Seq(Muted)
  <2>1. y \in Seq(Muted) /\ t \in Seq(Muted)
    BY <1>1, MutedSplit, Zenon
  <2> DEFINE M == Muted
  <2>2. t \in Seq(M)
    BY <2>1
  <2> HIDE DEF M
  <2>3. t # <<>> => Head(t) \in M
    BY <2>2
  <2>4. QED
    BY <2>1, <2>3 DEF M
<1>2. CASE \E id \in 1 .. top : \E x \in Seq(Muted) : w = <<Number(id)>> \o x
  <2>1. PICK id \in 1 .. top : \E x \in Seq(Muted) : w = <<Number(id)>> \o x
    BY <1>2
  <2>2. PICK x \in Seq(Muted) : w = <<Number(id)>> \o x
    BY <2>1
  <2> DEFINE s == Number(id)
  <2>3. id \in Nat /\ id > 0
    OBVIOUS
  <2>4. s \in Cells /\ x \in Seq(Cells)
    BY <2>3, NumberCell, MutedRuns, Zenon
  <2> HIDE DEF s
  <2>5. w = <<s>> \o x
    BY <2>2 DEF s
  <2>6. w # <<>> /\ w[1] = s
    BY <2>4, <2>5
  <2>7. FirstOff(t, y, s, x)
    BY <2>4, <2>5, <2>6, HeadSplit, Zenon
  <2>8. Head(t) = s /\ Tail(t) \o y = x /\ Tail(t) \in Seq(Cells)
    BY <2>7, Zenon DEF FirstOff
  <2>9. Tail(t) \o y \in Seq(Muted)
    BY <2>8, <2>2, Zenon
  <2>10. y \in Seq(Muted)
    BY <2>8, <2>9, MutedSplit, Zenon
  <2>11. QED
    BY <2>6, <2>8, <2>10, Zenon DEF s
<1>3. QED
  BY <1>1, <1>2, Zenon DEF Piece

\* Transfers behind one another, and without the first.
LEMMA PiecesJoin ==
  ASSUME NEW top, NEW v \in Seq(Seq(Cells)), NEW w \in Seq(Seq(Cells)),
         Pieces(v, top), Pieces(w, top)
  PROVE  Pieces(v \o w, top)
<1> DEFINE S == Seq(Cells)
           z == v \o w
<1>1. v \in Seq(S) /\ w \in Seq(S)
  OBVIOUS
<1> HIDE DEF S
<1>2. /\ Len(z) = Len(v) + Len(w) /\ Len(v) \in Nat /\ Len(w) \in Nat /\ z \in Seq(S)
      /\ \A i \in 1 .. Len(v) : z[i] = v[i]
      /\ \A i \in 1 .. Len(w) : z[Len(v) + i] = w[i]
  BY <1>1, ConcatAt
<1>3. DOMAIN v = 1 .. Len(v) /\ DOMAIN w = 1 .. Len(w)
  BY <1>1
<1> HIDE DEF z
<1>4. DOMAIN z = 1 .. Len(z)
  BY <1>2
<1>5. ASSUME NEW i \in DOMAIN z PROVE Piece(z[i], top)
  <2>1. CASE i \in 1 .. Len(v)
    BY <2>1, <1>2, <1>3, Zenon DEF Pieces
  <2>2. CASE i \notin 1 .. Len(v)
    <3>1. i - Len(v) \in 1 .. Len(w) /\ Len(v) + (i - Len(v)) = i
      BY <2>2, <1>2, <1>4
    <3>2. QED
      BY <3>1, <1>2, <1>3, Zenon DEF Pieces
  <2>3. QED
    BY <2>1, <2>2
<1>6. QED
  BY <1>5, Zenon DEF Pieces, z

\* Something waits; the answer to packet id waits, and never as the first.
Opens(w, id) == w # <<>> /\ w[1] = Number(id)
Loaded(wire) == \E i \in DOMAIN wire : wire[i] # <<>>
Carrying(wire, id) == \E i \in DOMAIN wire : Opens(wire[i], id)
Behind(wire, id) ==
  \A i \in DOMAIN wire : Opens(wire[i], id) => \E j \in DOMAIN wire : j < i /\ wire[j] # <<>>

\* The first transfer is read.
LEMMA WireTail ==
  ASSUME NEW w \in Seq(Seq(Cells)), w # <<>>, NEW top, NEW id
  PROVE  /\ Pieces(w, top) => Pieces(Tail(w), top) /\ Piece(Head(w), top)
         /\ Head(w) = <<>> /\ Loaded(w) => Loaded(Tail(w))
         /\ Head(w) = <<>> /\ Carrying(w, id) => Carrying(Tail(w), id)
         /\ Head(w) = <<>> /\ Behind(w, id) => Behind(Tail(w), id)
         /\ Behind(w, id) => ~Opens(Head(w), id)
         /\ Behind(w, id) /\ Carrying(w, id) => Loaded(Tail(w))
<1> DEFINE t == Tail(w)
           h == Head(w)
           S == Seq(Cells)
<1>1. w \in Seq(S)
  OBVIOUS
<1> HIDE DEF S
<1>2. /\ t \in Seq(S) /\ Len(t) = Len(w) - 1 /\ h = w[1] /\ Len(w) \in Nat /\ Len(w) > 0
      /\ \A i \in 1 .. Len(t) : t[i] = w[i + 1]
  BY <1>1, HeadTailProperties
<1>3. DOMAIN w = 1 .. Len(w) /\ DOMAIN t = 1 .. Len(t)
  BY <1>1, <1>2
<1> HIDE DEF t, h
<1>4. \A i \in DOMAIN t : i \in Nat /\ i + 1 \in DOMAIN w /\ t[i] = w[i + 1]
  BY <1>2, <1>3
<1>5. \A i \in DOMAIN w : i # 1 => i - 1 \in DOMAIN t /\ t[i - 1] = w[i] /\ i \in Nat
  <2> TAKE i \in DOMAIN w
  <2>1. i # 1 => i - 1 \in 1 .. Len(t) /\ (i - 1) + 1 = i /\ i \in Nat
    BY <1>2, <1>3
  <2>2. QED
    BY <2>1, <1>2, <1>3, Zenon
<1>6. 1 \in DOMAIN w
  BY <1>2, <1>3
<1>7. Pieces(w, top) => Pieces(t, top) /\ Piece(h, top)
  BY <1>2, <1>4, <1>6, Zenon DEF Pieces
<1>8. h = <<>> /\ Loaded(w) => Loaded(t)
  BY <1>2, <1>5, Zenon DEF Loaded
<1>9. h = <<>> /\ Carrying(w, id) => Carrying(t, id)
  BY <1>2, <1>5, Zenon DEF Carrying, Opens
<1>10. ASSUME h = <<>>, Behind(w, id) PROVE Behind(t, id)
  <2>1. ASSUME NEW i \in DOMAIN t, Opens(t[i], id)
        PROVE  \E j \in DOMAIN t : j < i /\ t[j] # <<>>
    <3>1. i + 1 \in DOMAIN w /\ Opens(w[i + 1], id) /\ i \in Nat
      BY <2>1, <1>4, Zenon
    <3>2. PICK j \in DOMAIN w : j < i + 1 /\ w[j] # <<>>
      BY <3>1, <1>10, Zenon DEF Behind
    <3>3. j # 1
      BY <3>2, <1>2, <1>10, Zenon
    <3>4. j - 1 \in DOMAIN t /\ t[j - 1] = w[j] /\ j \in Nat
      BY <3>2, <3>3, <1>5, Zenon
    <3>5. j - 1 < i
      BY <3>1, <3>2, <3>4
    <3>6. QED
      BY <3>2, <3>4, <3>5, Zenon
  <2>2. QED
    BY <2>1, Zenon DEF Behind
<1>11. ASSUME Behind(w, id), Opens(h, id) PROVE FALSE
  <2>1. PICK j \in DOMAIN w : j < 1
    BY <1>2, <1>6, <1>11, Zenon DEF Behind
  <2>2. QED
    BY <2>1, <1>2, <1>3
<1>12. ASSUME Behind(w, id), Carrying(w, id) PROVE Loaded(t)
  <2>1. PICK i \in DOMAIN w : Opens(w[i], id)
    BY <1>12, Zenon DEF Carrying
  <2>2. i # 1
    BY <2>1, <1>2, <1>11, <1>12, Zenon
  <2>3. QED
    BY <2>1, <2>2, <1>5, Zenon DEF Loaded, Opens
<1>13. QED
  BY <1>7, <1>8, <1>9, <1>10, <1>11, <1>12, Zenon DEF t, h

\* An answer joins the transfers that wait.
LEMMA WireJoin ==
  ASSUME NEW v \in Seq(Seq(Cells)), NEW w \in Seq(Seq(Cells)), NEW id
  PROVE  /\ Loaded(v) \/ Loaded(w) => Loaded(v \o w)
         /\ Carrying(v, id) \/ Carrying(w, id) => Carrying(v \o w, id)
         /\ Behind(v, id) /\ (Loaded(v) \/ ~Carrying(w, id)) => Behind(v \o w, id)
<1> DEFINE S == Seq(Cells)
           z == v \o w
<1>1. v \in Seq(S) /\ w \in Seq(S)
  OBVIOUS
<1> HIDE DEF S
<1>2. /\ Len(z) = Len(v) + Len(w) /\ Len(v) \in Nat /\ Len(w) \in Nat /\ z \in Seq(S)
      /\ \A i \in 1 .. Len(v) : z[i] = v[i]
      /\ \A i \in 1 .. Len(w) : z[Len(v) + i] = w[i]
  BY <1>1, ConcatAt
<1>3. DOMAIN v = 1 .. Len(v) /\ DOMAIN w = 1 .. Len(w)
  BY <1>1
<1> HIDE DEF z
<1>4. DOMAIN z = 1 .. Len(z)
  BY <1>2
<1>5. \A i \in DOMAIN v : i \in DOMAIN z /\ z[i] = v[i]
  BY <1>2, <1>3, <1>4
<1>6. \A i \in DOMAIN w : Len(v) + i \in DOMAIN z /\ z[Len(v) + i] = w[i]
  BY <1>2, <1>3, <1>4
<1>7. \A i \in DOMAIN z : i \notin DOMAIN v =>
        /\ i - Len(v) \in DOMAIN w /\ z[i] = w[i - Len(v)]
        /\ \A j \in DOMAIN v : j < i
  <2> TAKE i \in DOMAIN z
  <2>1. i \notin DOMAIN v => /\ i - Len(v) \in DOMAIN w /\ Len(v) + (i - Len(v)) = i
                             /\ \A j \in DOMAIN v : j < i
    BY <1>2, <1>3, <1>4
  <2>2. QED
    BY <2>1, <1>6, Zenon
<1>8. Loaded(v) \/ Loaded(w) => Loaded(z)
  BY <1>5, <1>6, Zenon DEF Loaded
<1>9. Carrying(v, id) \/ Carrying(w, id) => Carrying(z, id)
  BY <1>5, <1>6, Zenon DEF Carrying
<1>10. ASSUME Behind(v, id), Loaded(v) \/ ~Carrying(w, id) PROVE Behind(z, id)
  <2>1. ASSUME NEW i \in DOMAIN z, Opens(z[i], id)
        PROVE  \E j \in DOMAIN z : j < i /\ z[j] # <<>>
    <3>1. CASE i \in DOMAIN v
      <4>1. PICK j \in DOMAIN v : j < i /\ v[j] # <<>>
        BY <3>1, <2>1, <1>5, <1>10, Zenon DEF Behind
      <4>2. QED
        BY <4>1, <1>5, Zenon
    <3>2. CASE i \notin DOMAIN v
      <4>1. Carrying(w, id)
        BY <3>2, <2>1, <1>7, Zenon DEF Carrying
      <4>2. PICK j \in DOMAIN v : v[j] # <<>>
        BY <4>1, <1>10, Zenon DEF Loaded
      <4>3. QED
        BY <4>2, <3>2, <1>5, <1>7, Zenon
    <3>3. QED
      BY <3>1, <3>2
  <2>2. QED
    BY <2>1, Zenon DEF Behind
<1>11. QED
  BY <1>8, <1>9, <1>10, Zenon DEF z

\* The transfers of an answer to packet id.
LEMMA AnswerPieces ==
  ASSUME NEW id \in Nat, id > 0, NEW top \in Nat, id <= top,
         NEW x \in Seq(Muted), x # <<>>, NEW w \in Seq(Seq(Cells)),
         Carries(w, Number(id), x)
  PROVE  /\ Pieces(w, top) /\ Loaded(w) /\ Carrying(w, id)
         /\ \A other \in Nat : other # id => ~Carrying(w, other)
<1> DEFINE s == Number(id)
           a == <<s>>
           b == <<s>> \o x
           e == <<>>
<1>1. s \in Cells /\ s[1] = "seq" /\ s[3] = id
  BY NumberCell, Zenon
<1>2. x \in Seq(Cells) /\ x[1] \in Muted /\ x[1][1] # "seq"
  <2>1. x \in Seq(Cells)
    BY MutedRuns, Zenon
  <2> DEFINE M == Muted
  <2>2. x \in Seq(M) /\ x # <<>>
    OBVIOUS
  <2> HIDE DEF M
  <2>3. x[1] \in M
    BY <2>2
  <2>4. QED
    BY <2>1, <2>3, Zenon DEF M, Muted
<1> HIDE DEF s
<1>3. /\ a # e /\ a[1] = s /\ b # e /\ b[1] = s /\ a = <<s>> \o e /\ a # x
  <2>1. a # e /\ a[1] = s /\ a = <<s>> \o e
    OBVIOUS
  <2>2. b # e /\ b[1] = s
    BY <1>1, <1>2
  <2>3. a # x
    BY <2>1, <1>1, <1>2, Zenon
  <2>4. QED
    BY <2>1, <2>2, <2>3
<1>4. e \in Seq(Muted) /\ id \in 1 .. top
  BY MutedRuns
<1>5. Piece(e, top) /\ Piece(x, top) /\ Piece(a, top) /\ Piece(b, top)
  BY <1>3, <1>4, Zenon DEF Piece, s
<1> DEFINE S == Seq(Cells)
<1>6. /\ \A i \in DOMAIN w : w[i] \in {e, a, x, b}
      /\ \E i \in DOMAIN w : w[i] \in {a, b}
  <2> HIDE DEF a, b, e
  <2>1. CASE w = <<b>>
    BY <2>1
  <2>2. CASE w = <<a, e, x>>
    BY <2>2
  <2>3. CASE \E k \in 0 .. Len(w) : /\ Len(w) = k + 2 /\ w[k + 1] = a /\ w[k + 2] = x
                                    /\ \A i \in 1 .. k : w[i] = e
    <3>1. PICK k \in 0 .. Len(w) : /\ Len(w) = k + 2 /\ w[k + 1] = a /\ w[k + 2] = x
                                   /\ \A i \in 1 .. k : w[i] = e
      BY <2>3
    <3>2. w \in Seq(S)
      OBVIOUS
    <3> HIDE DEF S
    <3>3. DOMAIN w = 1 .. (k + 2) /\ k \in Nat
      BY <3>1, <3>2
    <3>4. k + 1 \in DOMAIN w /\ \A i \in DOMAIN w : i \in 1 .. k \/ i = k + 1 \/ i = k + 2
      <4>1. /\ k + 1 \in 1 .. (k + 2)
            /\ \A i \in 1 .. (k + 2) : i \in 1 .. k \/ i = k + 1 \/ i = k + 2
        BY <3>3
      <4>2. QED
        BY <4>1, <3>3, Zenon
    <3>5. QED
      BY <3>1, <3>4, Zenon
  <2>4. QED
    BY <2>1, <2>2, <2>3, Zenon DEF Carries, a, b, e, s
<1> HIDE DEF a, b, e
<1>7. Pieces(w, top)
  BY <1>5, <1>6, Zenon DEF Pieces
<1>8. Loaded(w)
  BY <1>3, <1>6, Zenon DEF Loaded, e
<1>9. Carrying(w, id)
  BY <1>3, <1>6, Zenon DEF Carrying, Opens, e, s
<1>10. ASSUME NEW other \in Nat, other # id, Carrying(w, other) PROVE FALSE
  <2>1. PICK i \in DOMAIN w : w[i] # e /\ w[i][1] = Number(other)
    BY <1>10, Zenon DEF Carrying, Opens, e
  <2>2. Number(other)[1] = "seq" /\ Number(other)[3] = other
    BY DEF Number
  <2>3. w[i] \in {a, b}
    BY <2>1, <2>2, <1>2, <1>6, Zenon
  <2>4. Number(other) = s
    BY <2>1, <2>3, <1>3, Zenon
  <2>5. QED
    BY <2>2, <2>4, <1>1, <1>10, Zenon
<1>11. QED
  BY <1>7, <1>8, <1>9, <1>10

-----------------------------------------------------------------------------
(* Which packets are still to be answered, and which answers to be read.   *)

\* The inbox holds the latest packets sent, in order.
Queued(in, last) ==
  /\ Len(in) <= last
  /\ \A i \in DOMAIN in : in[i][1] = Number((last - Len(in)) + i)

\* seq_num counts the packets, modulo SeqRange; the device holds the latest of
\* them, and the transfers to be read answer earlier ones.
NumberInv ==
  /\ device.gone => Silent
  /\ ~device.gone => self.seq_num = session.packets % SeqRange
  /\ ~device.gone /\ pc = "verify" =>
       session.packets > 0 /\ send.seq = NumberOf(session.packets)
  /\ Queued(device.inbox, session.packets)
  /\ Pieces(device.wire, session.packets - Len(device.inbox))
  /\ device.out \in Seq(Muted)

\* A broken session owes its next request a late answer, and that request
\* reads it before its own: it never gets as far as a response.
Owing ==
  /\ pc \in {"idle", "send", "fill"} => device.inbox # <<>> \/ Loaded(device.wire)
  /\ pc = "verify" =>
       /\ device.inbox # <<>> \/ Carrying(device.wire, session.packets)
       /\ Len(device.inbox) >= 2 \/ Loaded(device.wire)
       /\ Behind(device.wire, session.packets)
StaleInv ==
  ~Live /\ ~session.collided =>
    /\ pc \in {"idle", "send", "fill", "verify", "end"}
    /\ ~device.gone => Owing

\* The inductive invariant of StaleOnlyByCollision.
LateInv == NumberInv /\ StaleInv /\ StaleOnlyByCollision

\* A packet is sent.
LEMMA QueuedSend ==
  ASSUME NEW in \in Seq(Packets), NEW last \in Nat, Queued(in, last), NEW pk \in Packets,
         pk[1] = Number(last + 1)
  PROVE  /\ Queued(Append(in, pk), last + 1) /\ Append(in, pk) # <<>>
         /\ (last + 1) - Len(Append(in, pk)) = last - Len(in)
         /\ in # <<>> => Len(Append(in, pk)) >= 2
<1> DEFINE S == Packets
           q == Append(in, pk)
<1>1. in \in Seq(S) /\ pk \in S
  OBVIOUS
<1> HIDE DEF S
<1>2. /\ q \in Seq(S) /\ Len(q) = Len(in) + 1 /\ Len(in) \in Nat
      /\ \A i \in 1 .. Len(in) : q[i] = in[i]
      /\ q[Len(in) + 1] = pk /\ (in # <<>> => Len(in) > 0)
  BY <1>1
<1>3. DOMAIN in = 1 .. Len(in)
  BY <1>1
<1> HIDE DEF q
<1>4. DOMAIN q = 1 .. (Len(in) + 1) /\ q # <<>>
  BY <1>2
<1>5. Len(in) <= last
  BY Zenon DEF Queued
<1>6. ASSUME NEW i \in DOMAIN q PROVE q[i][1] = Number(((last + 1) - Len(q)) + i)
  <2>1. CASE i = Len(in) + 1
    <3>1. ((last + 1) - Len(q)) + i = last + 1
      BY <2>1, <1>2
    <3>2. QED
      BY <3>1, <2>1, <1>2, Zenon
  <2>2. CASE i # Len(in) + 1
    <3>1. i \in 1 .. Len(in) /\ ((last + 1) - Len(q)) + i = (last - Len(in)) + i
      BY <2>2, <1>2, <1>4
    <3>2. QED
      BY <3>1, <1>2, <1>3, Zenon DEF Queued
  <2>3. QED
    BY <2>1, <2>2
<1>7. Len(q) <= last + 1 /\ (last + 1) - Len(q) = last - Len(in) /\ (in # <<>> => Len(q) >= 2)
  BY <1>2, <1>5
<1>8. QED
  BY <1>4, <1>6, <1>7, Zenon DEF Queued, q

\* The packet to be answered next is packet id.
Due(in, last, id) ==
  /\ id > 0 /\ id <= last /\ Head(in)[1] = Number(id)
  /\ Queued(Tail(in), last) /\ last - Len(Tail(in)) = id
  /\ last - Len(in) \in Nat /\ last - Len(in) <= id
  /\ (Tail(in) = <<>> <=> id = last) /\ (Tail(in) = <<>> => Len(in) = 1)

\* A packet is answered: the one that was sent first.
LEMMA QueuedAnswer ==
  ASSUME NEW in \in Seq(Packets), NEW last \in Nat, Queued(in, last), in # <<>>
  PROVE  \E id \in Nat : Due(in, last, id)
<1> DEFINE S == Packets
           q == Tail(in)
           id == (last - Len(in)) + 1
<1>1. in \in Seq(S)
  OBVIOUS
<1> HIDE DEF S
<1>2. /\ q \in Seq(S) /\ Len(q) = Len(in) - 1 /\ Len(in) \in Nat /\ Len(in) > 0
      /\ \A i \in 1 .. Len(q) : q[i] = in[i + 1]
      /\ Head(in) = in[1]
  BY <1>1, HeadTailProperties
<1>3. DOMAIN in = 1 .. Len(in) /\ DOMAIN q = 1 .. Len(q)
  BY <1>1, <1>2
<1>4. q = <<>> <=> Len(q) = 0
  BY <1>2, EmptySeq
<1> HIDE DEF q
<1>5. Len(in) <= last
  BY Zenon DEF Queued
<1>6. /\ id \in Nat /\ id > 0 /\ id <= last /\ last - Len(q) = id /\ Len(q) <= last
      /\ 1 \in DOMAIN in /\ last - Len(in) \in Nat /\ last - Len(in) <= id
      /\ (Len(q) = 0 <=> id = last) /\ (Len(q) = 0 => Len(in) = 1)
  BY <1>2, <1>3, <1>5
<1>7. Head(in)[1] = Number(id)
  BY <1>2, <1>6, Zenon DEF Queued
<1>8. ASSUME NEW i \in DOMAIN q PROVE q[i][1] = Number((last - Len(q)) + i)
  <2> DEFINE n == Len(q)
             m == Len(in)
  <2>0. i \in 1 .. n /\ n = m - 1 /\ m \in Nat
    BY <1>2, <1>3, Zenon
  <2> HIDE DEF n, m
  <2>a. i + 1 \in 1 .. m /\ (last - n) + i = (last - m) + (i + 1)
    BY <2>0
  <2>1. i + 1 \in DOMAIN in /\ i \in 1 .. Len(q)
        /\ (last - Len(q)) + i = (last - Len(in)) + (i + 1)
    BY <2>0, <2>a, <1>3, Zenon DEF n, m
  <2>2. QED
    BY <2>1, <1>2, Zenon DEF Queued
<1>9. Queued(q, last)
  BY <1>6, <1>8, Zenon DEF Queued
<1> HIDE DEF id
<1>10. Due(in, last, id)
  BY <1>4, <1>6, <1>7, <1>9, Zenon DEF q, Due
<1>11. QED
  BY <1>6, <1>10, Zenon

\* A transfer, or the front of one, is read.
LEMMA ReadPieces ==
  ASSUME SelfOK, DeviceOK, device.wire # <<>>, NEW top \in Nat, Pieces(device.wire, top)
  PROVE  /\ Pieces(Rest, top)
         /\ Loaded(Tail(device.wire)) => Loaded(Rest)
         /\ Take = <<>> => Head(device.wire) = <<>> /\ Rest = Tail(device.wire)
         /\ Take # <<>> => \/ Head(Take) \in Muted
                           \/ \E id \in 1 .. top :
                                Head(Take) = Number(id) /\ Opens(Head(device.wire), id)
<1> DEFINE w == device.wire
           h == Head(w)
           t == Take
<1>1. PICK y \in Seq(Cells) :
        /\ h = t \o y /\ t \in Seq(Cells) /\ (h # <<>> => t # <<>>)
        /\ IF y = <<>> THEN Rest = Tail(w) ELSE Rest = <<y>> \o Tail(w)
  BY TakeRest, Zenon DEF Splits
<1>2. w \in Seq(Seq(Cells)) /\ h \in Seq(Cells) /\ Tail(w) \in Seq(Seq(Cells))
  BY DEF DeviceOK
<1>3. Pieces(Tail(w), top) /\ Piece(h, top)
  BY <1>2, WireTail, Zenon
<1>4. /\ y \in Seq(Muted)
      /\ t # <<>> => \/ Head(t) \in Muted
                     \/ \E id \in 1 .. top : Head(t) = Number(id) /\ h[1] = Number(id)
  <2> HIDE DEF h, t
  <2>1. QED
    BY <1>1, <1>2, <1>3, PieceTaken, ZenonT(60)
<1>5. <<y>> \in Seq(Seq(Cells)) /\ DOMAIN <<y>> = {1} /\ <<y>>[1] = y
  BY <1>1
<1>6. Pieces(<<y>>, top)
  <2>1. Piece(y, top)
    BY <1>4, Zenon DEF Piece
  <2> DEFINE o == <<y>>
  <2>2. \A i \in DOMAIN o : o[i] = y
    BY <1>5
  <2> HIDE DEF o
  <2>3. Pieces(o, top)
    BY <2>1, <2>2, Zenon DEF Pieces
  <2>4. QED
    BY <2>3 DEF o
<1> DEFINE o == <<y>>
<1>7. o \in Seq(Seq(Cells)) /\ Pieces(o, top)
  BY <1>5, <1>6
<1> HIDE DEF o, t, h
<1>8. Pieces(o \o Tail(w), top) /\ (Loaded(Tail(w)) => Loaded(o \o Tail(w)))
  BY <1>2, <1>3, <1>7, PiecesJoin, WireJoin, Zenon
<1>9. Pieces(Rest, top) /\ (Loaded(Tail(w)) => Loaded(Rest))
  BY <1>1, <1>3, <1>8, Zenon DEF o
<1>10. ASSUME t = <<>> PROVE h = <<>> /\ Rest = Tail(w)
  <2>1. h = <<>>
    BY <1>1, <1>10, Zenon
  <2>2. <<>> \o y = y
    OBVIOUS
  <2>3. y = <<>>
    BY <2>1, <2>2, <1>1, <1>10, Zenon
  <2>4. QED
    BY <2>1, <2>3, <1>1, Zenon
<1>11. ASSUME t # <<>> PROVE h # <<>>
  BY <1>1, <1>11, ConcatEqualIffEmpty
<1>12. QED
  BY <1>4, <1>9, <1>10, <1>11, Zenon DEF t, h, Opens

-----------------------------------------------------------------------------
(* A late answer cannot be taken for the answer that is waited for.        *)

\* No answer SeqRange or more packets old is still to be read.
Young ==
  \A i \in DOMAIN device.wire, id \in Nat :
    Opens(device.wire[i], id) => session.packets - id < SeqRange

\* What the session has counted, and whose answers it took.
Counted ==
  /\ session'.packets = session.packets /\ session'.own = session.own
  /\ session'.collided = session.collided

\* The numbers stay where the device and the counters do.
LEMMA NumberKept ==
  ASSUME NumberInv, device' = device, session'.packets = session.packets,
         self'.seq_num = self.seq_num, pc' # "verify" \/ (pc' = pc /\ send' = send)
  PROVE  NumberInv'
<1>1. /\ device.gone => Silent
      /\ ~device.gone => self.seq_num = session.packets % SeqRange
      /\ ~device.gone /\ pc = "verify" =>
           session.packets > 0 /\ send.seq = NumberOf(session.packets)
      /\ Queued(device.inbox, session.packets)
      /\ Pieces(device.wire, session.packets - Len(device.inbox))
      /\ device.out \in Seq(Muted)
  BY Zenon DEF NumberInv
<1>2. (device.gone => Silent)'
  BY <1>1, Zenon DEF Silent
<1>3. (~device.gone => self.seq_num = session.packets % SeqRange)'
  BY <1>1, Zenon
<1>4. (~device.gone /\ pc = "verify" =>
           session.packets > 0 /\ send.seq = NumberOf(session.packets))'
  BY <1>1, Zenon DEF NumberOf
<1>5. Queued(device.inbox, session.packets)'
  BY <1>1, Zenon
<1>6. Pieces(device.wire, session.packets - Len(device.inbox))'
  BY <1>1, Zenon
<1>7. (device.out \in Seq(Muted))'
  BY <1>1, Zenon
<1>8. QED
  BY <1>2, <1>3, <1>4, <1>5, <1>6, <1>7, Zenon DEF NumberInv

\* A step that neither reads nor sends, short of obex_verify_seq.
LEMMA LateFrame ==
  ASSUME ShapeInv, LateInv, device' = device, Counted, self'.seq_num = self.seq_num,
         ~Live' => ~Live, pc' # "verify",
         \/ pc \in {"idle", "send", "fill"} /\ pc' \in {"idle", "send", "fill"}
         \/ pc \in {"read", "parse", "callback"}
  PROVE  LateInv'
<1>1. NumberInv'
  BY NumberKept, Zenon DEF LateInv, Counted
<1>2. StaleOnlyByCollision'
  BY Zenon DEF LateInv, StaleOnlyByCollision, Counted
<1>3. ASSUME ~Live', ~session'.collided
      PROVE  /\ pc' \in {"idle", "send", "fill", "verify", "end"}
             /\ ~device'.gone => Owing'
  <2>1. pc \in {"idle", "send", "fill", "verify", "end"} /\ (~device.gone => Owing)
    BY <1>3, Zenon DEF LateInv, StaleInv, Counted
  <2>2. pc \in {"idle", "send", "fill"} /\ pc' \in {"idle", "send", "fill"}
    BY <2>1, Zenon
  <2>3. ~device.gone => device.inbox # <<>> \/ Loaded(device.wire)
    BY <2>1, <2>2, Zenon DEF Owing
  <2>4. ~device'.gone => Owing'
    BY <2>2, <2>3, Zenon DEF Owing
  <2>5. QED
    BY <2>2, <2>4, Zenon
<1>4. StaleInv'
  BY <1>3, Zenon DEF StaleInv
<1>5. QED
  BY <1>1, <1>2, <1>4, Zenon DEF LateInv

\* Nothing happens.
LEMMA StutterLate ==
  ASSUME LateInv, UNCHANGED vars
  PROVE  LateInv'
<1>1. /\ self' = self /\ device' = device /\ session' = session /\ pc' = pc /\ send' = send
  BY DEF vars
<1>2. NumberInv'
  BY <1>1, NumberKept, Zenon DEF LateInv
<1>3. StaleOnlyByCollision' /\ (Live' <=> Live) /\ (Owing => Owing')
  BY <1>1, Zenon DEF LateInv, StaleOnlyByCollision, Live, Owing
<1>4. StaleInv'
  BY <1>1, <1>3, Zenon DEF LateInv, StaleInv
<1>5. QED
  BY <1>2, <1>3, <1>4, Zenon DEF LateInv

\* A new request.
LEMMA StartLate ==
  ASSUME ObexInv, ShapeInv, LateInv, Request
  PROVE  LateInv'
<1>1. PICK cmd, name, bytes : StartRequest(cmd, name, bytes)
  BY Zenon DEF Request, exword_connect, exword_send_file, exword_get_file,
     exword_setpath, exword_disconnect
<1> DEFINE v == IF session.status = "broken" THEN session.status ELSE "busy"
           c == session.requests + 1
<1>2. /\ pc = "idle" /\ pc' = "send" /\ device' = device /\ self' = self
      /\ session' = [session EXCEPT !.requests = c, !.status = v]
  BY <1>1, Zenon DEF StartRequest, Ready
<1>3. v = "broken" => session.status = "broken"
  OBVIOUS
<1> HIDE DEF v, c
<1>4. session'.status = v /\ Counted
  BY <1>2, Zenon DEF ShapeInv, Counted
<1>5. ~Live' => ~Live
  BY <1>3, <1>4, Zenon DEF Live
<1>6. QED
  BY <1>2, <1>4, <1>5, LateFrame

\* The steps of obex_object_send before the packet goes out.
LEMMA FillLate ==
  ASSUME ObexInv, ShapeInv, LateInv, SendBegin \/ SendFragment \/ SendBodyEnd \/ SendHeader
  PROVE  LateInv'
<1>1. SelfOK
  BY DEF ObexInv
<1>2. \E tx : /\ self' = [self EXCEPT !.tx_msg = tx]
              /\ pc \in {"send", "fill"} /\ pc' = "fill"
              /\ device' = device /\ session' = session
  <2>1. CASE SendBegin
    BY <2>1, Zenon DEF SendBegin
  <2>2. CASE SendFragment \/ SendBodyEnd \/ SendHeader
    <3>1. pc = "fill" /\ \E cells, left, q : Put(cells, left, q)
      BY <2>2, Zenon DEF SendFragment, SendBodyEnd, SendHeader, Filling
    <3>2. QED
      BY <3>1, Zenon DEF Put
  <2>3. QED
    BY <2>1, <2>2
<1>3. self'.seq_num = self.seq_num
  BY <1>1, <1>2, Zenon DEF SelfOK, Selves
<1>4. Counted /\ (~Live' => ~Live)
  BY <1>2, Zenon DEF Counted, Live
<1>5. QED
  BY <1>2, <1>3, <1>4, LateFrame

\* The steps of obex_object_receive once nothing more is read.
LEMMA ReceiveLate ==
  ASSUME ObexInv, ShapeInv, LateInv,
         ReadTimeout \/ ReceiveHeader \/ ParseBody \/ ParseHeader \/ ParseDone
  PROVE  LateInv'
<1>1. SelfOK
  BY DEF ObexInv
<1>2. \E rx, tx : self' = self \/ self' = [self EXCEPT !.rx_msg = rx]
                    \/ self' = [self EXCEPT !.rx_msg = rx, !.mtu_tx = tx]
  BY ZenonT(60) DEF ReadTimeout, ReceiveHeader, ParseBody, ParseHeader, ParseDone
<1>3. self'.seq_num = self.seq_num
  BY <1>1, <1>2, Zenon DEF SelfOK, Selves
<1>4. device' = device /\ pc \in {"read", "parse"} /\ pc' \in {"parse", "callback"}
  BY Zenon DEF ReadTimeout, ReceiveHeader, ParseBody, ParseHeader, ParseDone, Parsing
<1>5. \E f : \/ session' = session \/ session' = [session EXCEPT !.faults = f]
             \/ session' = [session EXCEPT !.reply = f]
  BY Zenon DEF ReadTimeout, ReceiveHeader, ParseBody, ParseHeader, ParseDone
<1>6. Counted /\ session'.status = session.status
  BY <1>5, Zenon DEF ShapeInv, Counted
<1>7. ~Live' => ~Live
  BY <1>6, Zenon DEF Live
<1>8. QED
  BY <1>3, <1>4, <1>6, <1>7, LateFrame

\* A CONTINUE sends the next packet of the request.
LEMMA ContinuesLate ==
  ASSUME ObexInv, ShapeInv, LateInv, RequestContinues
  PROVE  LateInv'
<1>1. /\ pc = "callback" /\ pc' = "send" /\ self' = self /\ device' = device
      /\ session' = session
  BY Zenon DEF RequestContinues
<1>2. Counted /\ (~Live' => ~Live)
  BY <1>1, Zenon DEF Counted, Live
<1>3. QED
  BY <1>1, <1>2, LateFrame

\* A request reports the response to its own packet, unless a cell that is no
\* sequence number was taken for one.
LEMMA ReturnsLate ==
  ASSUME ObexInv, ShapeInv, LiveInv, LateInv, RequestReturns
  PROVE  LateInv'
<1> DEFINE own == session.own /\ (rsp = "SUCCESS" => session.reply = session.packets)
           st == IF session.status = "broken" \/ rsp = "error" THEN "broken"
                 ELSE IF rsp = "SUCCESS" THEN "success" ELSE "refused"
<1>1. /\ pc = "callback" /\ pc' \in {"idle", "end"} /\ self' = self /\ device' = device
      /\ session' = [session EXCEPT !.own = own, !.status = st]
  BY Zenon DEF RequestReturns
<1>2. st = "broken" => session.status = "broken" \/ rsp = "error"
  OBVIOUS
<1> HIDE DEF own, st
<1>3. /\ session'.packets = session.packets /\ session'.own = own
      /\ session'.collided = session.collided /\ session'.status = st
  BY <1>1, Zenon DEF ShapeInv
<1>4. NumberInv'
  BY <1>1, <1>3, NumberKept, Zenon DEF LateInv
<1>5. CASE session.collided
  BY <1>3, <1>4, <1>5, Zenon DEF LateInv, StaleInv, StaleOnlyByCollision
<1>6. CASE ~session.collided
  <2>1. Live /\ session.own
    BY <1>1, <1>6, Zenon DEF LateInv, StaleInv, StaleOnlyByCollision
  <2>2. Silent /\ ((rsp = "error" /\ device.gone) \/ (Replied /\ Finished))
    BY <1>1, <2>1, LiveFacts, Zenon DEF StageInv
  <2>3. rsp = "SUCCESS" => session.reply = session.packets
    <3>1. rsp = "SUCCESS" => rsp # "error"
      OBVIOUS
    <3>2. QED
      BY <3>1, <2>2, Zenon DEF Replied
  <2>4. StaleOnlyByCollision'
    BY <1>3, <2>1, <2>3, Zenon DEF StaleOnlyByCollision, own
  <2>5. ~Live' => device.gone
    <3>1. ~Live' => rsp = "error"
      BY <1>2, <1>3, <2>1, Zenon DEF Live
    <3>2. rsp \in Codes => rsp # "error"
      BY DEF Codes
    <3>3. QED
      BY <3>1, <3>2, <2>2, Zenon DEF Replied
  <2>6. StaleInv'
    BY <1>1, <2>5, Zenon DEF StaleInv
  <2>7. QED
    BY <1>4, <2>4, <2>6, Zenon DEF LateInv
<1>7. QED
  BY <1>5, <1>6

\* A transfer is read, or the front of one.
LEMMA NumberRead ==
  ASSUME ObexInv, ShapeInv, NumberInv, device.wire # <<>>,
         device' = [device EXCEPT !.wire = Rest],
         session'.packets = session.packets, self'.seq_num = self.seq_num,
         pc' # "verify" \/ (pc' = pc /\ send' = send)
  PROVE  /\ NumberInv' /\ ~device.gone /\ ~device'.gone
         /\ device'.wire = Rest /\ device'.inbox = device.inbox
<1>1. /\ device.gone => Silent
      /\ ~device.gone => self.seq_num = session.packets % SeqRange
      /\ ~device.gone /\ pc = "verify" =>
           session.packets > 0 /\ send.seq = NumberOf(session.packets)
      /\ Queued(device.inbox, session.packets)
      /\ Pieces(device.wire, session.packets - Len(device.inbox))
      /\ device.out \in Seq(Muted)
  BY Zenon DEF NumberInv
<1>2. /\ device'.wire = Rest /\ device'.inbox = device.inbox /\ device'.out = device.out
      /\ device'.gone = device.gone
  BY Zenon DEF ShapeInv
<1>3. ~device.gone
  BY <1>1, Zenon DEF Silent
<1> DEFINE top == session.packets - Len(device.inbox)
<1>4. top \in Nat
  <2>1. session.packets \in Nat /\ device.inbox \in Seq(Packets)
    BY DEF ObexInv, SessionOK, DeviceOK
  <2>2. Len(device.inbox) \in Nat
    BY <2>1
  <2>3. Len(device.inbox) <= session.packets
    BY <1>1, Zenon DEF Queued
  <2>4. QED
    BY <2>1, <2>2, <2>3
<1> HIDE DEF top
<1>5. Pieces(Rest, top)
  <2>1. SelfOK /\ DeviceOK /\ Pieces(device.wire, top)
    BY <1>1 DEF ObexInv, top
  <2>2. QED
    BY <2>1, <1>4, ReadPieces
<1>6. (device.gone => Silent)'
  BY <1>2, <1>3, Zenon
<1>7. (~device.gone => self.seq_num = session.packets % SeqRange)'
  BY <1>1, <1>3, Zenon
<1>8. (~device.gone /\ pc = "verify" =>
           session.packets > 0 /\ send.seq = NumberOf(session.packets))'
  BY <1>1, <1>3, Zenon DEF NumberOf
<1>9. Queued(device.inbox, session.packets)'
  BY <1>1, <1>2, Zenon
<1>10. Pieces(device.wire, session.packets - Len(device.inbox))'
  BY <1>2, <1>5, Zenon DEF top
<1>11. (device.out \in Seq(Muted))'
  BY <1>1, <1>2, Zenon
<1>12. QED
  BY <1>2, <1>3, <1>6, <1>7, <1>8, <1>9, <1>10, <1>11, Zenon DEF NumberInv

\* obex_bulk_read reads for a request that has seen its number.
LEMMA BulkReadLate ==
  ASSUME ObexInv, ShapeInv, LateInv, obex_bulk_read
  PROVE  LateInv'
<1>1. SelfOK
  BY DEF ObexInv
<1>2. /\ pc = "read" /\ pc' = pc /\ device.wire # <<>> /\ session' = session
      /\ device' = [device EXCEPT !.wire = Rest]
      /\ self' = [self EXCEPT !.rx_msg = Landed(Take)]
  BY Zenon DEF obex_bulk_read, Reads
<1>3. self'.seq_num = self.seq_num
  BY <1>1, <1>2, Zenon DEF SelfOK, Selves
<1>4. NumberInv'
  <2>1. pc' # "verify"
    BY <1>2
  <2>2. QED
    BY <1>2, <1>3, <2>1, NumberRead, Zenon DEF LateInv
<1>5. pc \notin {"idle", "send", "fill", "verify", "end"}
  BY <1>2
<1>6. StaleInv' /\ StaleOnlyByCollision'
  BY <1>2, <1>5, Zenon DEF LateInv, StaleInv, StaleOnlyByCollision, Live
<1>7. QED
  BY <1>4, <1>6, Zenon DEF LateInv

\* An answer is never made of empty transfers alone.
LEMMA CarriesLoaded ==
  ASSUME NEW w, NEW s \in Cells, NEW x \in Seq(Cells), Carries(w, s, x)
  PROVE  Loaded(w) /\ w # <<>>
<1> DEFINE a == <<s>>
           b == <<s>> \o x
           e == <<>>
<1>1. a # e /\ b # e
  OBVIOUS
<1> HIDE DEF a, b
<1>2. CASE w = <<b>>
  <2>1. 1 \in DOMAIN w /\ w[1] = b /\ w # <<>>
    BY <1>2
  <2>2. QED
    BY <2>1, <1>1, Zenon DEF Loaded
<1>3. CASE w = <<a, <<>>, x>>
  <2>1. 1 \in DOMAIN w /\ w[1] = a /\ w # <<>>
    BY <1>3
  <2>2. QED
    BY <2>1, <1>1, Zenon DEF Loaded
<1>4. CASE \E k \in 0 .. Len(w) : /\ Len(w) = k + 2 /\ w[k + 1] = a /\ w[k + 2] = x
                                  /\ \A i \in 1 .. k : w[i] = <<>>
  <2>1. PICK k \in 0 .. Len(w) : Len(w) = k + 2 /\ w[k + 1] = a
    BY <1>4
  <2>2. QED
    BY <2>1, <1>1 DEF Loaded
<1>5. QED
  BY <1>2, <1>3, <1>4, Zenon DEF Carries, a, b

\* The fields of a request that fails.
LEMMA FailFields ==
  ASSUME ObexInv, ShapeInv, NEW n, Fail(n)
  PROVE  Counted /\ pc' \in {"idle", "end"} /\ session'.status = "broken"
<1>1. SessionOK
  BY DEF ObexInv
<1> DEFINE f == session.faults + n
           br == "broken"
<1>2. session' = [session EXCEPT !.status = br, !.faults = f]
  BY Zenon DEF Fail
<1> HIDE DEF f, br
<1>3. Counted
  BY <1>2, Zenon DEF ShapeInv, Counted
<1>4. QED
  BY <1>1, <1>3, FailBreaks, Zenon

\* A request that fails leaves a packet to be answered, or an answer to be read.
LEMMA LateFails ==
  ASSUME ObexInv, ShapeInv, LateInv, NumberInv', NEW n, Fail(n),
         ~session.collided /\ ~device'.gone => device'.inbox # <<>> \/ Loaded(device'.wire)
  PROVE  LateInv'
<1>1. Counted /\ pc' \in {"idle", "end"}
  BY FailFields, Zenon
<1>2. StaleOnlyByCollision'
  BY <1>1, Zenon DEF LateInv, StaleOnlyByCollision, Counted
<1>3. pc' # "verify"
  BY <1>1
<1>4. ~session.collided /\ ~device'.gone => Owing'
  BY <1>1, <1>3, Zenon DEF Owing
<1>5. StaleInv'
  BY <1>1, <1>4, Zenon DEF StaleInv, Counted
<1>6. QED
  BY <1>2, <1>5, Zenon DEF LateInv

\* An empty transfer is sat through, or is one too many.
LEMMA SeqEmptyLate ==
  ASSUME ObexInv, ShapeInv, LiveInv, LateInv, SeqEmpty
  PROVE  LateInv'
<1>1. SelfOK /\ DeviceOK /\ SessionOK
  BY DEF ObexInv
<1> DEFINE w == device.wire
           more == tries + 1 < SeqTries
<1>2. /\ pc = "verify" /\ w # <<>> /\ Take = <<>>
      /\ device' = [device EXCEPT !.wire = Rest] /\ send' = send
      /\ more => pc' = pc /\ session' = session /\ self' = self
      /\ ~more => Fail(0)
      /\ self' = self \/ self' = [self EXCEPT !.rx_msg = Landed(<<>>)]
  BY Zenon DEF SeqEmpty, Reads
<1> HIDE DEF more
<1>3. self'.seq_num = self.seq_num
  <2> DEFINE l == Landed(<<>>)
  <2>1. self' = self \/ self' = [self EXCEPT !.rx_msg = l]
    BY <1>2
  <2> HIDE DEF l
  <2>2. QED
    BY <1>1, <2>1, Zenon DEF SelfOK, Selves
<1>4. NumberInv' /\ ~device.gone /\ device'.wire = Rest /\ device'.inbox = device.inbox
  <2>1. session'.packets = session.packets
    BY <1>2, FailFields, Zenon DEF Counted
  <2>2. pc' # "verify" \/ (pc' = pc /\ send' = send)
    <3>1. ~more => pc' \in {"idle", "end"}
      BY <1>2, FailFields, Zenon
    <3>2. ~more => pc' # "verify"
      BY <3>1
    <3>3. QED
      BY <1>2, <3>2, Zenon
  <2>3. QED
    BY <1>2, <1>3, <2>1, <2>2, NumberRead, Zenon DEF LateInv
<1>5. w \in Seq(Seq(Cells)) /\ Head(w) = <<>> /\ Rest = Tail(w)
  <2>1. PICK y \in Seq(Cells) :
          /\ Head(w) = Take \o y /\ (Head(w) # <<>> => Take # <<>>)
          /\ IF y = <<>> THEN Rest = Tail(w) ELSE Rest = <<y>> \o Tail(w)
    BY <1>1, <1>2, TakeRest, Zenon DEF Splits
  <2>2. Head(w) = <<>> /\ y = <<>>
    <3>1. Head(w) = <<>>
      BY <1>2, <2>1, Zenon
    <3>2. <<>> \o y = y
      OBVIOUS
    <3>3. QED
      BY <3>1, <3>2, <1>2, <2>1, Zenon
  <2>3. w \in Seq(Seq(Cells))
    BY <1>1 DEF DeviceOK
  <2>4. QED
    BY <2>1, <2>2, <2>3, Zenon
<1>6. ASSUME ~Live, ~session.collided
      PROVE  /\ device.inbox # <<>> \/ Carrying(Tail(w), session.packets)
             /\ Len(device.inbox) >= 2 \/ Loaded(Tail(w))
             /\ Behind(Tail(w), session.packets)
  <2>1. /\ device.inbox # <<>> \/ Carrying(w, session.packets)
        /\ Len(device.inbox) >= 2 \/ Loaded(w)
        /\ Behind(w, session.packets)
    BY <1>2, <1>4, <1>6, Zenon DEF LateInv, StaleInv, Owing
  <2>2. QED
    BY <1>2, <1>5, <2>1, WireTail, Zenon
<1>7. CASE more
  <2>1. pc' = pc /\ session' = session /\ (Live' <=> Live)
    BY <1>2, <1>7, Zenon DEF Live
  <2>2. StaleOnlyByCollision'
    BY <2>1, Zenon DEF LateInv, StaleOnlyByCollision
  <2>3. ~Live' /\ ~session'.collided => Owing'
    <3>1. pc' = "verify" /\ pc' \notin {"idle", "send", "fill"}
      BY <1>2, <2>1
    <3>2. QED
      BY <1>4, <1>5, <1>6, <2>1, <3>1, Zenon DEF Owing
  <2>4. StaleInv'
    <3>1. pc' \in {"idle", "send", "fill", "verify", "end"}
      BY <1>2, <2>1
    <3>2. QED
      BY <2>3, <3>1, Zenon DEF StaleInv
  <2>5. QED
    BY <1>4, <2>2, <2>4, Zenon DEF LateInv
<1>8. CASE ~more
  <2>1. Fail(0)
    BY <1>2, <1>8, Zenon
  <2>2. CASE Live
    <3>1. FileInv /\ StageInv
      BY <2>2, LiveFacts, Zenon
    <3>2. PICK code, cells : Waits(code, cells)
      BY <1>2, <3>1, WaitsFor, Zenon
    <3> DEFINE x == Reply(code, session.packets, cells)
               s == <<"seq", send.seq, session.packets>>
    <3>3. x \in Seq(Cells) /\ x # <<>> /\ s \in Cells
      BY <3>2, WaitsCells
    <3> HIDE DEF x, s
    <3>4. Carries(w, s, x)
      BY <3>2, Zenon DEF Waits, x, s
    <3>5. Carries(Tail(w), s, x)
      BY <1>2, <1>5, <3>3, <3>4, CarriesTail, Zenon
    <3>6. Loaded(Tail(w))
      BY <3>3, <3>5, CarriesLoaded, Zenon
    <3>7. Loaded(device'.wire)
      BY <3>6, <1>4, <1>5, Zenon
    <3>8. QED
      BY <1>4, <2>1, <3>7, LateFails
  <2>3. CASE ~Live
    <3>1. device.inbox \in Seq(Packets)
      BY <1>1 DEF DeviceOK
    <3>2. Len(device.inbox) >= 2 => device.inbox # <<>>
      BY <3>1
    <3>3. ~session.collided => device'.inbox # <<>> \/ Loaded(device'.wire)
      BY <1>4, <1>5, <1>6, <2>3, <3>2, Zenon
    <3>4. QED
      BY <1>4, <2>1, <3>3, LateFails
  <2>4. QED
    BY <2>2, <2>3
<1>9. QED
  BY <1>7, <1>8

\* In a live session the first byte read is the number that is waited for.
LEMMA LiveNumber ==
  ASSUME ObexInv, ShapeInv, LiveInv, Live, pc = "verify", device.wire # <<>>, Take # <<>>
  PROVE  Head(Take) = <<"seq", send.seq, session.packets>>
<1>1. SelfOK /\ DeviceOK /\ StageInv
  BY LiveFacts, Zenon DEF ObexInv
<1>2. PICK code, cells : Waits(code, cells)
  BY <1>1, WaitsFor, Zenon
<1> DEFINE x == Reply(code, session.packets, cells)
           s == <<"seq", send.seq, session.packets>>
<1>3. x \in Seq(Cells) /\ x # <<>> /\ s \in Cells
  BY <1>2, WaitsCells
<1> HIDE DEF x, s
<1>4. Carries(device.wire, s, x) /\ self.rx_msg.data = <<>>
  BY <1>2, Zenon DEF Waits, x, s
<1>5. Head(Take) = s
  BY <1>1, <1>3, <1>4, SeqTaken
<1>6. QED
  BY <1>5 DEF s

\* The number of the answer is found.  In a broken session that is no late
\* answer: the numbers of the packets still under way are all different.
LEMMA SeqMatchesLate ==
  ASSUME ObexInv, ShapeInv, LiveInv, LateInv, Young, SeqMatches
  PROVE  LateInv'
<1>1. SelfOK /\ DeviceOK /\ SessionOK
  BY DEF ObexInv
<1> DEFINE w == device.wire
           c == session.collided \/ Head(Take)[1] # "seq"
           rx == buf_remove_begin(Landed(Take), 1)
<1>2. /\ pc = "verify" /\ pc' = "read" /\ w # <<>> /\ Take # <<>>
      /\ TRUE \in Matches(Head(Take), send.seq)
      /\ device' = [device EXCEPT !.wire = Rest]
      /\ self' = [self EXCEPT !.rx_msg = rx]
      /\ session' = [session EXCEPT !.collided = c]
  BY Zenon DEF SeqMatches, Reads
<1> HIDE DEF c, rx
<1>3. self'.seq_num = self.seq_num
  BY <1>1, <1>2, Zenon DEF SelfOK, Selves
<1>4. /\ session'.packets = session.packets /\ session'.collided = c
      /\ session'.own = session.own /\ session'.status = session.status
  BY <1>2, Zenon DEF ShapeInv
<1>5. NumberInv' /\ ~device.gone
  <2>1. pc' # "verify"
    BY <1>2
  <2>2. QED
    BY <1>2, <1>3, <1>4, <2>1, NumberRead, Zenon DEF LateInv
<1>6. StaleOnlyByCollision'
  BY <1>4, Zenon DEF LateInv, StaleOnlyByCollision, c
<1>7. ASSUME ~Live', ~session'.collided PROVE FALSE
  <2>1. ~Live /\ ~session.collided /\ Head(Take)[1] = "seq"
    BY <1>4, <1>7, Zenon DEF Live, c
  <2>2. Behind(w, session.packets)
    BY <1>2, <1>5, <2>1, Zenon DEF LateInv, StaleInv, Owing
  <2> DEFINE top == session.packets - Len(device.inbox)
  <2>3. /\ Queued(device.inbox, session.packets) /\ Pieces(w, top)
        /\ session.packets > 0 /\ send.seq = NumberOf(session.packets)
    BY <1>2, <1>5, Zenon DEF LateInv, NumberInv
  <2>4. top \in Nat /\ top <= session.packets /\ session.packets \in Nat
    <3>1. session.packets \in Nat /\ Len(device.inbox) \in Nat
      BY <1>1 DEF SessionOK, DeviceOK
    <3>2. Len(device.inbox) <= session.packets
      BY <2>3, Zenon DEF Queued
    <3>3. QED
      BY <3>1, <3>2
  <2> HIDE DEF top
  <2>5. PICK id \in 1 .. top : Head(Take) = Number(id) /\ Opens(Head(w), id)
    <3>1. Head(Take) \in Muted \/ \E id \in 1 .. top :
                                    Head(Take) = Number(id) /\ Opens(Head(w), id)
      BY <1>1, <1>2, <2>3, <2>4, ReadPieces
    <3>2. Head(Take) \notin Muted
      BY <2>1, Zenon DEF Muted
    <3>3. QED
      BY <3>1, <3>2, Zenon
  <2>6. id \in Nat /\ id > 0 /\ id <= session.packets
    BY <2>4
  <2>7. Number(id)[1] = "seq" /\ Number(id)[2] = NumberOf(id)
    BY DEF Number
  <2>8. NumberOf(id) = NumberOf(session.packets)
    <3>1. TRUE \in {Head(Take)[2] = send.seq}
      BY <1>2, <2>1, Zenon DEF Matches
    <3>2. Head(Take)[2] = send.seq
      BY <3>1, Zenon
    <3>3. QED
      BY <3>2, <2>3, <2>5, <2>7, Zenon
  <2>9. session.packets - id < SeqRange
    <3>1. w \in Seq(Seq(Cells))
      BY <1>1 DEF DeviceOK
    <3>2. 1 \in DOMAIN w /\ w[1] = Head(w)
      BY <1>2, <3>1
    <3>3. QED
      BY <2>5, <2>6, <3>2, Zenon DEF Young
  <2>10. id = session.packets
    <3> DEFINE a == id - 1
               b == session.packets - 1
    <3>1. a \in Nat /\ b \in Nat /\ a <= b /\ b - a < SeqRange
      BY <2>4, <2>6, <2>9, ObexAssumption
    <3>2. a % SeqRange = b % SeqRange
      BY <2>8, Zenon DEF NumberOf
    <3> HIDE DEF a, b
    <3>3. a = b
      BY <3>1, <3>2, SameNumber, ObexAssumption
    <3>4. QED
      BY <3>3, <2>4, <2>6 DEF a, b
  <2>11. ~Opens(Head(w), session.packets)
    <3>1. w \in Seq(Seq(Cells))
      BY <1>1 DEF DeviceOK
    <3>2. QED
      BY <1>2, <2>2, <3>1, WireTail, Zenon
  <2>12. QED
    BY <2>5, <2>10, <2>11, Zenon
<1>8. StaleInv'
  BY <1>7, Zenon DEF StaleInv
<1>9. QED
  BY <1>5, <1>6, <1>8, Zenon DEF LateInv

\* Another number is found: it belongs to a late answer, and the answer to the
\* packet is left for the next request.
LEMMA SeqMismatchLate ==
  ASSUME ObexInv, ShapeInv, LiveInv, LateInv, SeqMismatch
  PROVE  LateInv'
<1>1. SelfOK /\ DeviceOK /\ SessionOK
  BY DEF ObexInv
<1> DEFINE w == device.wire
           rx == Landed(Take)
<1>2. /\ pc = "verify" /\ w # <<>> /\ Take # <<>>
      /\ FALSE \in Matches(Head(Take), send.seq)
      /\ device' = [device EXCEPT !.wire = Rest]
      /\ self' = [self EXCEPT !.rx_msg = rx] /\ Fail(0)
  BY Zenon DEF SeqMismatch, Reads
<1> HIDE DEF rx
<1>3. self'.seq_num = self.seq_num
  BY <1>1, <1>2, Zenon DEF SelfOK, Selves
<1>4. Counted /\ pc' \in {"idle", "end"}
  BY <1>2, FailFields
<1>5. NumberInv' /\ ~device.gone /\ device'.wire = Rest /\ device'.inbox = device.inbox
  <2>1. pc' # "verify"
    BY <1>4
  <2>2. QED
    BY <1>2, <1>3, <1>4, <2>1, NumberRead, Zenon DEF LateInv, Counted
<1>6. ~Live
  <2> SUFFICES ASSUME Live PROVE FALSE
    OBVIOUS
  <2>1. Head(Take) = <<"seq", send.seq, session.packets>>
    BY <1>2, LiveNumber, Zenon
  <2>2. Head(Take)[1] = "seq" /\ Head(Take)[2] = send.seq
    BY <2>1
  <2>3. FALSE \in {Head(Take)[2] = send.seq}
    BY <1>2, <2>2, Zenon DEF Matches
  <2>4. QED
    BY <2>2, <2>3, Zenon
<1>7. ASSUME ~session.collided PROVE device'.inbox # <<>> \/ Loaded(device'.wire)
  <2>1. /\ device.inbox # <<>> \/ Carrying(w, session.packets)
        /\ Behind(w, session.packets)
    BY <1>2, <1>5, <1>6, <1>7, Zenon DEF LateInv, StaleInv, Owing
  <2>2. w \in Seq(Seq(Cells))
    BY <1>1 DEF DeviceOK
  <2>3. device.inbox # <<>> \/ Loaded(Tail(w))
    BY <1>2, <2>1, <2>2, WireTail, Zenon
  <2> DEFINE top == session.packets - Len(device.inbox)
  <2>4. Queued(device.inbox, session.packets) /\ Pieces(w, top)
    BY <1>2, <1>5, Zenon DEF LateInv, NumberInv
  <2>5. top \in Nat
    <3>1. session.packets \in Nat /\ Len(device.inbox) \in Nat
      BY <1>1 DEF SessionOK, DeviceOK
    <3>2. Len(device.inbox) <= session.packets
      BY <2>4, Zenon DEF Queued
    <3>3. QED
      BY <3>1, <3>2
  <2> HIDE DEF top
  <2>6. Loaded(Tail(w)) => Loaded(Rest)
    BY <1>1, <1>2, <2>4, <2>5, ReadPieces
  <2>7. QED
    BY <1>5, <2>3, <2>6, Zenon
<1>8. QED
  BY <1>2, <1>5, <1>7, LateFails

\* Nothing comes in time: the packet is still to be answered.
LEMMA SeqTimeoutLate ==
  ASSUME ObexInv, ShapeInv, LiveInv, LateInv, SeqTimeout
  PROVE  LateInv'
<1>1. SelfOK /\ DeviceOK /\ SessionOK
  BY DEF ObexInv
<1> DEFINE rx == Landed(<<>>)
           n == Late
<1>2. /\ pc = "verify" /\ device.wire = <<>> /\ device' = device
      /\ self' = [self EXCEPT !.rx_msg = rx] /\ Fail(n)
  BY Zenon DEF SeqTimeout, TimedOut
<1> HIDE DEF rx, n
<1>3. self'.seq_num = self.seq_num
  BY <1>1, <1>2, Zenon DEF SelfOK, Selves
<1>4. Counted /\ pc' \in {"idle", "end"}
  BY <1>2, FailFields
<1>5. NumberInv'
  <2>1. pc' # "verify"
    BY <1>4
  <2>2. QED
    BY <1>2, <1>3, <1>4, <2>1, NumberKept, Zenon DEF LateInv, Counted
<1>6. ~Loaded(device.wire)
  <2>1. DOMAIN device.wire = {}
    BY <1>2
  <2>2. QED
    BY <2>1, Zenon DEF Loaded
<1>7. ASSUME ~session.collided, ~device'.gone PROVE device'.inbox # <<>>
  <2>1. CASE Live
    <3>1. AtVerify
      BY <1>2, <2>1, LiveFacts, Zenon DEF StageInv
    <3> SUFFICES ASSUME device.inbox = <<>> PROVE FALSE
      BY <1>2, Zenon
    <3>2. device.inbox # <<self.tx_msg.data>>
      OBVIOUS
    <3>3. PICK code, cells : Waits(code, cells)
      BY <1>2, <1>7, <3>1, <3>2, Zenon DEF AtVerify, Waits
    <3> DEFINE x == Reply(code, session.packets, cells)
               s == <<"seq", send.seq, session.packets>>
    <3>4. x \in Seq(Cells) /\ s \in Cells
      BY <3>3, WaitsCells
    <3> HIDE DEF x, s
    <3>5. Carries(device.wire, s, x)
      BY <3>3, Zenon DEF Waits, x, s
    <3>6. QED
      BY <1>6, <3>4, <3>5, CarriesLoaded, Zenon
  <2>2. CASE ~Live
    <3>1. Len(device.inbox) >= 2
      BY <1>2, <1>6, <1>7, <2>2, Zenon DEF LateInv, StaleInv, Owing
    <3>2. QED
      BY <1>2, <3>1
  <2>3. QED
    BY <2>1, <2>2
<1>8. QED
  BY <1>2, <1>5, <1>7, LateFails, Zenon

\* Packets that are not answered yet have no answer to be read.
LEMMA NoneAhead ==
  ASSUME NEW w, NEW top \in Nat, Pieces(w, top), NEW id \in Nat, id > top
  PROVE  ~Carrying(w, id)
<1> SUFFICES ASSUME NEW i \in DOMAIN w, w[i] # <<>>, w[i][1] = Number(id)
             PROVE  FALSE
  BY Zenon DEF Carrying, Opens
<1>1. Piece(w[i], top)
  BY Zenon DEF Pieces
<1>2. Number(id)[1] = "seq" /\ Number(id)[3] = id
  BY DEF Number
<1> DEFINE v == w[i]
<1>3. CASE v \in Seq(Muted)
  <2> DEFINE M == Muted
  <2>1. v \in Seq(M) /\ v # <<>>
    BY <1>3
  <2> HIDE DEF M, v
  <2>2. v[1] \in M
    BY <2>1
  <2>3. v[1][1] # "seq"
    BY <2>2, Zenon DEF M, Muted
  <2>4. QED
    BY <2>3, <1>2, Zenon DEF v
<1>4. CASE \E k \in 1 .. top : \E x \in Seq(Muted) : v = <<Number(k)>> \o x
  <2>1. PICK k \in 1 .. top : \E x \in Seq(Muted) : v = <<Number(k)>> \o x
    BY <1>4, Zenon
  <2>2. PICK x \in Seq(Muted) : v = <<Number(k)>> \o x
    BY <2>1, Zenon
  <2> DEFINE s == Number(k)
  <2>3. s[3] = k
    BY DEF Number
  <2>4. x \in Seq(Cells)
    BY MutedRuns, Zenon
  <2>5. v = <<s>> \o x
    BY <2>2
  <2> HIDE DEF s, v
  <2>6. v[1] = s
    <3> DEFINE y == <<s>> \o x
    <3>1. y[1] = s
      BY <2>4
    <3> HIDE DEF y
    <3>2. QED
      BY <2>5, <3>1, Zenon DEF y
  <2>7. k = id
    BY <2>3, <2>6, <1>2, Zenon DEF v
  <2>8. QED
    BY <2>1, <2>7
<1>5. QED
  BY <1>1, <1>3, <1>4, Zenon DEF Piece

\* More packets are answered.
LEMMA PiecesMore ==
  ASSUME NEW w, NEW top \in Nat, NEW id \in Nat, top <= id, Pieces(w, top)
  PROVE  Pieces(w, id)
<1>1. \A k \in 1 .. top : k \in 1 .. id
  OBVIOUS
<1>2. \A v : Piece(v, top) => Piece(v, id)
  BY <1>1, Zenon DEF Piece
<1>3. QED
  BY <1>2, Zenon DEF Pieces

\* The packet that goes out starts with its number.
LEMMA PacketNumber ==
  ASSUME SelfOK, ObjectOK, SessionOK
  PROVE  Packet.data[1] = <<"seq", self.seq_num, session.packets + 1>>
<1> DEFINE d == self.tx_msg.data
           s == self.seq_num
           id == session.packets + 1
           last == object.txq = <<>>
           x == Opening(s, id, object.cmd, last)
<1>1. s \in Int /\ id \in Nat /\ object.cmd \in Words /\ last \in BOOLEAN
      /\ self.tx_msg \in SoundBuffers
  BY SelfFields, ObjectFields DEF SessionOK
<1>2. d \in Seq(Cells)
  BY <1>1 DEF SoundBuffers, Buffers
<1>3. Packet = buf_insert_begin(self.tx_msg, x)
  BY Zenon DEF Packet, Opening
<1> HIDE DEF s, id, last
<1>4. x \in Seq(Cells) /\ Len(x) = 4 /\ x[1] = <<"seq", s, id>>
  BY <1>1, OpeningIs, Zenon
<1> HIDE DEF x
<1>5. Packet.data = x \o d
  <2>1. GoodBuffer(self.tx_msg, Cells)
    BY <1>1 DEF SoundBuffers, GoodBuffer
  <2>2. QED
    BY <1>3, <1>4, <2>1, InsertBegin, Zenon
<1> HIDE DEF d
<1>6. (x \o d)[1] = x[1]
  <2> DEFINE S == Cells
  <2>1. x \in Seq(S) /\ d \in Seq(S) /\ Len(x) = 4
    BY <1>2, <1>4
  <2> HIDE DEF S
  <2>2. QED
    BY <2>1
<1>7. QED
  BY <1>4, <1>5, <1>6, Zenon DEF s, id

\* A packet goes out behind the ones that are still to be answered.
LEMMA SendPacketLate ==
  ASSUME ObexInv, ShapeInv, LateInv, SendPacket
  PROVE  LateInv'
<1>1. SelfOK /\ ObjectOK /\ SendOK /\ SessionOK /\ DeviceOK
  BY DEF ObexInv
<1> DEFINE last == session.packets
           id == session.packets + 1
           nx == (self.seq_num + 1) % SeqRange
           pk == Packet
           done == object.txq = <<>>
           in == Append(device.inbox, pk.data)
<1>2. /\ pc = "fill" /\ self' = [self EXCEPT !.tx_msg = pk, !.seq_num = nx]
      /\ send' = [send EXCEPT !.finished = done, !.seq = self.seq_num]
      /\ device.gone => Fail(0) /\ device' = device
      /\ ~device.gone => /\ device' = [device EXCEPT !.inbox = in] /\ pc' = "verify"
                         /\ session' = [session EXCEPT !.packets = id]
  BY Zenon DEF SendPacket
<1>3. /\ device.gone => Silent
      /\ ~device.gone => self.seq_num = last % SeqRange
      /\ Queued(device.inbox, last) /\ Pieces(device.wire, last - Len(device.inbox))
      /\ device.out \in Seq(Muted)
  BY Zenon DEF LateInv, NumberInv
<1>4. CASE device.gone
  <2>1. Fail(0) /\ device' = device
    BY <1>2, <1>4, Zenon
  <2>2. Counted /\ pc' \in {"idle", "end"}
    BY <2>1, FailFields
  <2>3. pc' # "verify"
    BY <2>2
  <2>4. Silent'
    BY <1>3, <1>4, <2>1, Zenon DEF Silent
  <2>5. NumberInv'
    BY <1>3, <1>4, <2>1, <2>2, <2>4, Zenon DEF NumberInv, Counted
  <2>6. QED
    BY <1>4, <2>1, <2>5, LateFails
<1>5. CASE ~device.gone
  <2>1. /\ device' = [device EXCEPT !.inbox = in] /\ pc' = "verify"
        /\ session' = [session EXCEPT !.packets = id]
    BY <1>2, <1>5, Zenon
  <2>2. last \in Nat /\ device.inbox \in Seq(Packets) /\ pk.data \in Packets
    BY <1>1, PacketMade DEF SessionOK, DeviceOK
  <2>3. Len(device.inbox) \in Nat /\ Len(device.inbox) <= last
    <3>1. Len(device.inbox) \in Nat
      BY <2>2
    <3>2. QED
      BY <1>3, <3>1, Zenon DEF Queued
  <2>4. id \in Nat /\ id > 0 /\ id - 1 = last /\ SeqRange \in Nat \ {0}
    BY <2>2, ObexAssumption
  <2>5. self.seq_num = NumberOf(id)
    BY <1>3, <1>5, <2>4, Zenon DEF NumberOf
  <2>6. nx = id % SeqRange
    BY <1>3, <1>5, <2>2, <2>4, NextNumber
  <2>7. pk.data[1] = Number(id)
    BY <1>1, <2>5, PacketNumber, Zenon DEF Number
  <2>8. /\ Queued(in, id) /\ in # <<>> /\ id - Len(in) = last - Len(device.inbox)
        /\ device.inbox # <<>> => Len(in) >= 2
    <3> DEFINE p == pk.data
               old == device.inbox
    <3>1. old \in Seq(Packets) /\ p \in Packets /\ Queued(old, last) /\ p[1] = Number(last + 1)
      BY <1>3, <2>2, <2>7
    <3> HIDE DEF p, old, last
    <3>2. /\ Queued(Append(old, p), last + 1) /\ Append(old, p) # <<>>
          /\ (last + 1) - Len(Append(old, p)) = last - Len(old)
          /\ old # <<>> => Len(Append(old, p)) >= 2
      BY <2>2, <3>1, QueuedSend
    <3>3. QED
      BY <3>2, Zenon DEF last, p, old
  <2>9. ~Carrying(device.wire, id)
    <3> DEFINE top == last - Len(device.inbox)
    <3>1. top \in Nat /\ id > top
      BY <2>2, <2>3
    <3>2. Pieces(device.wire, top)
      BY <1>3
    <3> HIDE DEF top, id
    <3>3. QED
      BY <2>4, <3>1, <3>2, NoneAhead, Zenon
  <2> HIDE DEF in, nx, pk, id, last, done
  <2>10. self'.seq_num = nx
    BY <1>1, <1>2, Zenon DEF SelfOK, Selves
  <2>11. send'.seq = self.seq_num
    BY <1>1, <1>2, Zenon DEF SendOK
  <2>12. /\ session'.packets = id /\ session'.own = session.own
         /\ session'.collided = session.collided /\ session'.status = session.status
    BY <2>1, Zenon DEF ShapeInv
  <2>13. /\ device'.inbox = in /\ device'.wire = device.wire /\ device'.out = device.out
         /\ device'.gone = device.gone
    BY <2>1, Zenon DEF ShapeInv
  <2>14. NumberInv'
    <3>1. Pieces(device'.wire, session'.packets - Len(device'.inbox))
      BY <1>3, <2>8, <2>12, <2>13, Zenon
    <3>2. session'.packets > 0 /\ send'.seq = NumberOf(session'.packets)
      BY <2>4, <2>5, <2>11, <2>12, Zenon
    <3>3. self'.seq_num = session'.packets % SeqRange
      BY <2>6, <2>10, <2>12, Zenon
    <3>4. Queued(device'.inbox, session'.packets) /\ device'.out \in Seq(Muted)
      BY <1>3, <2>8, <2>12, <2>13, Zenon
    <3>5. QED
      BY <1>5, <2>13, <3>1, <3>2, <3>3, <3>4, Zenon DEF NumberInv
  <2>15. StaleOnlyByCollision'
    BY <2>12, Zenon DEF LateInv, StaleOnlyByCollision
  <2>16. ASSUME ~Live', ~session'.collided PROVE Owing'
    <3>1. ~Live /\ ~session.collided
      BY <2>12, <2>16, Zenon DEF Live
    <3>2. device.inbox # <<>> \/ Loaded(device.wire)
      BY <1>2, <1>5, <3>1, Zenon DEF LateInv, StaleInv, Owing
    <3>3. Behind(device.wire, id)
      BY <2>9, Zenon DEF Behind, Carrying
    <3>4. pc' \notin {"idle", "send", "fill"}
      BY <2>1
    <3>5. QED
      BY <2>8, <2>12, <2>13, <3>2, <3>3, <3>4, Zenon DEF Owing
  <2>17. StaleInv'
    BY <2>1, <2>16, Zenon DEF StaleInv
  <2>18. QED
    BY <2>14, <2>15, <2>17, Zenon DEF LateInv
<1>6. QED
  BY <1>4, <1>5

\* The device answers the packet it was sent first.
LEMMA AnswerLate ==
  ASSUME ObexInv, ShapeInv, LateInv, DeviceAnswer
  PROVE  LateInv'
<1>1. SessionOK /\ DeviceOK
  BY DEF ObexInv
<1> DEFINE p == Head(device.inbox)
           got == (IF Named(p) # {} THEN <<>> ELSE device.got) \o Carried(p)
           left == IF Len(Fetched(p)) > Chunk
                   THEN SubSeq(Fetched(p), Chunk + 1, Len(Fetched(p))) ELSE <<>>
           g == IF p[2][2] = "PUT" THEN got ELSE device.got
           o == IF p[2][2] = "GET" THEN left ELSE device.out
           last == session.packets
           w == device.wire
           in == Tail(device.inbox)
<1>2. device.inbox # <<>> /\ pc' = pc /\ self' = self /\ send' = send
  BY Zenon DEF DeviceAnswer
<1>3. PICK refuse \in BOOLEAN : \E t \in Transfers(<<p[1]>>, Response(p, refuse)) :
        /\ session' = [session EXCEPT !.empties = session.empties + t.empties]
        /\ device' = [device EXCEPT !.inbox = in, !.wire = w \o t.wire, !.got = g, !.out = o]
  BY Zenon DEF DeviceAnswer, Answers
<1>4. PICK t \in Transfers(<<p[1]>>, Response(p, refuse)) :
        /\ session' = [session EXCEPT !.empties = session.empties + t.empties]
        /\ device' = [device EXCEPT !.inbox = in, !.wire = w \o t.wire, !.got = g, !.out = o]
  BY <1>3
<1>5. /\ ~device.gone /\ self.seq_num = last % SeqRange
      /\ pc = "verify" => last > 0 /\ send.seq = NumberOf(last)
      /\ Queued(device.inbox, last) /\ Pieces(w, last - Len(device.inbox))
      /\ device.out \in Seq(Muted)
  BY <1>2, Zenon DEF LateInv, NumberInv, Silent
<1>6. last \in Nat /\ device.inbox \in Seq(Packets) /\ w \in Seq(Seq(Cells))
  BY <1>1 DEF SessionOK, DeviceOK
<1>7. p \in Packets
  <2> DEFINE S == Packets
             q == device.inbox
  <2>1. q \in Seq(S) /\ q # <<>>
    BY <1>2, <1>6
  <2> HIDE DEF S, q
  <2>2. Head(q) \in S
    BY <2>1
  <2>3. QED
    BY <2>2 DEF q, S
<1>8. PICK id \in Nat : Due(device.inbox, last, id)
  BY <1>2, <1>5, <1>6, QueuedAnswer, Zenon
<1>9. /\ id > 0 /\ id <= last /\ p[1] = Number(id) /\ Queued(in, last) /\ last - Len(in) = id
      /\ last - Len(device.inbox) \in Nat /\ last - Len(device.inbox) <= id
      /\ (in = <<>> <=> id = last) /\ (in = <<>> => Len(device.inbox) = 1)
  BY <1>8, Zenon DEF Due
<1> DEFINE x == Response(p, refuse)
<1>10. x \in Seq(Muted) /\ x # <<>>
  <2>1. x \in Seq(Muted) /\ \E code \in Words, k \in Nat, cells \in Seq(Muted) :
                              x = Reply(code, k, cells)
    BY <1>5, <1>7, MutedResponse, Zenon
  <2>2. PICK code \in Words, k \in Nat, cells \in Seq(Muted) : x = Reply(code, k, cells)
    BY <2>1
  <2>3. cells \in Seq(Cells)
    BY MutedRuns, Zenon
  <2>4. ReplyIs(x, code, k, cells)
    BY <2>2, <2>3, ReplyOf, Zenon
  <2> HIDE DEF x
  <2>5. x \in Seq(Cells) /\ Len(x) = 3 + Len(cells) /\ Len(cells) \in Nat
    BY <2>4, Zenon DEF ReplyIs
  <2>6. x # <<>>
    BY <2>5
  <2>7. QED
    BY <2>1, <2>6
<1>11. o \in Seq(Muted)
  <2>1. Fetched(p) \in Seq(Muted) /\ <<>> \in Seq(Muted)
    BY <1>5, <1>7, MutedFetched, MutedRuns, Zenon
  <2>2. PICK out \in Seq(Muted) : out = Fetched(p)
    BY <2>1, Zenon
  <2>3. Len(out) > Chunk => SubSeq(out, Chunk + 1, Len(out)) \in Seq(Muted)
    <3>1. TRUE \in BOOLEAN
      OBVIOUS
    <3>2. QED
      BY <3>1, MutedPart
  <2>4. left \in Seq(Muted)
    BY <2>1, <2>2, <2>3, Zenon
  <2> HIDE DEF left
  <2>5. QED
    BY <1>5, <2>4, Zenon
<1> HIDE DEF x, g, o, in, p
<1>12. Carries(t.wire, Number(id), x) /\ t.wire \in Seq(Seq(Cells))
  <2>1. Number(id) \in Cells
    BY <1>9, NumberCell, Zenon
  <2>2. x \in Seq(Cells) /\ t \in Transfers(<<Number(id)>>, x)
    BY <1>4, <1>9, <1>10, MutedRuns, Zenon DEF x
  <2>3. PICK s \in Cells : s = Number(id)
    BY <2>1, Zenon
  <2>4. t \in Transfers(<<s>>, x) /\ <<s>> \in Seq(Cells)
    BY <2>2, <2>3
  <2>5. Carries(t.wire, s, x)
    BY <2>2, <2>4, TransfersCarry, Zenon
  <2>6. t.wire \in Seq(Seq(Cells))
    BY <2>2, <2>4, TransferCells, Zenon
  <2>7. QED
    BY <2>3, <2>5, <2>6, Zenon
<1>13. PICK v \in Seq(Seq(Cells)) : v = t.wire
  BY <1>12, Zenon
<1>14. /\ Pieces(v, id) /\ Loaded(v) /\ Carrying(v, id)
       /\ \A other \in Nat : other # id => ~Carrying(v, other)
  <2>1. Carries(v, Number(id), x) /\ id <= id
    BY <1>12, <1>13
  <2>2. QED
    BY <1>9, <1>10, <2>1, AnswerPieces
<1>15. Pieces(w, id)
  <2> DEFINE top == last - Len(device.inbox)
  <2>1. top \in Nat /\ top <= id /\ Pieces(w, top)
    BY <1>5, <1>9
  <2> HIDE DEF top
  <2>2. QED
    BY <2>1, PiecesMore, Zenon
<1>16. /\ Pieces(w \o v, id) /\ Loaded(w \o v) /\ Carrying(w \o v, id)
       /\ Behind(w, last) /\ (Loaded(w) \/ ~Carrying(v, last)) => Behind(w \o v, last)
  BY <1>6, <1>14, <1>15, PiecesJoin, WireJoin, Zenon
<1>17. /\ device'.inbox = in /\ device'.wire = w \o v /\ device'.out = o
       /\ device'.gone = device.gone
  <2> DEFINE z == w \o v
  <2>1. device' = [device EXCEPT !.inbox = in, !.wire = z, !.got = g, !.out = o]
    BY <1>4, <1>13, Zenon
  <2> HIDE DEF z
  <2>2. device'.inbox = in /\ device'.wire = z /\ device'.out = o /\ device'.gone = device.gone
    BY <2>1, Zenon DEF ShapeInv
  <2>3. QED
    BY <2>2, Zenon DEF z
<1>18. Counted /\ session'.status = session.status
  <2> DEFINE e == session.empties + t.empties
  <2>1. session' = [session EXCEPT !.empties = e]
    BY <1>4, Zenon
  <2> HIDE DEF e
  <2>2. QED
    BY <2>1, Zenon DEF ShapeInv, Counted
<1>19. NumberInv'
  <2>1. session'.packets = last
    BY <1>18, Zenon DEF Counted
  <2>2. Pieces(device'.wire, session'.packets - Len(device'.inbox))
    BY <1>9, <1>16, <1>17, <2>1, Zenon
  <2>3. Queued(device'.inbox, session'.packets) /\ device'.out \in Seq(Muted)
    BY <1>9, <1>11, <1>17, <2>1, Zenon
  <2>4. /\ self'.seq_num = session'.packets % SeqRange
        /\ pc' = "verify" => session'.packets > 0 /\ send'.seq = NumberOf(session'.packets)
    BY <1>2, <1>5, <2>1, Zenon
  <2>5. QED
    BY <1>5, <1>17, <2>2, <2>3, <2>4, Zenon DEF NumberInv
<1>20. StaleOnlyByCollision'
  BY <1>18, Zenon DEF LateInv, StaleOnlyByCollision, Counted
<1>21. ASSUME ~Live', ~session'.collided
       PROVE  pc' \in {"idle", "send", "fill", "verify", "end"} /\ Owing'
  <2>1. ~Live /\ ~session.collided
    BY <1>18, <1>21, Zenon DEF Live, Counted
  <2>2. pc \in {"idle", "send", "fill", "verify", "end"} /\ Owing
    BY <1>5, <2>1, Zenon DEF LateInv, StaleInv
  <2>3. ASSUME pc = "verify"
        PROVE  /\ in # <<>> \/ Carrying(w \o v, last)
               /\ Behind(w \o v, last)
    <3>1. /\ Len(device.inbox) >= 2 \/ Loaded(w)
          /\ Behind(w, last)
      BY <2>2, <2>3, Zenon DEF Owing
    <3>2. in # <<>> \/ Carrying(w \o v, last)
      BY <1>9, <1>16, Zenon
    <3>3. Loaded(w) \/ ~Carrying(v, last)
      <4>1. CASE in = <<>>
        <5>1. Len(device.inbox) = 1
          BY <1>9, <4>1, Zenon
        <5>2. ~(Len(device.inbox) >= 2)
          BY <5>1
        <5>3. QED
          BY <3>1, <5>2, Zenon
      <4>2. CASE in # <<>>
        BY <1>6, <1>9, <1>14, <4>2, Zenon
      <4>3. QED
        BY <4>1, <4>2
    <3>4. QED
      BY <1>16, <3>1, <3>2, <3>3, Zenon
  <2>4. Owing'
    <3>1. session'.packets = last
      BY <1>18, Zenon DEF Counted
    <3>2. QED
      BY <1>2, <1>16, <1>17, <2>3, <3>1, Zenon DEF Owing
  <2>5. QED
    BY <1>2, <2>2, <2>4, Zenon
<1>22. StaleInv'
  BY <1>21, Zenon DEF StaleInv
<1>23. QED
  BY <1>19, <1>20, <1>22, Zenon DEF LateInv

\* The device is unplugged: nothing more is read.
LEMMA UnplugLate ==
  ASSUME ObexInv, ShapeInv, LateInv, Unplug
  PROVE  LateInv'
<1> DEFINE f == session.faults + 1
           e == <<>>
           yes == TRUE
<1>1. /\ session' = [session EXCEPT !.faults = f]
      /\ device' = [device EXCEPT !.gone = yes, !.inbox = e, !.wire = e]
      /\ pc \in {"idle", "verify", "read"} /\ pc' = pc
  BY Zenon DEF Unplug
<1> HIDE DEF f, e, yes
<1>2. /\ device'.gone = yes /\ device'.inbox = e /\ device'.wire = e
      /\ device'.out = device.out
  BY <1>1, Zenon DEF ShapeInv
<1>3. Counted /\ session'.status = session.status
  BY <1>1, Zenon DEF ShapeInv, Counted
<1>4. device'.gone /\ Silent'
  BY <1>2, Zenon DEF Silent, yes, e
<1>5. Queued(e, session.packets) /\ Pieces(e, session.packets - Len(e))
  <2>1. session.packets \in Nat
    BY DEF ObexInv, SessionOK
  <2>2. Len(e) <= session.packets /\ DOMAIN e = {}
    BY <2>1 DEF e
  <2>3. QED
    BY <2>2, Zenon DEF Queued, Pieces
<1>6. NumberInv'
  <2>1. device.out \in Seq(Muted)
    BY Zenon DEF LateInv, NumberInv
  <2>2. QED
    BY <1>2, <1>3, <1>4, <1>5, <2>1, Zenon DEF NumberInv, Counted
<1>7. StaleOnlyByCollision'
  BY <1>3, Zenon DEF LateInv, StaleOnlyByCollision, Counted
<1>8. StaleInv'
  BY <1>1, <1>3, <1>4, Zenon DEF LateInv, StaleInv, Live, Counted
<1>9. QED
  BY <1>6, <1>7, <1>8, Zenon DEF LateInv

\* Nothing has been sent yet.
LEMMA LateStarts ==
  ASSUME Init
  PROVE  LateInv
<1> DEFINE e == <<>>
           z == 0
           yes == TRUE
           no == FALSE
<1>1. /\ device = [inbox |-> e, got |-> e, out |-> e, wire |-> e, gone |-> no]
      /\ session = [requests |-> z, packets |-> z, status |-> "new", faults |-> z,
                    empties |-> z, own |-> yes, reply |-> z, collided |-> no]
      /\ self = [mtu_tx |-> DefaultMtu, mtu_rx |-> DefaultMtu, seq_num |-> z,
                 rx_msg |-> buf_new(DefaultMtu), tx_msg |-> buf_new(MaxMtu)]
      /\ pc = "idle"
  BY Zenon DEF Init
<1>2. z % SeqRange = z
  <2>1. SeqRange \in Nat \ {0}
    BY ObexAssumption
  <2>2. QED
    BY <2>1
<1>3. Queued(e, z) /\ Pieces(e, z - Len(e)) /\ e \in Seq(Muted)
  <2>1. Len(e) <= z /\ DOMAIN e = {}
    OBVIOUS
  <2>2. QED
    BY <2>1, MutedRuns, Zenon DEF Queued, Pieces
<1> HIDE DEF e, z, yes, no
<1>4. /\ device.inbox = e /\ device.wire = e /\ device.out = e /\ device.gone = no
  BY <1>1, Zenon
<1>5. session.packets = z /\ session.own = yes /\ session.status = "new"
  BY <1>1, Zenon
<1>6. self.seq_num = z
  BY <1>1, Zenon
<1>7. pc # "verify" /\ session.status # "broken"
  BY <1>1, <1>5
<1>8. NumberInv
  BY <1>2, <1>3, <1>4, <1>5, <1>6, <1>7, Zenon DEF NumberInv, Silent, no
<1>9. StaleInv /\ StaleOnlyByCollision
  BY <1>5, <1>7, Zenon DEF StaleInv, Live, StaleOnlyByCollision, yes
<1>10. QED
  BY <1>8, <1>9, Zenon DEF LateInv

\* Every step keeps late answers where they are read as such.
LEMMA LateSteps ==
  ASSUME ObexInv, ShapeInv, LiveInv, LateInv, Young, [Next]_vars
  PROVE  LateInv'
<1>1. CASE Request
  BY <1>1, StartLate, Zenon
<1>2. CASE obex_object_send
  BY <1>2, FillLate, SendPacketLate, Zenon DEF obex_object_send
<1>3. CASE obex_verify_seq
  BY <1>3, SeqEmptyLate, SeqMatchesLate, SeqMismatchLate, SeqTimeoutLate, Zenon
     DEF obex_verify_seq
<1>4. CASE obex_object_receive
  BY <1>4, BulkReadLate, ReceiveLate, Zenon DEF obex_object_receive
<1>5. CASE RequestContinues \/ RequestReturns
  BY <1>5, ContinuesLate, ReturnsLate, Zenon
<1>6. CASE DeviceAnswer
  BY <1>6, AnswerLate, Zenon
<1>7. CASE Unplug
  BY <1>7, UnplugLate, Zenon
<1>8. CASE UNCHANGED vars
  BY <1>8, StutterLate, Zenon
<1>9. QED
  BY <1>1, <1>2, <1>3, <1>4, <1>5, <1>6, <1>7, <1>8 DEF Next, obex_request, Ended

\* StaleOnlyByCollision: as long as no answer SeqRange or more packets old is
\* still to be read (seq_num is a uint8_t, and comes round), a request reports
\* success from another packet's response only when obex_verify_seq took
\* something else than a sequence number for one.
THEOREM StaleOnlyAfterCollision == Spec /\ []Young => []StaleOnlyByCollision
<1>1. Init => LateInv
  BY LateStarts
<1>2. (ObexInv /\ ShapeInv /\ LiveInv) /\ LateInv /\ Young /\ [Next]_vars => LateInv'
  BY LateSteps
<1>3. LateInv => StaleOnlyByCollision
  BY DEF LateInv
<1>4. QED
  BY <1>1, <1>2, <1>3, LiveInductive, PTL DEF Spec
=============================================================================
