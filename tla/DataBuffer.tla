----------------------------- MODULE DataBuffer -----------------------------
(***************************************************************************)
(* The growable byte buffer of the transfer library                        *)
(* (tools/libexword/src/databuffer.c).                                     *)
(*                                                                         *)
(* A buffer is the malloc'ed block and three counters around the bytes in  *)
(* use: head_avail before them, and behind them data_avail, never used     *)
(* yet, and tail_avail, given back by buf_remove_end.  The block is cut up *)
(* as head, data, free; reserving at the end never reclaims the head.      *)
(* Allocation does not fail here, and no caller shrinks a buffer.          *)
(***************************************************************************)
EXTENDS Naturals, Sequences

\* Reserved bytes keep what the block happened to hold.
Junk(n) == [i \in 1 .. n |-> <<"junk">>]

buf_new(n) ==
  [block |-> n, head |-> 0, avail |-> n, tail |-> 0, data |-> <<>>]

buf_total_size(b) == b.head + b.avail + b.tail + Len(b.data)

\* new_size >= buf_total_size(b)
buf_resize(b, new_size) ==
  [b EXCEPT !.block = new_size,
            !.avail = b.avail + (new_size - buf_total_size(b))]

buf_reuse(b) == [b EXCEPT !.head = 0, !.avail = buf_total_size(b),
                          !.tail = 0, !.data = <<>>]

buf_insert_begin(b, bytes) ==
  LET n == Len(bytes)
      r == IF n > b.head + b.avail
           THEN buf_resize(b, buf_total_size(b) + n - b.head - b.avail)
           ELSE b
  IN IF b.head >= n
     THEN [b EXCEPT !.head = b.head - n, !.data = bytes \o b.data]
     ELSE [r EXCEPT !.head = 0, !.avail = r.avail - (n - r.head),
                    !.data = bytes \o b.data]

\* Seeded fault: the tail is used up and still counted.
InsertEndKeepsTail(b, bytes) ==
  LET n == Len(bytes)
      r == IF n > b.tail + b.avail
           THEN buf_resize(b, buf_total_size(b) + n - b.tail - b.avail)
           ELSE b
  IN IF b.tail >= n
     THEN [b EXCEPT !.tail = b.tail - n, !.data = b.data \o bytes]
     ELSE [r EXCEPT !.avail = r.avail - (n - r.tail), !.data = b.data \o bytes]

buf_insert_end(b, bytes) ==
  LET n == Len(bytes)
      r == IF n > b.tail + b.avail
           THEN buf_resize(b, buf_total_size(b) + n - b.tail - b.avail)
           ELSE b
  IN IF b.tail >= n
     THEN [b EXCEPT !.tail = b.tail - n, !.data = b.data \o bytes]
     ELSE [r EXCEPT !.tail = 0, !.avail = r.avail - (n - r.tail),
                    !.data = b.data \o bytes]

\* Removing more than there is empties the buffer.
Removed(b, n) == IF n < Len(b.data) THEN n ELSE Len(b.data)

buf_remove_begin(b, n) ==
  LET k == Removed(b, n)
  IN [b EXCEPT !.head = b.head + k,
               !.data = SubSeq(b.data, k + 1, Len(b.data))]

buf_remove_end(b, n) ==
  LET k == Removed(b, n)
  IN [b EXCEPT !.tail = b.tail + k,
               !.data = SubSeq(b.data, 1, Len(b.data) - k)]

\* The counters account for every byte of the block: no reservation runs past
\* it (buf_reserve_begin and buf_reserve_end write behind the pointer they
\* return without another check).
Sound(b) == buf_total_size(b) = b.block
=============================================================================
