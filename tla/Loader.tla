------------------------------- MODULE Loader -------------------------------
(***************************************************************************)
(* The payload loader of the dictionary (loader/src/main.c) and the files  *)
(* it reads: payload/pack_payload.py writes them, the transfer tool puts   *)
(* them on the internal storage drv0 or on the card crd0.                  *)
(*                                                                         *)
(* Memory and files are counted in blocks of one sys_read.  A checksum     *)
(* stands for the blocks that it was computed over.                        *)
(***************************************************************************)
EXTENDS Integers, Sequences

CONSTANTS
  PoolStart, PoolEnd,   \* PAYLOAD_P2_START, PAYLOAD_P2_END
  Top,                  \* addresses are below Top, and wrap around there
  PayloadSize,          \* blocks of a packed payload
  Versions              \* builds of the payload

ASSUME LoaderAssumption ==
  /\ PoolStart \in Nat /\ PoolEnd \in Nat /\ Top \in Nat
  /\ PoolStart < PoolEnd /\ PoolEnd < Top
  /\ PayloadSize \in 1 .. PoolEnd - PoolStart

Media == {"drv0", "crd0"}

VARIABLES
  storage,   \* the payload file on each medium
  ram,       \* memory blocks: empty (<<>>) or what the loader wrote
  ld         \* the loader: stage, header, status, loop counters and flags

loaderVars == <<storage, ram, ld>>

Blocks(v, n) == [i \in 1 .. n |-> <<v, i>>]

\* A uint32_t: addresses and sizes, and what is computed with them.
Word == 0 .. Top - 1
Wrap(n) == n % Top

\* What pack_payload.py writes for one build.
Packed(v) == [magic |-> TRUE, load |-> PoolStart, entry |-> PoolStart,
              size |-> PayloadSize, crc |-> Blocks(v, PayloadSize),
              body |-> Blocks(v, PayloadSize)]
NoFile == [Packed("none") EXCEPT !.magic = FALSE, !.size = 0, !.body = <<>>]

\* Other files of that name, whatever their headers say; the checksum may be
\* right.
Foreign ==
  {[magic |-> m, load |-> l, entry |-> e, size |-> n,
    crc |-> IF summed THEN Blocks("x", n) ELSE <<>>, body |-> Blocks("x", n)] :
     m \in BOOLEAN, summed \in BOOLEAN, l \in Word, e \in Word, n \in Word}

\* One of them on a medium; which one is found out when it is opened.
Unknown == [NoFile EXCEPT !.body = Blocks("x", PayloadSize)]
Contents(f) == IF f = Unknown THEN Foreign ELSE {f}

\* An overwrite that stopped: the new file cut short, or over the old one.
Torn(new, old) ==
  UNION {{[new EXCEPT !.body = SubSeq(new.body, 1, n)],
          [new EXCEPT !.body = SubSeq(new.body, 1, n)
                                 \o SubSeq(old.body, n + 1, Len(old.body))]} :
           n \in 0 .. PayloadSize - 1}

Off == [stage |-> "off", key |-> "none", read |-> "none", released |-> FALSE,
        header |-> NoFile, body |-> <<>>, done |-> 0, status |-> "none",
        armed |-> FALSE, ran |-> FALSE, presses |-> 0]

Untouched == [a \in 0 .. Top - 1 |-> <<>>]

LoaderInit ==
  /\ \E f \in {NoFile, Unknown} : storage = [drv0 |-> f, crd0 |-> NoFile]
  /\ ram = Untouched
  /\ ld = Off
-----------------------------------------------------------------------------
\* The firmware starts the add-in, with ENTER perhaps still held down.
Launch ==
  /\ ld.stage = "off"
  /\ \E k \in {"none", "ENTER"} :
       ld' = [Off EXCEPT !.stage = "startup", !.key = k]
  /\ UNCHANGED <<storage, ram>>

\* What was in memory is the firmware's again once the loader has returned.
MemoryKept == ram' = IF ld'.stage = "off" THEN Untouched ELSE ram

\* The user presses or releases a key.
KeyMoves ==
  /\ ld.stage \in {"startup", "menu"}
  /\ \E k \in {"none", "ENTER", "BACK"} :
       /\ k # ld.key /\ (k = "none" \/ ld.key = "none")
       /\ ld' = [ld EXCEPT !.key = k,
                   !.presses = IF k = "ENTER" /\ @ < 3 THEN @ + 1 ELSE @]
  /\ UNCHANGED <<storage, ram>>

\* keypad_read and get_key_pressed: a key is pressed that was not down before.
Pressed(k) == ld.key = k /\ ld.read # k

\* One turn of the first loop of main.
StartupTurn ==
  LET released == ld.released \/ ld.key = "none"
  IN /\ ld.stage = "startup"
     /\ ld' = CASE released /\ Pressed("ENTER") ->
                     [ld EXCEPT !.read = ld.key, !.released = TRUE,
                                !.stage = "open"]
                [] released /\ Pressed("BACK") -> Off
                [] OTHER -> [ld EXCEPT !.read = ld.key, !.released = released]
     /\ MemoryKept /\ UNCHANGED storage

\* The first of the names that opens: internal storage before the card.
open_payload ==
  IF storage["drv0"] # NoFile THEN storage["drv0"] ELSE storage["crd0"]

\* Seeded fault: the end of the pool is not looked at.
RangeUnchecked(h) ==
  /\ h.load >= PoolStart /\ h.load < PoolEnd
  /\ h.size # 0
  /\ h.entry >= h.load /\ h.entry < Wrap(h.load + h.size)

\* The six tests of load_payload.
InRange(h) ==
  /\ h.load >= PoolStart /\ h.load < PoolEnd
  /\ h.size # 0 /\ h.size <= Wrap(PoolEnd - h.load)
  /\ h.entry >= h.load /\ h.entry < Wrap(h.load + h.size)

\* load_payload up to the loop.
OpenPayload ==
  /\ ld.stage = "open"
  /\ \E f \in Contents(open_payload) :
       LET status == IF f = NoFile THEN "NOT_FOUND"
                     ELSE IF ~f.magic THEN "BAD_HEADER"
                     ELSE IF ~InRange(f) THEN "BAD_RANGE"
                     ELSE IF Len(f.body) # f.size THEN "BAD_SIZE"
                     ELSE "none"
       IN ld' = [ld EXCEPT !.header = [f EXCEPT !.body = <<>>], !.body = f.body,
                           !.status = status, !.done = 0,
                           !.stage = IF status = "none" THEN "read" ELSE "menu"]
  /\ UNCHANGED <<storage, ram>>

\* The block of memory that the header gives to block n of the image.
Address(n) == Wrap(ld.header.load + n)

ReadBlock ==
  /\ ld.stage = "read" /\ ld.done < ld.header.size
  /\ ram' = [ram EXCEPT ![Address(ld.done)] = ld.body[ld.done + 1]]
  /\ ld' = [ld EXCEPT !.done = @ + 1]
  /\ UNCHANGED storage

ReadFails ==
  /\ ld.stage = "read" /\ ld.done < ld.header.size
  /\ ld' = [ld EXCEPT !.status = "READ_ERROR", !.stage = "menu"]
  /\ UNCHANGED <<storage, ram>>

Image == [i \in 1 .. ld.header.size |-> ram[Address(i - 1)]]

\* Seeded fault: the checksum is measured and shown, not compared.
ChecksumIgnored ==
  /\ ld.stage = "read" /\ ld.done = ld.header.size
  /\ ld' = [ld EXCEPT !.stage = "menu", !.status = "OK"]
  /\ UNCHANGED <<storage, ram>>

Checksum ==
  /\ ld.stage = "read" /\ ld.done = ld.header.size
  /\ ld' = [ld EXCEPT !.stage = "menu",
              !.status = IF Image = ld.header.crc THEN "OK" ELSE "BAD_CRC"]
  /\ UNCHANGED <<storage, ram>>

\* Seeded fault: a key that is held counts as pressed again.
MenuTurnHeld ==
  /\ ld.stage = "menu"
  /\ ld' = CASE ld.key = "BACK" -> Off
             [] ld.key = "ENTER" /\ ld.status = "OK" ->
                  IF ~ld.armed THEN [ld EXCEPT !.read = ld.key, !.armed = TRUE]
                  ELSE [ld EXCEPT !.read = ld.key, !.armed = FALSE,
                                  !.stage = "running"]
             [] OTHER -> [ld EXCEPT !.read = ld.key]
  /\ MemoryKept /\ UNCHANGED storage

\* One turn of the second loop: ENTER arms, a second ENTER runs the payload.
MenuTurn ==
  /\ ld.stage = "menu"
  /\ ld' = CASE ld.key = "BACK" -> Off
             [] ld.status = "OK" /\ Pressed("ENTER") ->
                  IF ~ld.armed THEN [ld EXCEPT !.read = ld.key, !.armed = TRUE]
                  ELSE [ld EXCEPT !.read = ld.key, !.armed = FALSE,
                                  !.stage = "running"]
             [] OTHER -> [ld EXCEPT !.read = ld.key]
  /\ MemoryKept /\ UNCHANGED storage

\* The payload returns, whether it was packed with --returns or not, having
\* used its memory; or the machine is restarted.
PayloadEnds ==
  /\ ld.stage = "running"
  /\ \/ /\ ld' = [ld EXCEPT !.stage = "menu", !.ran = TRUE]
        /\ ram' = [a \in 0 .. Top - 1 |->
                     IF a \in ld.header.load .. ld.header.load + ld.header.size - 1
                     THEN <<"used">> ELSE ram[a]]
     \/ ld' = Off /\ ram' = Untouched
  /\ UNCHANGED storage

LoaderNext == Launch \/ KeyMoves \/ StartupTurn \/ OpenPayload \/ ReadBlock
                \/ ReadFails \/ Checksum \/ MenuTurn \/ PayloadEnds
-----------------------------------------------------------------------------
\* Control passes only to a whole file: what is in memory is one build, or one
\* file from elsewhere, complete and as it was summed, also after an interrupted
\* transfer or a failed read, and the entry point lies in it (load_payload,
\* execute_payload).  A payload that has come back may be run again without
\* another look.
RunsWholeBuild ==
  ld.stage = "running" /\ ~ld.ran =>
    /\ \/ \E v \in Versions : Image = Blocks(v, PayloadSize)
       \/ Image = Blocks("x", ld.header.size)
    /\ ld.header.entry \in ld.header.load .. ld.header.load + ld.header.size - 1

\* The loader writes nothing outside the staging pool, whatever load address,
\* size and entry the header of a file asks for: below the pool, past its end,
\* more than there is, or so much that the sum wraps around.  (What a running
\* payload writes is its own affair: here it uses its image.)
StaysInPool ==
  \A a \in 0 .. Top - 1 : ram[a] # <<>> => a \in PoolStart .. PoolEnd - 1

\* The payload runs after three separate presses of ENTER (inspect, arm,
\* run); the press that launched the loader, or a key held down, is none.
\* Memory is untouched before the first one.
PressesCounted ==
  /\ ld.stage = "running" => ld.presses = 3
  /\ ld.stage # "off" /\ ld.presses = 0 =>
       \A a \in 0 .. Top - 1 : ram[a] = <<>>
=============================================================================
