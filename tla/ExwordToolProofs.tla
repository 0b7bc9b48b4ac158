-------------------------- MODULE ExwordToolProofs --------------------------
(***************************************************************************)
(* Proofs about the transfer tool, and about the loader beside it, which   *)
(* reads the files that the tool writes: first the loader, then the        *)
(* scripts of the commands and the sessions they run in.                   *)
(***************************************************************************)
EXTENDS ExwordTool, SequenceTheorems, TLAPS


\* The fields of the loader's state and of a file.
LdShape ==
  ld = [stage |-> ld.stage, key |-> ld.key, read |-> ld.read,
        released |-> ld.released, header |-> ld.header, body |-> ld.body,
        done |-> ld.done, status |-> ld.status, armed |-> ld.armed,
        ran |-> ld.ran, presses |-> ld.presses]

FileShape(f) ==
  f = [magic |-> f.magic, load |-> f.load, entry |-> f.entry, size |-> f.size,
       crc |-> f.crc, body |-> f.body]

Stages == {"off", "startup", "open", "read", "menu", "running"}

\* Every press that the loops of main ask for is one of those counted: a key
\* that is down and has been read was pressed before.
PressInv ==
  /\ ld.stage \in Stages
  /\ ld.presses \in 0 .. 3
  /\ ld.stage = "startup" /\ ld.key = "ENTER" /\ ld.released = TRUE =>
       ld.presses >= 1
  /\ ld.stage \in {"open", "read", "menu", "running"} => ld.presses >= 1
  /\ ld.stage \in {"open", "read"} => ld.key = "ENTER" /\ ld.read = "ENTER"
  /\ ld.stage \in {"off", "startup", "open", "read"} => ld.armed = FALSE
  /\ ld.stage = "menu" /\ ld.key = "ENTER" /\ ld.read # "ENTER" => ld.presses >= 2
  /\ ld.stage = "menu" /\ ld.armed # FALSE =>
       /\ ld.presses >= 2
       /\ ld.key = "ENTER" /\ ld.read # "ENTER" => ld.presses = 3
  /\ ld.stage = "running" => ld.presses = 3

\* Memory is as the firmware left it until a payload is read.
MemoryInv ==
  /\ ram = [a \in 0 .. Top - 1 |-> ram[a]]
  /\ ld.stage \in {"off", "startup", "open"} => ram = Untouched

\* A header whose image has a place in the pool, with the checksum of a build,
\* that of a file from elsewhere, or none that an image could have.
Sealed(h) ==
  /\ InRange(h)
  /\ h.load \in Nat /\ h.size \in Nat /\ h.entry \in Nat
  /\ \/ \E v \in Versions : h.crc = Blocks(v, PayloadSize)
     \/ h.crc = Blocks("x", h.size)
     \/ h.crc = <<>>

\* A file that the loader would read is a build, though perhaps cut short
\* since, or comes from elsewhere.
FileOK(f) == FileShape(f) /\ (~f.magic \/ ~InRange(f) \/ Sealed(f))
Good(st) == st = [m \in Media |-> st[m]] /\ \A m \in Media : FileOK(st[m])

\* From the checks of load_payload on the header is sealed, and once the
\* checksum was right the image stays as it is until it has run.
Verified == ld.stage = "running" \/ (ld.stage = "menu" /\ ld.status = "OK")
PoolInv ==
  /\ StaysInPool
  /\ ld.stage = "read" => ld.done \in Nat
  /\ ld.stage = "read" \/ Verified => Sealed(ld.header)
  /\ ld.stage = "running" => ld.status = "OK"
  /\ Verified /\ ~ld.ran => Image = ld.header.crc

IInv == LdShape /\ PressInv /\ MemoryInv /\ Good(storage) /\ PoolInv

-----------------------------------------------------------------------------
(* The tool leaves the loader alone.                                       *)

\* The bookkeeping after a call leaves the memory and the loader alone ...
LEMMA ReturnQuiet ==
  ASSUME NEW STATE r, NEW STATE d, Return(r, d)
  PROVE  ram' = ram /\ ld' = ld
  BY Zenon DEF Return

\* ... and so does a request, whatever its result, ...
LEMMA TransferQuiet ==
  ASSUME NEW STATE f, NEW STATE r, NEW STATE d, NEW STATE st, NEW STATE torn,
         Transfer(f, r, d, st, torn)
  PROVE  ram' = ram /\ ld' = ld
  BY Zenon DEF Transfer, Return

\* ... one that stores nothing, ...
LEMMA RequestQuiet ==
  ASSUME NEW STATE f, NEW STATE r, NEW STATE d, Request(f, r, d)
  PROVE  ram' = ram /\ ld' = ld
  BY TransferQuiet, Zenon DEF Request

\* ... every call of the library ...
LEMMA CallQuiet ==
  ASSUME Call
  PROVE  ram' = ram /\ ld' = ld
<1>1. CASE exword_setpath
  BY <1>1, TransferQuiet, Zenon DEF exword_setpath
<1>2. CASE exword_list
  BY <1>2, TransferQuiet, Zenon DEF exword_list
<1>3. CASE exword_get_model \/ exword_get_capacity \/ exword_get_file
             \/ exword_userid \/ _find
  BY <1>3, RequestQuiet, Zenon DEF exword_get_model, exword_get_capacity,
     exword_get_file, exword_userid, _find
<1>4. CASE exword_send_file
  BY <1>4, TransferQuiet, Zenon DEF exword_send_file
<1>5. CASE exword_remove_file
  BY <1>5, TransferQuiet, RequestQuiet, Zenon DEF exword_remove_file
<1>6. CASE exword_sd_format
  BY <1>6, TransferQuiet, Zenon DEF exword_sd_format
<1>7. CASE exword_unlock \/ exword_lock \/ exword_cname \/ exword_cryptkey
  BY <1>7, RequestQuiet, Zenon DEF exword_unlock, exword_lock, exword_cname,
     exword_cryptkey
<1>8. CASE exword_authchallenge \/ exword_authinfo
  BY <1>8, RequestQuiet, Zenon DEF exword_authchallenge, exword_authinfo
<1> QED
  BY <1>1, <1>2, <1>3, <1>4, <1>5, <1>6, <1>7, <1>8, Zenon DEF Call

\* ... and every other step of the tool, which leaves the files alone, too.
LEMMA ToolQuiet ==
  ASSUME HandleEvents \/ Stall \/ Between \/ Command \/ do_events \/ Unplug
           \/ Replug \/ interactive
  PROVE  ram' = ram /\ ld' = ld /\ storage' = storage
<1>1. CASE HandleEvents \/ Stall \/ Unplug \/ Replug \/ interactive
  BY <1>1, Zenon DEF HandleEvents, Stall, Unplug, Replug, interactive, loaderVars
<1>2. CASE do_events
  BY <1>2, Zenon DEF do_events, loaderVars
<1>3. CASE Between
  BY <1>3, Zenon DEF Between, OnHost, IfOk, AuthOk, AuthNo, Crash, Ends, Local,
     loaderVars
<1>4. CASE connect \/ Disconnect \/ quit
  BY <1>4, Zenon DEF connect, Disconnect, quit, Ends, loaderVars
<1>5. ASSUME NEW STATE c, NEW STATE t, Typed(c, t)
      PROVE  ram' = ram /\ ld' = ld /\ storage' = storage
  BY <1>5, Zenon DEF Typed, loaderVars
<1>6. CASE Simple \/ setpath \/ content
  BY <1>5, <1>6, Zenon DEF Simple, setpath, content, Content
<1> QED
  BY <1>1, <1>2, <1>3, <1>4, <1>6, Zenon DEF Command

-----------------------------------------------------------------------------
(* The files of a medium.                                                  *)

\* Inside the pool the sums of load_payload do not wrap around.
LEMMA WrapIs ==
  ASSUME NEW n \in Nat, n < Top
  PROVE  Wrap(n) = n
  BY LoaderAssumption, SMT DEF Wrap

\* What the six tests say once nothing wraps around.
LEMMA InRangeIs ==
  ASSUME NEW h, h.load \in Nat, h.size \in Nat, h.entry \in Nat
  PROVE  InRange(h) <=> /\ h.load \in PoolStart .. PoolEnd - 1
                        /\ h.size # 0 /\ h.size <= PoolEnd - h.load
                        /\ h.entry \in h.load .. h.load + h.size - 1
<1>1. CASE h.load >= PoolStart /\ h.load < PoolEnd
  <2>1. Wrap(PoolEnd - h.load) = PoolEnd - h.load
    <3>1. PoolEnd - h.load \in Nat /\ PoolEnd - h.load < Top
      BY <1>1, LoaderAssumption, SMT
    <3> QED
      BY <3>1, WrapIs
  <2>2. ASSUME h.size <= PoolEnd - h.load
        PROVE  Wrap(h.load + h.size) = h.load + h.size
    <3>1. h.load + h.size \in Nat /\ h.load + h.size < Top
      BY <1>1, <2>2, LoaderAssumption, SMT
    <3> QED
      BY <3>1, WrapIs
  <2> QED
    BY <1>1, <2>1, <2>2, LoaderAssumption, SMT DEF InRange
<1>2. CASE ~(h.load >= PoolStart /\ h.load < PoolEnd)
  BY <1>2, LoaderAssumption, SMT DEF InRange
<1> QED
  BY <1>1, <1>2

\* What pack_payload.py writes has its place in the pool (load_payload accepts it).
LEMMA PackedOK ==
  ASSUME NEW v \in Versions
  PROVE  FileShape(Packed(v)) /\ Sealed(Packed(v))
<1>1. FileShape(Packed(v))
  BY Zenon DEF FileShape, Packed
<1>2. /\ Packed(v).load = PoolStart /\ Packed(v).entry = PoolStart
      /\ Packed(v).size = PayloadSize /\ Packed(v).crc = Blocks(v, PayloadSize)
  BY Zenon DEF Packed
<1>3. /\ Packed(v).load \in Nat /\ Packed(v).entry \in Nat
      /\ Packed(v).size \in Nat
  BY <1>2, LoaderAssumption, SMT
<1>4. InRange(Packed(v))
  BY <1>2, <1>3, InRangeIs, LoaderAssumption, SMT
<1> QED
  BY <1>1, <1>2, <1>3, <1>4, Zenon DEF Sealed

\* A medium without the file.
LEMMA NoFileOK == FileOK(NoFile) /\ FileOK(Unknown)
<1>1. FileShape(Packed("none"))
  BY Zenon DEF FileShape, Packed
<1>2. ASSUME NEW m, NEW g,
             g = [Packed("none") EXCEPT !.magic = m, !.size = 0, !.body = <<>>]
      PROVE  FileShape(g) /\ g.magic = m
  BY <1>1, <1>2, Zenon DEF FileShape
<1>3. FileShape(NoFile) /\ NoFile.magic = FALSE
  BY <1>1, <1>2, Zenon DEF NoFile
<1>4. ASSUME NEW b, NEW g, g = [NoFile EXCEPT !.body = b]
      PROVE  FileShape(g) /\ g.magic = FALSE
  BY <1>3, <1>4, Zenon DEF FileShape
<1>5. FileShape(Unknown) /\ Unknown.magic = FALSE
  BY <1>4, Zenon DEF Unknown
<1> QED
  BY <1>3, <1>5, Zenon DEF FileOK

\* Any other file that may be there: what load_payload does not refuse has its
\* place in the pool.
LEMMA ForeignOK ==
  ASSUME NEW f \in Foreign
  PROVE  FileOK(f)
<1>1. PICK m \in BOOLEAN, summed \in BOOLEAN, l \in Word, e \in Word, n \in Word :
        f = [magic |-> m, load |-> l, entry |-> e, size |-> n,
             crc |-> IF summed THEN Blocks("x", n) ELSE <<>>,
             body |-> Blocks("x", n)]
  BY SMT DEF Foreign
<1>2. FileShape(f)
  BY <1>1, Zenon DEF FileShape
<1>3. /\ f.load = l /\ f.entry = e /\ f.size = n
      /\ f.crc = (IF summed THEN Blocks("x", n) ELSE <<>>)
  BY <1>1, Zenon
<1>4. l \in Nat /\ e \in Nat /\ n \in Nat
  BY LoaderAssumption, SMT DEF Word
<1>5. f.crc = Blocks("x", f.size) \/ f.crc = <<>>
  BY <1>3, Zenon
<1>6. InRange(f) => Sealed(f)
  BY <1>3, <1>4, <1>5, Zenon DEF Sealed
<1> QED
  BY <1>2, <1>6, Zenon DEF FileOK

\* A transfer that stopped leaves the header of the build, with its checksum.
LEMMA TornOK ==
  ASSUME NEW v \in Versions, NEW old, NEW x \in Torn(Packed(v), old)
  PROVE  FileOK(x)
<1>1. PICK b : x = [Packed(v) EXCEPT !.body = b]
  BY Zenon DEF Torn
<1>2. FileShape(x)
  BY <1>1, Zenon DEF FileShape, Packed
<1>3. /\ x.load = Packed(v).load /\ x.entry = Packed(v).entry
      /\ x.size = Packed(v).size /\ x.crc = Packed(v).crc
  BY <1>1, Zenon DEF Packed
<1>4. Sealed(x)
  BY <1>3, PackedOK, Zenon DEF Sealed, InRange
<1> QED
  BY <1>2, <1>4, Zenon DEF FileOK

\* Storing a file on one medium.
LEMMA StoredGood ==
  ASSUME Good(storage), NEW m, NEW f, FileOK(f)
  PROVE  Good([storage EXCEPT ![m] = f])
  BY Zenon DEF Good

\* A request leaves the files, changes them as asked, or stops in between.
LEMMA TransferStores ==
  ASSUME NEW STATE f, NEW STATE r, NEW STATE d, NEW STATE st, NEW STATE torn,
         Transfer(f, r, d, st, torn)
  PROVE  storage' = storage \/ storage' = st \/ storage' \in torn
  BY Zenon DEF Transfer

\* Requests that store nothing.
LEMMA RequestStores ==
  ASSUME NEW STATE f, NEW STATE r, NEW STATE d, Request(f, r, d)
  PROVE  storage' = storage
<1>1. storage' = storage \/ storage' = storage \/ storage' \in {}
  BY TransferStores, Zenon DEF Request
<1> QED
  BY <1>1, Zenon

\* No call of the library leaves a file that load_payload would take for a build.
LEMMA CallStores ==
  ASSUME Call, Good(storage)
  PROVE  Good(storage')
<1>1. CASE exword_setpath
  BY <1>1, TransferStores, Zenon DEF exword_setpath
<1>2. CASE exword_list
  BY <1>2, TransferStores, Zenon DEF exword_list
<1>3. CASE exword_get_model \/ exword_get_capacity \/ exword_get_file
             \/ exword_userid \/ _find
  BY <1>3, RequestStores, Zenon DEF exword_get_model, exword_get_capacity,
     exword_get_file, exword_userid, _find
<1>4. CASE exword_send_file
  <2>1. CASE Transfer({"upload"}, "SUCCESS", dev, storage, {})
    BY <2>1, TransferStores, Zenon
  <2>2. ASSUME NEW v \in Versions,
               Transfer({"send"}, "SUCCESS", dev,
                 IF PayloadPath THEN Stored(Packed(v)) ELSE storage,
                 IF PayloadPath
                 THEN {Stored(x) : x \in Torn(Packed(v), storage[Here[1]])}
                 ELSE {})
        PROVE  Good(storage')
    <3>1. Good(Stored(Packed(v)))
      BY PackedOK, StoredGood, Zenon DEF Stored, FileOK
    <3>2. ASSUME NEW x \in Torn(Packed(v), storage[Here[1]])
          PROVE  Good(Stored(x))
      BY <3>2, TornOK, StoredGood, Zenon DEF Stored
    <3>3. CASE PayloadPath
      BY <2>2, <3>1, <3>2, <3>3, TransferStores, Zenon
    <3>4. CASE ~PayloadPath
      BY <2>2, <3>4, TransferStores, Zenon
    <3> QED
      BY <3>3, <3>4
  <2> QED
    BY <1>4, <2>1, <2>2, Zenon DEF exword_send_file
<1>5. CASE exword_remove_file
  <2>1. Good(IF PayloadPath THEN Stored(NoFile) ELSE storage)
    BY NoFileOK, StoredGood, Zenon DEF Stored
  <2> QED
    BY <1>5, <2>1, TransferStores, RequestStores, Zenon DEF exword_remove_file
<1>6. CASE exword_sd_format
  <2>1. Good([m \in Media |-> IF m \in Cards THEN NoFile ELSE storage[m]])
    BY NoFileOK, Zenon DEF Good
  <2> QED
    BY <1>6, <2>1, TransferStores, Zenon DEF exword_sd_format
<1>7. CASE exword_unlock \/ exword_lock \/ exword_cname \/ exword_cryptkey
  BY <1>7, RequestStores, Zenon DEF exword_unlock, exword_lock, exword_cname,
     exword_cryptkey
<1>8. CASE exword_authchallenge \/ exword_authinfo
  BY <1>8, RequestStores, Zenon DEF exword_authchallenge, exword_authinfo
<1> QED
  BY <1>1, <1>2, <1>3, <1>4, <1>5, <1>6, <1>7, <1>8, Zenon DEF Call

-----------------------------------------------------------------------------
(* The loader's own steps.                                                 *)

\* The loader ends or has not begun: nothing of the image counts any more.
LEMMA OffHolds ==
  ASSUME ld = Off, ram = Untouched
  PROVE  LdShape /\ PressInv /\ MemoryInv /\ PoolInv
<1>1. LdShape
  BY Zenon DEF LdShape, Off
<1>2. ld.stage = "off" /\ ld.presses = 0 /\ ld.armed = FALSE
  BY SMT DEF Off
<1>3. PressInv
  BY <1>2, SMT DEF PressInv, Stages
<1>4. MemoryInv
  BY SMT DEF MemoryInv, Untouched
<1>5. StaysInPool
  BY SMT DEF StaysInPool, Untouched
<1>6. PoolInv
  BY <1>2, <1>5, Zenon DEF PoolInv, Verified
<1> QED
  BY <1>1, <1>3, <1>4, <1>6

\* The same of a step that ends the loader.
LEMMA OffNext ==
  ASSUME ld' = Off, ram' = Untouched
  PROVE  LdShape' /\ PressInv' /\ MemoryInv' /\ PoolInv'
<1>1. LdShape'
  BY Zenon DEF LdShape, Off
<1>2. ld'.stage = "off" /\ ld'.presses = 0 /\ ld'.armed = FALSE
  BY SMT DEF Off
<1>3. PressInv'
  BY <1>2, SMT DEF PressInv, Stages
<1>4. MemoryInv'
  BY SMT DEF MemoryInv, Untouched
<1>5. StaysInPool'
  BY SMT DEF StaysInPool, Untouched
<1>6. PoolInv'
  BY <1>2, <1>5, Zenon DEF PoolInv, Verified
<1> QED
  BY <1>1, <1>3, <1>4, <1>6

\* The initial states, with any file on the internal storage.
LEMMA InitHolds ==
  ASSUME Init
  PROVE  IInv
<1>1. ld = Off /\ ram = Untouched
  BY Zenon DEF Init, LoaderInit
<1>2. PICK f \in {NoFile, Unknown} : storage = [drv0 |-> f, crd0 |-> NoFile]
  BY Zenon DEF Init, LoaderInit
<1>3. FileOK(f)
  BY <1>2, NoFileOK, Zenon
<1>4. Good(storage)
  <2>1. storage = [m \in Media |-> storage[m]]
    BY <1>2, SMT DEF Media
  <2>2. storage["drv0"] = f /\ storage["crd0"] = NoFile
    BY <1>2, SMT
  <2> QED
    BY <2>1, <2>2, <1>3, NoFileOK, Zenon DEF Good, Media
<1> QED
  BY <1>1, <1>4, OffHolds, Zenon DEF IInv

\* Steps that leave memory and verdict alone disturb only the presses.
LEMMA PoolKept ==
  ASSUME PoolInv, ram' = ram, ld'.header = ld.header, ld'.ran = ld.ran,
         ld'.status = ld.status, ld'.done = ld.done, ld'.stage = ld.stage
  PROVE  PoolInv'
<1>1. StaysInPool'
  BY Zenon DEF PoolInv, StaysInPool
<1>2. Image' = Image
  BY Zenon DEF Image, Address
<1> QED
  BY <1>1, <1>2, Zenon DEF PoolInv, Verified

\* The firmware starts the add-in.
LEMMA LaunchHolds ==
  ASSUME IInv, Launch
  PROVE  IInv'
<1>1. PICK k \in {"none", "ENTER"} :
        ld' = [Off EXCEPT !.stage = "startup", !.key = k]
  BY Zenon DEF Launch
<1>2. LdShape'
  BY <1>1, Zenon DEF LdShape, Off
<1>3. /\ ld'.stage = "startup" /\ ld'.presses = 0
      /\ ld'.released = FALSE /\ ld'.armed = FALSE
  BY <1>1, SMT DEF Off
<1>4. PressInv'
  BY <1>3, SMT DEF PressInv, Stages
<1>5. ram' = ram /\ storage' = storage /\ ram = Untouched
  BY Zenon DEF Launch, IInv, MemoryInv
<1>6. MemoryInv'
  BY <1>3, <1>5, Zenon DEF IInv, MemoryInv, Untouched
<1>7. PoolInv'
  BY <1>3, <1>5, Zenon DEF IInv, PoolInv, StaysInPool, Verified
<1> QED
  BY <1>2, <1>4, <1>5, <1>6, <1>7, Zenon DEF IInv

\* A key goes down or up: a press of ENTER is counted.
LEMMA KeyMovesHolds ==
  ASSUME IInv, KeyMoves
  PROVE  IInv'
<1>1. PICK k \in {"none", "ENTER", "BACK"} :
        /\ k # ld.key /\ (k = "none" \/ ld.key = "none")
        /\ ld' = [ld EXCEPT !.key = k,
                 !.presses = IF k = "ENTER" /\ @ < 3 THEN @ + 1 ELSE @]
  BY Zenon DEF KeyMoves
<1>2. /\ ld.stage \in {"startup", "menu"}
      /\ ram' = ram /\ storage' = storage
  BY Zenon DEF KeyMoves
<1>3. LdShape'
  BY <1>1, Zenon DEF IInv, LdShape
<1>4. /\ ld'.stage = ld.stage /\ ld'.key = k /\ ld'.read = ld.read
      /\ ld'.released = ld.released /\ ld'.armed = ld.armed
      /\ ld'.header = ld.header /\ ld'.ran = ld.ran
      /\ ld'.status = ld.status /\ ld'.done = ld.done
  BY <1>1, Zenon DEF IInv, LdShape
<1>5. ld'.presses = IF k = "ENTER" /\ ld.presses < 3
                    THEN ld.presses + 1 ELSE ld.presses
  BY <1>1, Zenon DEF IInv, LdShape
<1>6. PressInv'
  <2>1. k # ld.key /\ (k = "none" \/ ld.key = "none")
    BY <1>1
  <2>2. PressInv
    BY DEF IInv
  <2>3. /\ ld'.presses \in 0 .. 3
        /\ ld.presses >= 1 => ld'.presses >= 1
        /\ ld.presses >= 2 => ld'.presses >= 2
        /\ k = "ENTER" => ld'.presses >= 1
        /\ k = "ENTER" /\ ld.presses >= 1 => ld'.presses >= 2
        /\ k = "ENTER" /\ ld.presses >= 2 => ld'.presses = 3
    <3>1. ld.presses \in 0 .. 3
      BY <2>2, Zenon DEF PressInv
    <3> QED
      BY <3>1, <1>5, SMT
  <2> QED
    BY <2>1, <2>2, <2>3, <1>2, <1>4, Zenon DEF PressInv, Stages
<1>7. MemoryInv'
  BY <1>2, <1>4, Zenon DEF IInv, MemoryInv, Untouched
<1>8. PoolInv'
  BY <1>2, <1>4, PoolKept, Zenon DEF IInv
<1> QED
  BY <1>2, <1>3, <1>6, <1>7, <1>8, Zenon DEF IInv

\* The first loop of main: the press that goes on to load_payload is counted.
LEMMA StartupHolds ==
  ASSUME IInv, StartupTurn
  PROVE  IInv'
<1> DEFINE released == ld.released \/ ld.key = "none"
<1>1. ld.stage = "startup" /\ storage' = storage /\ MemoryKept /\ ram = Untouched
  BY Zenon DEF StartupTurn, IInv, MemoryInv
<1>2. CASE /\ released /\ Pressed("ENTER")
           /\ ld' = [ld EXCEPT !.read = ld.key, !.released = TRUE, !.stage = "open"]
  <2>1. ld' = [ld EXCEPT !.read = ld.key, !.released = TRUE, !.stage = "open"]
    BY <1>2
  <2>2. LdShape'
    BY <2>1, Zenon DEF IInv, LdShape
  <2>3. /\ ld'.stage = "open" /\ ld'.key = ld.key /\ ld'.read = ld.key
        /\ ld'.armed = ld.armed /\ ld'.presses = ld.presses
    BY <2>1, Zenon DEF IInv, LdShape
  <2>4. ld.key = "ENTER" /\ ld.released
    BY <1>2, Zenon DEF Pressed
  <2>5. ld.presses >= 1
    BY <1>1, <2>4, Zenon DEF IInv, PressInv
  <2>6. PressInv'
    BY <1>1, <2>3, <2>4, <2>5, SMT DEF IInv, PressInv, Stages
  <2>7. ram' = ram
    BY <1>1, <2>3, Zenon DEF MemoryKept
  <2>8. MemoryInv'
    BY <1>1, <2>7, Zenon DEF IInv, MemoryInv, Untouched
  <2>9. PoolInv'
    BY <2>3, <2>7, Zenon DEF IInv, PoolInv, Verified, StaysInPool
  <2> QED
    BY <1>1, <2>2, <2>6, <2>8, <2>9, Zenon DEF IInv
<1>3. CASE ld' = Off
  <2>1. ld'.stage = "off"
    BY <1>3, SMT DEF Off
  <2>2. ram' = Untouched
    BY <1>1, <2>1, Zenon DEF MemoryKept
  <2>3. LdShape' /\ PressInv' /\ MemoryInv' /\ PoolInv'
    BY <1>3, <2>2, OffNext, Zenon
  <2> QED
    BY <1>1, <2>3, Zenon DEF IInv
<1>4. CASE ld' = [ld EXCEPT !.read = ld.key, !.released = released]
  <2>1. LdShape'
    BY <1>4, Zenon DEF IInv, LdShape
  <2>2. /\ ld'.stage = ld.stage /\ ld'.key = ld.key /\ ld'.released = released
        /\ ld'.armed = ld.armed /\ ld'.presses = ld.presses
    BY <1>4, Zenon DEF IInv, LdShape
  <2>3. ld.key = "ENTER" /\ ld'.released => ld.presses >= 1
    <3>1. ld.key = "ENTER" => (released <=> ld.released)
      BY Zenon
    <3> QED
      BY <1>1, <2>2, <3>1, Zenon DEF IInv, PressInv
  <2>4. PressInv'
    BY <1>1, <2>2, <2>3, SMT DEF IInv, PressInv, Stages
  <2>5. ram' = ram
    BY <1>1, <2>2, Zenon DEF MemoryKept
  <2>6. MemoryInv'
    BY <1>1, <2>5, Zenon DEF IInv, MemoryInv, Untouched
  <2>7. PoolInv'
    BY <1>1, <2>2, <2>5, Zenon DEF IInv, PoolInv, Verified, StaysInPool
  <2> QED
    BY <1>1, <2>1, <2>4, <2>6, <2>7, Zenon DEF IInv
<1>5. CASE released /\ Pressed("ENTER")
  <2>1. ~(released /\ Pressed("BACK"))
    BY <1>5, Zenon DEF Pressed
  <2> QED
    BY <1>2, <1>5, <2>1, Zenon DEF StartupTurn
<1>6. CASE ~(released /\ Pressed("ENTER"))
  BY <1>3, <1>4, <1>6, Zenon DEF StartupTurn
<1> QED
  BY <1>5, <1>6, Zenon

\* The checks of load_payload: only a sealed header passes.
LEMMA OpenHolds ==
  ASSUME IInv, OpenPayload
  PROVE  IInv'
<1> DEFINE Status(f) ==
                     IF f = NoFile THEN "NOT_FOUND"
                     ELSE IF ~f.magic THEN "BAD_HEADER"
                     ELSE IF ~InRange(f) THEN "BAD_RANGE"
                     ELSE IF Len(f.body) # f.size THEN "BAD_SIZE"
                     ELSE "none"
<1>0. PICK f \in Contents(open_payload) :
        ld' = [ld EXCEPT !.header = [f EXCEPT !.body = <<>>], !.body = f.body,
                 !.status = Status(f), !.done = 0,
                 !.stage = IF Status(f) = "none" THEN "read" ELSE "menu"]
  BY Zenon DEF OpenPayload
<1> DEFINE status == Status(f)
           h == [f EXCEPT !.body = <<>>]
<1>1. /\ ld.stage = "open" /\ ram' = ram /\ storage' = storage
      /\ ld' = [ld EXCEPT !.header = h, !.body = f.body, !.status = status,
                 !.done = 0, !.stage = IF status = "none" THEN "read" ELSE "menu"]
  BY <1>0, Zenon DEF OpenPayload
<1>2. FileOK(f)
  <2>1. FileOK(open_payload)
    BY Zenon DEF IInv, Good, open_payload, Media
  <2> QED
    BY <2>1, ForeignOK, Zenon DEF Contents
<1>3. status = "none" => f.magic /\ InRange(f)
  <2>1. CASE ~f.magic /\ InRange(f)
    BY <2>1, SMT
  <2>2. CASE ~InRange(f)
    BY <2>2, SMT
  <2> QED
    BY <2>1, <2>2, Zenon
<1>4. status # "OK"
  BY SMT
<1> HIDE DEF status
<1>5. h.load = f.load /\ h.entry = f.entry /\ h.size = f.size /\ h.crc = f.crc
  <2>1. ASSUME NEW g, g = [f EXCEPT !.body = <<>>]
        PROVE  g.load = f.load /\ g.entry = f.entry /\ g.size = f.size
                 /\ g.crc = f.crc
    BY <1>2, <2>1, Zenon DEF FileOK, FileShape
  <2> QED
    BY <2>1, Zenon
<1>6. status = "none" => Sealed(h)
  BY <1>2, <1>3, <1>5, Zenon DEF FileOK, Sealed, InRange
<1> HIDE DEF h
<1>7. LdShape'
  BY <1>1, Zenon DEF IInv, LdShape
<1>8. /\ ld'.stage = (IF status = "none" THEN "read" ELSE "menu")
      /\ ld'.header = h /\ ld'.status = status /\ ld'.done = 0
      /\ ld'.key = ld.key /\ ld'.read = ld.read /\ ld'.armed = ld.armed
      /\ ld'.presses = ld.presses
  BY <1>1, Zenon DEF IInv, LdShape
<1>9. PressInv'
  <2>1. ld'.stage = "read" \/ ld'.stage = "menu"
    BY <1>8, Zenon
  <2>2. PressInv
    BY DEF IInv
  <2>3. ld.stage = "open"
    BY <1>1
  <2>4. /\ ld'.key = ld.key /\ ld'.read = ld.read /\ ld'.armed = ld.armed
        /\ ld'.presses = ld.presses
    BY <1>8
  <2> QED
    BY <2>1, <2>2, <2>3, <2>4, Zenon DEF PressInv, Stages
<1>10. MemoryInv'
  BY <1>1, <1>8, Zenon DEF IInv, MemoryInv
<1>11. PoolInv'
  <2>1. StaysInPool'
    BY <1>1, Zenon DEF IInv, PoolInv, StaysInPool
  <2>2. ld'.done \in Nat
    BY <1>8, SMT
  <2> QED
    BY <1>4, <1>6, <1>8, <2>1, <2>2, Zenon DEF PoolInv, Verified
<1> QED
  BY <1>1, <1>7, <1>9, <1>10, <1>11, Zenon DEF IInv

\* A block is written where a sealed header has its image.
LEMMA ReadBlockHolds ==
  ASSUME IInv, ReadBlock
  PROVE  IInv'
<1> DEFINE a0 == Address(ld.done)
<1>1. /\ ld.stage = "read" /\ ld.done < ld.header.size /\ storage' = storage
      /\ ld' = [ld EXCEPT !.done = @ + 1]
      /\ ram' = [ram EXCEPT ![a0] = ld.body[ld.done + 1]]
  BY Zenon DEF ReadBlock
<1>2. LdShape'
  BY <1>1, Zenon DEF IInv, LdShape
<1>3. /\ ld'.stage = ld.stage /\ ld'.header = ld.header /\ ld'.done = ld.done + 1
      /\ ld'.key = ld.key /\ ld'.read = ld.read /\ ld'.armed = ld.armed
      /\ ld'.presses = ld.presses
  BY <1>1, Zenon DEF IInv, LdShape
<1>4. PressInv'
  BY <1>1, <1>3, Zenon DEF IInv, PressInv, Stages
<1>5. MemoryInv'
  BY <1>1, <1>3, Zenon DEF IInv, MemoryInv
<1>6. Sealed(ld.header) /\ ld.done \in Nat
  BY <1>1, Zenon DEF IInv, PoolInv
<1>7. a0 \in PoolStart .. PoolEnd - 1
  <2>1. /\ ld.header.load \in PoolStart .. PoolEnd - 1
        /\ ld.header.size \in Nat /\ ld.header.size <= PoolEnd - ld.header.load
    BY <1>6, InRangeIs DEF Sealed
  <2>2. ld.header.load + ld.done \in PoolStart .. PoolEnd - 1
    BY <1>1, <1>6, <2>1, LoaderAssumption, SMT
  <2>3. Wrap(ld.header.load + ld.done) = ld.header.load + ld.done
    <3>1. ld.header.load + ld.done \in Nat /\ ld.header.load + ld.done < Top
      BY <2>2, LoaderAssumption, SMT
    <3> QED
      BY <3>1, WrapIs
  <2> QED
    BY <2>2, <2>3 DEF Address
<1>8. StaysInPool'
  BY <1>1, <1>7, Zenon DEF IInv, PoolInv, MemoryInv, StaysInPool
<1>9. ld'.done \in Nat
  BY <1>3, <1>6, SMT
<1>10. PoolInv'
  BY <1>1, <1>3, <1>6, <1>8, <1>9, Zenon DEF PoolInv, Verified
<1> QED
  BY <1>1, <1>2, <1>4, <1>5, <1>10, Zenon DEF IInv

\* A failed read leaves nothing that could be run.
LEMMA ReadFailsHolds ==
  ASSUME IInv, ReadFails
  PROVE  IInv'
<1>1. /\ ld.stage = "read" /\ storage' = storage /\ ram' = ram
      /\ ld' = [ld EXCEPT !.status = "READ_ERROR", !.stage = "menu"]
  BY Zenon DEF ReadFails
<1>2. LdShape'
  BY <1>1, Zenon DEF IInv, LdShape
<1>3. /\ ld'.stage = "menu" /\ ld'.status = "READ_ERROR"
      /\ ld'.key = ld.key /\ ld'.read = ld.read /\ ld'.armed = ld.armed
      /\ ld'.presses = ld.presses
  BY <1>1, Zenon DEF IInv, LdShape
<1>4. PressInv'
  BY <1>1, <1>3, Zenon DEF IInv, PressInv, Stages
<1>5. MemoryInv'
  BY <1>1, <1>3, Zenon DEF IInv, MemoryInv
<1>6. PoolInv'
  BY <1>1, <1>3, Zenon DEF IInv, PoolInv, Verified, StaysInPool
<1> QED
  BY <1>1, <1>2, <1>4, <1>5, <1>6, Zenon DEF IInv

\* A right checksum says that the image is the one the packer summed.
LEMMA ChecksumHolds ==
  ASSUME IInv, Checksum
  PROVE  IInv'
<1>1. /\ ld.stage = "read" /\ storage' = storage /\ ram' = ram
      /\ ld' = [ld EXCEPT !.stage = "menu",
                 !.status = IF Image = ld.header.crc THEN "OK" ELSE "BAD_CRC"]
  BY Zenon DEF Checksum
<1>2. LdShape'
  BY <1>1, Zenon DEF IInv, LdShape
<1>3. /\ ld'.stage = "menu" /\ ld'.header = ld.header
      /\ ld'.status = (IF Image = ld.header.crc THEN "OK" ELSE "BAD_CRC")
      /\ ld'.key = ld.key /\ ld'.read = ld.read /\ ld'.armed = ld.armed
      /\ ld'.presses = ld.presses
  BY <1>1, Zenon DEF IInv, LdShape
<1>4. PressInv'
  BY <1>1, <1>3, Zenon DEF IInv, PressInv, Stages
<1>5. MemoryInv'
  BY <1>1, <1>3, Zenon DEF IInv, MemoryInv
<1>6. Image' = Image
  <2>1. ram' = ram /\ ld'.header = ld.header
    BY <1>1, <1>3
  <2> QED
    BY <2>1, Zenon DEF Image, Address
<1>7. StaysInPool'
  BY <1>1, Zenon DEF IInv, PoolInv, StaysInPool
<1>8. PoolInv'
  <2>1. ld.stage = "read" /\ PoolInv
    BY <1>1 DEF IInv
  <2>2. Sealed(ld.header)
    BY <2>1, Zenon DEF PoolInv
  <2>3. ld'.status = "OK" => Image' = ld'.header.crc
    BY <1>3, <1>6, Zenon
  <2> QED
    BY <2>2, <2>3, <1>3, <1>7, Zenon DEF PoolInv, Verified
<1> QED
  BY <1>1, <1>2, <1>4, <1>5, <1>8, Zenon DEF IInv

\* The second loop of main: arming and running are presses two and three.
LEMMA MenuHolds ==
  ASSUME IInv, MenuTurn
  PROVE  IInv'
<1> DEFINE arm == [ld EXCEPT !.read = ld.key, !.armed = TRUE]
           run == [ld EXCEPT !.read = ld.key, !.armed = FALSE, !.stage = "running"]
           wait == [ld EXCEPT !.read = ld.key]
           enter == ld.status = "OK" /\ Pressed("ENTER")
<1>1. ld.stage = "menu" /\ storage' = storage /\ MemoryKept
  BY Zenon DEF MenuTurn
<1>2. PressInv /\ MemoryInv /\ PoolInv /\ LdShape
  BY Zenon DEF IInv
<1>3. CASE ld' = Off
  <2>1. ld'.stage = "off"
    BY <1>3, SMT DEF Off
  <2>2. ram' = Untouched
    BY <1>1, <2>1, Zenon DEF MemoryKept
  <2>3. LdShape' /\ PressInv' /\ MemoryInv' /\ PoolInv'
    BY <1>3, <2>2, OffNext, Zenon
  <2> QED
    BY <1>1, <2>3, Zenon DEF IInv
<1>4. CASE enter /\ ~ld.armed /\ ld' = arm
  <2>1. LdShape'
    BY <1>2, <1>4, Zenon DEF LdShape
  <2>2. /\ ld'.stage = ld.stage /\ ld'.key = ld.key /\ ld'.read = ld.key
        /\ ld'.presses = ld.presses /\ ld'.header = ld.header
        /\ ld'.ran = ld.ran /\ ld'.status = ld.status /\ ld'.done = ld.done
    BY <1>2, <1>4, Zenon DEF LdShape
  <2>3. ld.presses >= 2
    BY <1>1, <1>2, <1>4, Zenon DEF PressInv, Pressed
  <2>4. PressInv'
    BY <1>1, <1>2, <2>2, <2>3, Zenon DEF PressInv, Stages
  <2>5. ram' = ram
    BY <1>1, <2>2, Zenon DEF MemoryKept
  <2>6. MemoryInv'
    BY <1>1, <1>2, <2>2, <2>5, Zenon DEF MemoryInv
  <2>7. PoolInv'
    BY <1>2, <2>2, <2>5, PoolKept, Zenon
  <2> QED
    BY <1>1, <2>1, <2>4, <2>6, <2>7, Zenon DEF IInv
<1>5. CASE enter /\ ld.armed /\ ld' = run
  <2>1. LdShape'
    BY <1>2, <1>5, Zenon DEF LdShape
  <2>2. /\ ld'.stage = "running" /\ ld'.presses = ld.presses
        /\ ld'.header = ld.header /\ ld'.ran = ld.ran
        /\ ld'.status = ld.status /\ ld'.done = ld.done
    BY <1>2, <1>5, Zenon DEF LdShape
  <2>3. ld.presses = 3
    BY <1>1, <1>2, <1>5, Zenon DEF PressInv, Pressed
  <2>4. PressInv'
    BY <2>2, <2>3, SMT DEF PressInv, Stages
  <2>5. ram' = ram
    BY <1>1, <2>2, Zenon DEF MemoryKept
  <2>6. MemoryInv'
    BY <1>2, <2>2, <2>5, Zenon DEF MemoryInv
  <2>7. ld'.status = "OK" /\ Verified /\ Verified'
    BY <1>1, <1>5, <2>2, Zenon DEF Verified
  <2>8. StaysInPool' /\ Image' = Image
    BY <1>2, <2>2, <2>5, Zenon DEF PoolInv, StaysInPool, Image, Address
  <2>9. PoolInv'
    BY <1>2, <2>2, <2>7, <2>8, Zenon DEF PoolInv
  <2> QED
    BY <1>1, <2>1, <2>4, <2>6, <2>9, Zenon DEF IInv
<1>6. CASE ld' = wait
  <2>1. LdShape'
    BY <1>2, <1>6, Zenon DEF LdShape
  <2>2. /\ ld'.stage = ld.stage /\ ld'.key = ld.key /\ ld'.read = ld.key
        /\ ld'.armed = ld.armed
        /\ ld'.presses = ld.presses /\ ld'.header = ld.header
        /\ ld'.ran = ld.ran /\ ld'.status = ld.status /\ ld'.done = ld.done
    BY <1>2, <1>6, Zenon DEF LdShape
  <2>4. PressInv'
    BY <1>1, <1>2, <2>2, Zenon DEF PressInv, Stages
  <2>5. ram' = ram
    BY <1>1, <2>2, Zenon DEF MemoryKept
  <2>6. MemoryInv'
    BY <1>1, <1>2, <2>2, <2>5, Zenon DEF MemoryInv
  <2>7. PoolInv'
    BY <1>2, <2>2, <2>5, PoolKept, Zenon
  <2> QED
    BY <1>1, <2>1, <2>4, <2>6, <2>7, Zenon DEF IInv
<1>7. CASE ld.key = "BACK"
  <2>1. ~enter
    BY <1>7, Zenon DEF Pressed
  <2> QED
    BY <1>3, <1>7, <2>1, Zenon DEF MenuTurn
<1>8. CASE ld.key # "BACK" /\ ~enter
  BY <1>6, <1>8, Zenon DEF MenuTurn
<1>9. CASE ld.key # "BACK" /\ enter
  <2>1. ld' = IF ~ld.armed THEN arm ELSE run
    BY <1>9, Zenon DEF MenuTurn
  <2> QED
    BY <1>4, <1>5, <1>9, <2>1, Zenon
<1> QED
  BY <1>7, <1>8, <1>9, Zenon

\* A payload that returns has used its own image only.
LEMMA PayloadEndsHolds ==
  ASSUME IInv, PayloadEnds
  PROVE  IInv'
<1> DEFINE used == ld.header.load .. ld.header.load + ld.header.size - 1
<1>1. ld.stage = "running" /\ storage' = storage
  BY Zenon DEF PayloadEnds
<1>2. PressInv /\ MemoryInv /\ PoolInv /\ LdShape
  BY Zenon DEF IInv
<1>3. CASE ld' = Off /\ ram' = Untouched
  <2>1. LdShape' /\ PressInv' /\ MemoryInv' /\ PoolInv'
    BY <1>3, OffNext, Zenon
  <2> QED
    BY <1>1, <2>1, Zenon DEF IInv
<1>4. CASE /\ ld' = [ld EXCEPT !.stage = "menu", !.ran = TRUE]
           /\ ram' = [a \in 0 .. Top - 1 |->
                        IF a \in used THEN <<"used">> ELSE ram[a]]
  <2>1. LdShape'
    BY <1>2, <1>4, Zenon DEF LdShape
  <2>2. /\ ld'.stage = "menu" /\ ld'.presses = ld.presses
        /\ ld'.header = ld.header /\ ld'.status = ld.status
    BY <1>2, <1>4, Zenon DEF LdShape
  <2>3. ld'.ran
    BY <1>2, <1>4, Zenon DEF LdShape
  <2>4. ld.presses = 3
    BY <1>1, <1>2, Zenon DEF PressInv
  <2>5. PressInv'
    BY <2>2, <2>4, SMT DEF PressInv, Stages
  <2>6. MemoryInv'
    BY <1>4, <2>2, Zenon DEF MemoryInv
  <2>7. Sealed(ld.header)
    BY <1>1, <1>2, Zenon DEF PoolInv, Verified
  <2>8. used \subseteq PoolStart .. PoolEnd - 1
    <3>1. /\ ld.header.load \in PoolStart .. PoolEnd - 1
          /\ ld.header.size \in Nat /\ ld.header.size <= PoolEnd - ld.header.load
      BY <2>7, InRangeIs DEF Sealed
    <3> QED
      BY <3>1, LoaderAssumption, SMT
  <2>9. StaysInPool'
    BY <1>2, <1>4, <2>8, Zenon DEF StaysInPool, PoolInv
  <2>10. PoolInv'
    BY <2>2, <2>3, <2>7, <2>9, Zenon DEF PoolInv, Verified
  <2> QED
    BY <1>1, <2>1, <2>5, <2>6, <2>10, Zenon DEF IInv
<1> QED
  BY <1>3, <1>4, Zenon DEF PayloadEnds

-----------------------------------------------------------------------------
(* The theorems.                                                           *)

\* Steps of the tool.
LEMMA QuietHolds ==
  ASSUME IInv, ram' = ram, ld' = ld, Good(storage')
  PROVE  IInv'
<1>1. LdShape' /\ PressInv' /\ MemoryInv'
  BY Zenon DEF IInv, LdShape, PressInv, MemoryInv, Untouched
<1>2. StaysInPool' /\ Image' = Image
  BY Zenon DEF IInv, PoolInv, StaysInPool, Image, Address
<1>3. PoolInv'
  BY <1>2, Zenon DEF IInv, PoolInv, Verified
<1> QED
  BY <1>1, <1>3, Zenon DEF IInv

\* Every step of tool and loader keeps the invariant.
LEMMA NextHolds ==
  ASSUME IInv, [Next]_vars
  PROVE  IInv'
<1>1. CASE UNCHANGED vars
  BY <1>1, QuietHolds, Zenon DEF vars, loaderVars, IInv
<1>2. CASE Call
  BY <1>2, CallQuiet, CallStores, QuietHolds, Zenon DEF IInv
<1>3. CASE HandleEvents \/ Stall \/ Between \/ Command \/ do_events \/ Unplug
             \/ Replug \/ interactive
  BY <1>3, ToolQuiet, QuietHolds, Zenon DEF IInv
<1>4. CASE AtDevice
  BY <1>4, LaunchHolds, KeyMovesHolds, StartupHolds, OpenHolds, ReadBlockHolds,
     ReadFailsHolds, ChecksumHolds, MenuHolds, PayloadEndsHolds, Zenon
     DEF AtDevice, LoaderNext
<1> QED
  BY <1>1, <1>2, <1>3, <1>4, Zenon DEF Next

\* The loader's state, the memory it writes and the files that the transfer tool
\* leaves on the media keep IInv, whatever transfers are interrupted.
THEOREM LoaderInductive == Spec => []IInv
<1>1. Init => IInv
  BY InitHolds
<1>2. IInv /\ [Next]_vars => IInv'
  BY NextHolds
<1> QED
  BY <1>1, <1>2, PTL DEF Spec

\* execute_payload passes control only to a whole build or a whole file from
\* elsewhere, with the entry point in it, for every pool, payload size, set of
\* builds and sequence of transfers: RunsWholeBuild.
THEOREM AlwaysWholeBuild == Spec => []RunsWholeBuild
<1>1. IInv => RunsWholeBuild
  <2> SUFFICES ASSUME IInv, ld.stage = "running", ~ld.ran
               PROVE  /\ \/ \E v \in Versions : Image = Blocks(v, PayloadSize)
                         \/ Image = Blocks("x", ld.header.size)
                      /\ ld.header.entry \in
                           ld.header.load .. ld.header.load + ld.header.size - 1
    BY Zenon DEF RunsWholeBuild
  <2>1. Sealed(ld.header) /\ Image = ld.header.crc
    BY Zenon DEF IInv, PoolInv, Verified
  <2>2. /\ ld.header.size \in Nat /\ ld.header.size # 0
        /\ ld.header.entry \in ld.header.load .. ld.header.load + ld.header.size - 1
    BY <2>1, InRangeIs DEF Sealed
  <2>3. Image # <<>>
    <3>1. DOMAIN Image = 1 .. ld.header.size /\ 1 \in 1 .. ld.header.size
      BY <2>2, SMT DEF Image
    <3>2. DOMAIN <<>> = {}
      BY SMT
    <3> QED
      BY <3>1, <3>2, Zenon
  <2> QED
    BY <2>1, <2>2, <2>3, Zenon DEF Sealed
<1> QED
  BY <1>1, LoaderInductive, PTL

\* load_payload writes nothing outside the staging pool, whatever load address,
\* size and entry the header of a file asks for: StaysInPool.
THEOREM AlwaysInPool == Spec => []StaysInPool
<1>1. IInv => StaysInPool
  BY Zenon DEF IInv, PoolInv
<1> QED
  BY <1>1, LoaderInductive, PTL

\* A payload runs only after three presses of ENTER, and memory is untouched
\* before the first: PressesCounted.
THEOREM AlwaysThreePresses == Spec => []PressesCounted
<1>1. IInv => PressesCounted
  <2> SUFFICES ASSUME IInv PROVE PressesCounted
    OBVIOUS
  <2>1. ld.stage = "running" => ld.presses = 3
    BY Zenon DEF IInv, PressInv
  <2>2. ASSUME ld.stage # "off", ld.presses = 0
        PROVE  \A a \in 0 .. Top - 1 : ram[a] = <<>>
    <3>1. ~(ld.presses >= 1)
      BY <2>2, SMT
    <3>2. ld.stage = "startup"
      BY <2>2, <3>1, Zenon DEF IInv, PressInv, Stages
    <3>3. ram = Untouched
      BY <3>2, Zenon DEF IInv, MemoryInv
    <3> QED
      BY <3>3, Zenon DEF Untouched
  <2> QED
    BY <2>1, <2>2, Zenon DEF PressesCounted
<1> QED
  BY <1>1, LoaderInductive, PTL
-----------------------------------------------------------------------------
(* Scripts.  A step of a command does the first call and skips over some    *)
(* of the following ones: what is said of a script has to stay true of what *)
(* is left of it, and to follow from the parts it is put together from.     *)

Names == Media \cup {"A", "NULL"}

\* A path on the device, and NULL where the prompt knows of none.
Rooted(p) == p = <<>> \/ p[1] \in Attached
Paths == {p \in Seq(Names) : Len(p) <= 2 /\ (p = Null \/ Rooted(p))}

Ops(F) == [f : F, p : Paths, mk : BOOLEAN, okskip : Nat, badskip : Nat]
Scripts(F) == Seq(Ops(F))

\* The calls of every command, and those of only some of them.
Common == {"setpath", "scan", "list", "cards", "crash", "find", "lock", "cname",
           "cryptkey", "ifok", "local", "upload", "download", "capacity", "challenge",
           "userid", "authno", "model", "delete", "send"}
Work == Common \cup {"_setpath", "unlock", "remove", "newkey", "authinfo", "authok",
                     "format"}

\* No call skips past the end, or past the m calls that follow.
Over(t, m) ==
  \A j \in 1 .. Len(t) : /\ j + t[j].okskip <= Len(t) + m
                         /\ j + t[j].badskip <= Len(t) + m
Inside(t) == Over(t, 0)

\* A call that skips nothing.
Zero(o) == o.okskip = 0 /\ o.badskip = 0

\* The parts of a concatenation.
LEMMA Joined ==
  ASSUME NEW S, NEW a \in Seq(S), NEW b \in Seq(S)
  PROVE  /\ a \o b \in Seq(S) /\ Len(a \o b) = Len(a) + Len(b)
         /\ Len(a) \in Nat /\ Len(b) \in Nat
         /\ \A i \in 1 .. Len(a) : (a \o b)[i] = a[i]
         /\ \A i \in 1 .. Len(b) : (a \o b)[Len(a) + i] = b[i]
         /\ \A i \in 1 .. Len(a) + Len(b) :
              \/ i \in 1 .. Len(a) /\ (a \o b)[i] = a[i]
              \/ i - Len(a) \in 1 .. Len(b) /\ (a \o b)[i] = b[i - Len(a)]
<1>1. a \o b \in Seq(S) /\ Len(a \o b) = Len(a) + Len(b)
  BY ConcatProperties, Zenon
<1>2. Len(a) \in Nat /\ Len(b) \in Nat
  OBVIOUS
<1>3. \A i \in 1 .. Len(a) : (a \o b)[i] = a[i]
  OBVIOUS
<1>4. \A i \in 1 .. Len(b) : (a \o b)[Len(a) + i] = b[i]
  OBVIOUS
<1>5. \A i \in 1 .. Len(a) + Len(b) :
        \/ i \in 1 .. Len(a) /\ (a \o b)[i] = a[i]
        \/ i - Len(a) \in 1 .. Len(b) /\ (a \o b)[i] = b[i - Len(a)]
  OBVIOUS
<1>6. QED
  BY <1>1, <1>2, <1>3, <1>4, <1>5

\* A call of one kind is one of more kinds.
LEMMA Wider ==
  ASSUME NEW F, NEW G, F \subseteq G, NEW t \in Scripts(F)
  PROVE  t \in Scripts(G)
<1>1. Ops(F) \subseteq Ops(G)
  BY Zenon DEF Ops
<1> DEFINE R == Ops(F)
           Q == Ops(G)
<1>2. t \in Seq(R) /\ R \subseteq Q
  BY <1>1 DEF Scripts
<1> HIDE DEF R, Q
<1>3. t \in Seq(Q)
  BY <1>2
<1>4. QED
  BY <1>3 DEF Scripts, Q

\* The calls of a script.
LEMMA CallIn ==
  ASSUME NEW F, NEW t \in Scripts(F), NEW i \in 1 .. Len(t)
  PROVE  /\ t[i] \in Ops(F) /\ t[i].f \in F /\ t[i].p \in Paths
         /\ t[i].okskip \in Nat /\ t[i].badskip \in Nat
<1> DEFINE R == Ops(F)
<1>1. t \in Seq(R)
  BY DEF Scripts
<1>2. t[i] \in R
  <2> HIDE DEF R
  <2>1. QED
    BY <1>1
<1>3. QED
  BY <1>2, Zenon DEF Ops

\* A part of a script, which skips at most m calls behind it.
Piece(F, m, t) == t \in Scripts(F) /\ Over(t, m)

\* A part that stays inside itself stays so with more behind it.
LEMMA PieceLonger ==
  ASSUME NEW F, NEW t, Piece(F, 0, t), NEW m \in Nat
  PROVE  Piece(F, m, t)
<1>1. t \in Scripts(F) /\ Len(t) \in Nat
  BY DEF Piece, Scripts
<1>2. ASSUME NEW j \in 1 .. Len(t)
      PROVE  j + t[j].okskip <= Len(t) + m /\ j + t[j].badskip <= Len(t) + m
  <2> DEFINE x == t[j].okskip
             y == t[j].badskip
  <2>1. x \in Nat /\ y \in Nat
    BY <1>1, CallIn, Zenon
  <2>2. j + x <= Len(t) + 0 /\ j + y <= Len(t) + 0
    BY Zenon DEF Piece, Over
  <2> HIDE DEF x, y
  <2>3. j + x <= Len(t) + m /\ j + y <= Len(t) + m
    BY <2>1, <2>2, <1>1
  <2>4. QED
    BY <2>3 DEF x, y
<1>3. QED
  BY <1>1, <1>2, Zenon DEF Piece, Over

\* Two parts, of which the first skips at most over the second.
LEMMA PieceJoined ==
  ASSUME NEW F, NEW a, NEW b, NEW k \in Nat, NEW m \in Nat, Piece(F, k, a),
         Piece(F, m, b), k <= Len(b) + m
  PROVE  Piece(F, m, a \o b)
<1> DEFINE R == Ops(F)
           t == a \o b
           la == Len(a)
           lb == Len(b)
<1>1. a \in Seq(R) /\ b \in Seq(R)
  BY DEF Scripts, Piece
<1> HIDE DEF R
<1>2. /\ t \in Seq(R) /\ Len(t) = la + lb /\ la \in Nat /\ lb \in Nat
      /\ \A i \in 1 .. la + lb :
              \/ i \in 1 .. la /\ t[i] = a[i]
              \/ i - la \in 1 .. lb /\ t[i] = b[i - la]
  BY <1>1, Joined
<1>3. t \in Scripts(F)
  BY <1>2 DEF Scripts, R
<1> HIDE DEF t
<1>4. ASSUME NEW i \in 1 .. Len(t)
      PROVE  i + t[i].okskip <= Len(t) + m /\ i + t[i].badskip <= Len(t) + m
  <2> DEFINE x == t[i].okskip
             y == t[i].badskip
  <2>1. x \in Nat /\ y \in Nat
    BY <1>3, CallIn, Zenon
  <2>2. CASE i \in 1 .. la /\ t[i] = a[i]
    <3>1. i + x <= la + k /\ i + y <= la + k
      BY <2>2, Zenon DEF Piece, Over
    <3> HIDE DEF x, y
    <3>2. i + x <= Len(t) + m /\ i + y <= Len(t) + m
      BY <2>1, <3>1, <1>2
    <3>3. QED
      BY <3>2 DEF x, y
  <2>3. CASE i - la \in 1 .. lb /\ t[i] = b[i - la]
    <3>1. i - la + x <= lb + m /\ i - la + y <= lb + m
      BY <2>3, Zenon DEF Piece, Over
    <3> HIDE DEF x, y
    <3>2. i + x <= Len(t) + m /\ i + y <= Len(t) + m
      BY <2>1, <3>1, <1>2
    <3>3. QED
      BY <3>2 DEF x, y
  <2>4. i \in 1 .. la + lb
    BY <1>2
  <2>5. QED
    BY <1>2, <2>2, <2>3, <2>4, Zenon
<1>5. QED
  BY <1>3, <1>4, Zenon DEF Piece, Over, t

\* Two parts that stay inside themselves.
LEMMA InsideJoined ==
  ASSUME NEW F, NEW a, NEW b, Piece(F, 0, a), Piece(F, 0, b)
  PROVE  Piece(F, 0, a \o b)
<1>1. b \in Scripts(F)
  BY DEF Piece
<1>2. Len(b) \in Nat
  BY <1>1 DEF Scripts
<1>3. 0 <= Len(b) + 0 /\ 0 \in Nat
  BY <1>2
<1>4. QED
  BY <1>3, PieceJoined, Zenon

\* The calls the scripts are made of.
LEMMA OneCall ==
  ASSUME NEW F, NEW f \in F, NEW p \in Paths, NEW mk \in BOOLEAN
  PROVE  /\ Op(f, p, mk, 0, 0) \in Ops(F) /\ Zero(Op(f, p, mk, 0, 0))
         /\ Op(f, p, mk, 0, 0).f = f /\ Op(f, p, mk, 0, 0).p = p
         /\ Do(f) \in Ops(F) /\ Zero(Do(f)) /\ Do(f).f = f
         /\ "setpath" \in F =>
              /\ Path(p) \in Ops(F) /\ Zero(Path(p)) /\ Path(p).f = "setpath"
              /\ Path(p).p = p
<1>1. <<>> \in Paths /\ 0 \in Nat /\ FALSE \in BOOLEAN
  BY DEF Paths, Rooted
<1>2. \A g \in F, q \in Paths, b \in BOOLEAN :
         /\ Op(g, q, b, 0, 0) \in Ops(F) /\ Zero(Op(g, q, b, 0, 0))
         /\ Op(g, q, b, 0, 0).f = g /\ Op(g, q, b, 0, 0).p = q
  BY <1>1, Zenon DEF Op, Ops, Zero
<1>3. QED
  BY <1>1, <1>2, Zenon DEF Do, Path

\* Up to three of them make a part.
LEMMA FewCalls ==
  ASSUME NEW F
  PROVE  /\ Piece(F, 0, <<>>)
         /\ \A x \in Ops(F) : Zero(x) => Piece(F, 0, <<x>>)
         /\ \A x, y \in Ops(F) : Zero(x) /\ Zero(y) => Piece(F, 0, <<x, y>>)
         /\ \A x, y, z \in Ops(F) : Zero(x) /\ Zero(y) /\ Zero(z) =>
              Piece(F, 0, <<x, y, z>>)
<1> DEFINE R == Ops(F)
<1>1. \A x \in R : Zero(x) => x.okskip = 0 /\ x.badskip = 0
  BY DEF Zero
<1> HIDE DEF R
<1>2. <<>> \in Seq(R) /\ Over(<<>>, 0)
  BY DEF Over
<1>3. ASSUME NEW x \in R, Zero(x)
      PROVE  <<x>> \in Seq(R) /\ Over(<<x>>, 0)
  BY <1>1, <1>3 DEF Over
<1>4. ASSUME NEW x \in R, NEW y \in R, Zero(x), Zero(y)
      PROVE  <<x, y>> \in Seq(R) /\ Over(<<x, y>>, 0)
  BY <1>1, <1>4 DEF Over
<1>5. ASSUME NEW x \in R, NEW y \in R, NEW z \in R, Zero(x), Zero(y), Zero(z)
      PROVE  <<x, y, z>> \in Seq(R) /\ Over(<<x, y, z>>, 0)
  BY <1>1, <1>5 DEF Over
<1>6. QED
  BY <1>2, <1>3, <1>4, <1>5, Zenon DEF Piece, Scripts, R

\* What is done only after a success, or only after a failure.
LEMMA Guarded ==
  ASSUME NEW F, NEW o \in Ops(F), Zero(o), NEW m \in Nat, NEW rest,
         Piece(F, m, rest)
  PROVE  Piece(F, m, IfGood(o, rest)) /\ Piece(F, m, IfBad(o, rest))
<1> DEFINE n == Len(rest)
           g == [o EXCEPT !.badskip = n]
           b == [o EXCEPT !.okskip = n]
           R == Ops(F)
<1>1. n \in Nat /\ rest \in Seq(R)
  BY DEF Piece, Scripts
<1>2. /\ g \in R /\ g.badskip = n /\ g.okskip = 0
      /\ b \in R /\ b.okskip = n /\ b.badskip = 0
  <2> HIDE DEF n
  <2>1. QED
    BY <1>1, Zenon DEF Ops, Zero
<1>3. ASSUME NEW x \in R, x.okskip \in {0, n}, x.badskip \in {0, n}
      PROVE  Piece(F, m, <<x>> \o rest)
  <2> HIDE DEF R
  <2>1. <<x>> \in Seq(R) /\ Len(<<x>>) = 1 /\ <<x>>[1] = x
    OBVIOUS
  <2>2. Over(<<x>>, n)
    BY <1>1, <1>3, <2>1 DEF Over
  <2>3. Piece(F, n, <<x>>)
    BY <2>1, <2>2, Zenon DEF Piece, Scripts, R
  <2>4. n <= Len(rest) + m
    BY <1>1
  <2>5. QED
    BY <2>3, <2>4, <1>1, PieceJoined, Zenon
<1>4. Piece(F, m, <<g>> \o rest) /\ Piece(F, m, <<b>> \o rest)
  <2> HIDE DEF g, b, R, n
  <2>1. QED
    BY <1>2, <1>3, Zenon
<1>5. QED
  BY <1>4, Zenon DEF IfGood, IfBad

\* What is left after the first call and n more.
Left(t, n) == SubSeq(t, 2 + n, Len(t))

\* What is left is a script again: its calls are those of the one before,
\* further on.
LEMMA LeftIs ==
  ASSUME NEW F, NEW t \in Scripts(F), t # <<>>, NEW n \in Nat
  PROVE  /\ Left(t, n) \in Scripts(F)
         /\ Len(t) \in Nat /\ Len(t) >= 1 /\ Len(Left(t, n)) \in Nat
         /\ \A i \in 1 .. Len(Left(t, n)) :
              i + 1 + n \in 1 .. Len(t) /\ Left(t, n)[i] = t[i + 1 + n]
         /\ \A i \in 1 .. Len(t) : i - 1 - n >= 1 =>
              /\ i - 1 - n \in 1 .. Len(Left(t, n))
              /\ Left(t, n)[i - 1 - n] = t[i]
         /\ Len(t) > 1 + n => Len(Left(t, n)) = Len(t) - 1 - n
         /\ Len(t) <= 1 + n => Left(t, n) = <<>>
<1> DEFINE R == Ops(F)
           u == Left(t, n)
<1>1. t \in Seq(R)
  BY DEF Scripts
<1> HIDE DEF R
<1>2. Len(t) \in Nat /\ Len(t) >= 1
  BY <1>1
<1>3. CASE Len(t) <= 1 + n
  <2>1. u = <<>>
    BY <1>1, <1>2, <1>3 DEF Left
  <2>2. u \in Seq(R) /\ Len(u) = 0
    BY <2>1
  <2> HIDE DEF u
  <2>3. QED
    BY <1>2, <1>3, <2>1, <2>2 DEF Scripts, R, u
<1>4. CASE ~(Len(t) <= 1 + n)
  <2>1. 2 + n \in 1 .. Len(t) + 1 /\ Len(t) \in (2 + n) - 1 .. Len(t)
    BY <1>2, <1>4
  <2>2. /\ u \in Seq(R) /\ Len(u) = Len(t) - (2 + n) + 1
        /\ \A i \in 1 .. Len(t) - (2 + n) + 1 : u[i] = t[(2 + n) + i - 1]
    BY <1>1, <2>1, SubSeqProperties DEF Left
  <2> HIDE DEF u
  <2>3. Len(u) = Len(t) - 1 - n /\ Len(u) \in Nat
    BY <2>2, <1>2, <1>4
  <2>4. ASSUME NEW i \in 1 .. Len(u)
        PROVE  i + 1 + n \in 1 .. Len(t) /\ u[i] = t[i + 1 + n]
    <3>1. i \in 1 .. Len(t) - (2 + n) + 1 /\ (2 + n) + i - 1 = i + 1 + n
      BY <2>3, <2>4, <1>2
    <3>2. QED
      BY <3>1, <2>2, <2>3, <2>4, <1>2
  <2>5. ASSUME NEW i \in 1 .. Len(t), i - 1 - n >= 1
        PROVE  i - 1 - n \in 1 .. Len(u) /\ u[i - 1 - n] = t[i]
    <3>1. i - 1 - n \in 1 .. Len(u) /\ (i - 1 - n) + 1 + n = i
      BY <2>3, <2>5, <1>2
    <3>2. QED
      BY <3>1, <2>4
  <2>6. QED
    BY <1>2, <1>4, <2>2, <2>3, <2>4, <2>5 DEF Scripts, R, u
<1>5. QED
  BY <1>3, <1>4

\* The lock is taken again after every unlock: nothing skips over it.
Ahead(t, k) ==
  \E i \in 1 .. Len(t) :
    /\ i > k /\ t[i].f = "lock"
    /\ \A j \in 1 .. Len(t) : k <= j /\ j < i =>
         j + t[j].okskip < i /\ j + t[j].badskip < i
LockAhead(t) == Ahead(t, 0)
UnlockSafe(t) == \A k \in 1 .. Len(t) : t[k].f = "unlock" => Ahead(t, k)

\* content_auth returns 1 only after its first challenge: a call before it
\* skips nothing, or everything when it fails.
NoAuthOk(t) == \A i \in 1 .. Len(t) : t[i].f # "authok"
Passes(t, l) ==
  /\ t[l].okskip = 0
  /\ \/ t[l].badskip = 0
     \/ \A i \in 1 .. Len(t) : t[i].f = "authok" => i <= l + t[l].badskip
AuthGuarded(t) ==
  \/ NoAuthOk(t)
  \/ \E j \in 1 .. Len(t) :
       /\ t[j].f = "challenge"
       /\ \A l \in 1 .. Len(t) : l < j => Passes(t, l)
       /\ \A i \in 1 .. Len(t) : t[i].f = "authok" => j < i /\ i <= j + t[j].badskip

\* The way of content_auth to the medium it may reset: the call k - 1 places
\* before the reset.
Way(o, k) ==
  /\ k = 2 => o.f = "challenge" /\ o.okskip = 1
  /\ k = 3 => o.f = "setpath" /\ o.p = <<"crd0">> /\ "crd0" \in Cards /\ Zero(o)
  /\ k = 4 => o.f = "ifok" /\ o.okskip = 0 /\ o.badskip >= 3
  /\ k = 5 => o.f = "crash"
  /\ k = 6 => o.f = "cards" /\ o.okskip = 1 /\ o.badskip = 0
  /\ k = 7 => o.f = "setpath" /\ o.p = <<>> /\ Zero(o)
  /\ k = 8 => o.f = "challenge" /\ o.okskip = 0 /\ o.badskip >= 7
  /\ k = 9 => o.f = "setpath" /\ Zero(o)
  /\ k = 10 => o.f = "download" /\ o.okskip = 0 /\ o.badskip >= 9
ResetAt(t, i) == i <= 10 /\ \A k \in 2 .. i : Way(t[i + 1 - k], k)
ResetsCard(t) == \A i \in 1 .. Len(t) : t[i].f = "authinfo" => ResetAt(t, i)

\* The calls that only some commands make.
CallsOf(t, c) ==
  \A i \in 1 .. Len(t) : /\ t[i].f = "remove" => c = "remove"
                         /\ t[i].f = "newkey" => c = "reset"
                         /\ t[i].f = "authinfo" => c \in {"auth", "reset"}
                         /\ t[i].f = "format" => c = "format"

\* Skipping over anything leaves every unlock with its lock.
LEMMA UnlockSafeLeft ==
  ASSUME NEW F, NEW t \in Scripts(F), t # <<>>, NEW n \in Nat, UnlockSafe(t)
  PROVE  UnlockSafe(Left(t, n))
<1> DEFINE u == Left(t, n)
<1>1. /\ Len(t) \in Nat /\ Len(u) \in Nat
      /\ \A i \in 1 .. Len(u) : i + 1 + n \in 1 .. Len(t) /\ u[i] = t[i + 1 + n]
      /\ \A i \in 1 .. Len(t) : i - 1 - n >= 1 =>
           i - 1 - n \in 1 .. Len(u) /\ u[i - 1 - n] = t[i]
  BY LeftIs, ZenonT(60)
<1> HIDE DEF u
<1>2. ASSUME NEW k \in 1 .. Len(u), u[k].f = "unlock"
      PROVE  Ahead(u, k)
  <2> DEFINE m == k + 1 + n
  <2>1. m \in 1 .. Len(t) /\ t[m].f = "unlock"
    BY <1>1, <1>2, Zenon
  <2>2. Ahead(t, m)
    BY <2>1, Zenon DEF UnlockSafe
  <2>3. PICK i \in 1 .. Len(t) :
          /\ i > m /\ t[i].f = "lock"
          /\ \A j \in 1 .. Len(t) : m <= j /\ j < i =>
               j + t[j].okskip < i /\ j + t[j].badskip < i
    BY <2>2, Zenon DEF Ahead
  <2> DEFINE h == i - 1 - n
  <2>4. h >= 1 /\ h > k /\ h \in Int
    BY <2>3, <1>1
  <2>5. h \in 1 .. Len(u) /\ u[h].f = "lock"
    BY <2>3, <2>4, <1>1, Zenon
  <2>6. ASSUME NEW j \in 1 .. Len(u), k <= j, j < h
        PROVE  j + u[j].okskip < h /\ j + u[j].badskip < h
    <3> DEFINE g == j + 1 + n
    <3>1. g \in 1 .. Len(t) /\ u[j] = t[g]
      BY <2>6, <1>1, Zenon
    <3>2. m <= g /\ g < i
      BY <2>6, <1>1
    <3>3. g + t[g].okskip < i /\ g + t[g].badskip < i
      BY <3>1, <3>2, <2>3, Zenon
    <3>4. t[g].okskip \in Nat /\ t[g].badskip \in Nat
      BY <3>1, CallIn, Zenon
    <3> DEFINE x == t[g].okskip
               y == t[g].badskip
    <3> HIDE DEF x, y
    <3>5. j + x < h /\ j + y < h
      BY <3>3, <3>4, <2>3, <2>6, SMTT(30)
         DEF x, y
    <3>6. QED
      BY <3>1, <3>5, Zenon DEF x, y
  <2> HIDE DEF h
  <2>7. QED
    BY <2>4, <2>5, <2>6, Zenon DEF Ahead
<1>3. QED
  BY <1>2, Zenon DEF UnlockSafe, u

\* An unlock that comes first has its lock ahead.
LEMMA UnlockFirst ==
  ASSUME NEW t, Len(t) \in Nat, Len(t) >= 1, UnlockSafe(t), t[1].f = "unlock"
  PROVE  LockAhead(t)
<1>1. 1 \in 1 .. Len(t)
  OBVIOUS
<1>2. Ahead(t, 1)
  BY <1>1, Zenon DEF UnlockSafe
<1>3. PICK i \in 1 .. Len(t) :
        /\ i > 1 /\ t[i].f = "lock"
        /\ \A j \in 1 .. Len(t) : 1 <= j /\ j < i =>
             j + t[j].okskip < i /\ j + t[j].badskip < i
  BY <1>2, Zenon DEF Ahead
<1>4. i > 0 /\ \A j \in 1 .. Len(t) : 1 <= j
  BY <1>3
<1>5. QED
  BY <1>3, <1>4, Zenon DEF LockAhead, Ahead

\* No call skips over the lock ahead.
LEMMA AheadLeft ==
  ASSUME NEW F, NEW t \in Scripts(F), t # <<>>, LockAhead(t), t[1].f # "lock",
         NEW n \in {0, t[1].okskip, t[1].badskip}
  PROVE  n \in Nat /\ LockAhead(Left(t, n))
<1>0. Len(t) \in Nat /\ Len(t) >= 1
  BY DEF Scripts
<1>1. t[1].okskip \in Nat /\ t[1].badskip \in Nat
  <2>1. 1 \in 1 .. Len(t)
    BY <1>0
  <2>2. QED
    BY <2>1, CallIn, Zenon
<1>2. n \in Nat
  BY <1>1
<1> DEFINE u == Left(t, n)
<1>3. /\ Len(t) \in Nat /\ Len(u) \in Nat
      /\ \A i \in 1 .. Len(u) : i + 1 + n \in 1 .. Len(t) /\ u[i] = t[i + 1 + n]
      /\ \A i \in 1 .. Len(t) : i - 1 - n >= 1 =>
           i - 1 - n \in 1 .. Len(u) /\ u[i - 1 - n] = t[i]
  BY <1>2, LeftIs, ZenonT(60)
<1> HIDE DEF u
<1>4. PICK i \in 1 .. Len(t) :
        /\ i > 0 /\ t[i].f = "lock"
        /\ \A j \in 1 .. Len(t) : 0 <= j /\ j < i =>
             j + t[j].okskip < i /\ j + t[j].badskip < i
  BY Zenon DEF LockAhead, Ahead
<1>5. i # 1
  BY <1>4
<1>6. 1 \in 1 .. Len(t) /\ 0 <= 1 /\ 1 < i /\ 1 + 0 < i
  BY <1>0, <1>4, <1>5
<1>7. 1 + n < i
  BY <1>4, <1>6, Zenon
<1> DEFINE h == i - 1 - n
<1>8. h >= 1 /\ h > 0 /\ h \in Int
  BY <1>2, <1>4, <1>7
<1>9. h \in 1 .. Len(u) /\ u[h].f = "lock"
  BY <1>3, <1>4, <1>8, Zenon
<1>10. ASSUME NEW j \in 1 .. Len(u), 0 <= j, j < h
       PROVE  j + u[j].okskip < h /\ j + u[j].badskip < h
  <2> DEFINE g == j + 1 + n
             x == t[g].okskip
             y == t[g].badskip
  <2>1. g \in 1 .. Len(t) /\ u[j] = t[g]
    BY <1>3, <1>10, Zenon
  <2>2. 0 <= g /\ g < i
    BY <1>2, <1>4, <1>10
  <2>3. g + t[g].okskip < i /\ g + t[g].badskip < i
    BY <2>1, <2>2, <1>4, Zenon
  <2>4. t[g].okskip \in Nat /\ t[g].badskip \in Nat
    BY <2>1, CallIn, Zenon
  <2> HIDE DEF x, y
  <2>5. x \in Nat /\ y \in Nat /\ g + x < i /\ g + y < i
    BY <2>3, <2>4, Zenon DEF x, y
  <2>6. j + x < h /\ j + y < h
    BY <2>5, <1>2, <1>4, <1>10
  <2>7. QED
    BY <2>1, <2>6, Zenon DEF x, y
<1> HIDE DEF h
<1>11. QED
  BY <1>2, <1>8, <1>9, <1>10, Zenon DEF LockAhead, Ahead, u

\* A challenge that fails leaves no authok, and a call before it skips nothing
\* or all of them.
LEMMA AuthLeft ==
  ASSUME NEW F, NEW t \in Scripts(F), t # <<>>, AuthGuarded(t), NEW n \in Nat,
         n = t[1].badskip \/ (n \in {0, t[1].okskip} /\ t[1].f # "challenge")
  PROVE  AuthGuarded(Left(t, n))
<1> DEFINE u == Left(t, n)
<1>1. /\ Len(t) \in Nat /\ Len(t) >= 1 /\ Len(u) \in Nat
      /\ \A i \in 1 .. Len(u) : i + 1 + n \in 1 .. Len(t) /\ u[i] = t[i + 1 + n]
      /\ \A i \in 1 .. Len(t) : i - 1 - n >= 1 =>
           i - 1 - n \in 1 .. Len(u) /\ u[i - 1 - n] = t[i]
  BY LeftIs, ZenonT(60)
<1> HIDE DEF u
<1>2. CASE NoAuthOk(t)
  <2>1. NoAuthOk(u)
    BY <1>1, <1>2, Zenon DEF NoAuthOk
  <2>2. QED
    BY <2>1, Zenon DEF AuthGuarded, u
<1>3. ASSUME NEW j \in 1 .. Len(t),
             t[j].f = "challenge",
             \A l \in 1 .. Len(t) : l < j => Passes(t, l),
             \A i \in 1 .. Len(t) : t[i].f = "authok" =>
               j < i /\ i <= j + t[j].badskip
      PROVE  AuthGuarded(u)
  <2>0. 1 \in 1 .. Len(t)
    BY <1>1
  <2>1. CASE j = 1
    <3>1. n = t[1].badskip
      BY <2>1, <1>3
    <3>2. ASSUME NEW i \in 1 .. Len(u), u[i].f = "authok"
          PROVE  FALSE
      <4>1. i + 1 + n \in 1 .. Len(t) /\ t[i + 1 + n].f = "authok"
        BY <3>2, <1>1, Zenon
      <4>2. i + 1 + n <= 1 + n
        BY <4>1, <3>1, <2>1, <1>3, Zenon
      <4>3. QED
        BY <4>2, <3>2, <1>1
    <3>3. QED
      BY <3>2, Zenon DEF AuthGuarded, NoAuthOk
  <2>4. ASSUME j # 1, n # 0
        PROVE  AuthGuarded(u)
    <3>1. 1 < j
      BY <2>4, <1>1, <1>3
    <3>2. Passes(t, 1)
      BY <3>1, <2>0, <1>3, Zenon
    <3>3. n = t[1].badskip /\ \A i \in 1 .. Len(t) : t[i].f = "authok" => i <= 1 + n
      BY <3>2, <2>4, Zenon DEF Passes
    <3>4. ASSUME NEW i \in 1 .. Len(u), u[i].f = "authok"
          PROVE  FALSE
      <4>1. i + 1 + n \in 1 .. Len(t) /\ t[i + 1 + n].f = "authok"
        BY <3>4, <1>1, Zenon
      <4>2. i + 1 + n <= 1 + n
        BY <4>1, <3>3, Zenon
      <4>3. QED
        BY <4>2, <3>4, <1>1
    <3>5. QED
      BY <3>4, Zenon DEF AuthGuarded, NoAuthOk
  <2>2. CASE j # 1 /\ n = 0
    <3>1. 1 < j
      BY <2>2, <1>1, <1>3
    <3>2. n = 0
      BY <2>2
    <3> DEFINE h == j - 1 - n
    <3>3. h >= 1 /\ h \in Int /\ h = j - 1
      BY <3>1, <3>2, <1>3
    <3>4. h \in 1 .. Len(u) /\ u[h] = t[j]
      BY <3>3, <1>1, <1>3, Zenon
    <3>5. ASSUME NEW l \in 1 .. Len(u), l < h
          PROVE  Passes(u, l)
      <4> DEFINE g == l + 1 + n
                 b == t[g].badskip
      <4>1. g \in 1 .. Len(t) /\ u[l] = t[g]
        BY <3>5, <1>1, Zenon
      <4>2. g < j
        BY <3>2, <3>3, <3>5, <1>3
      <4>3. Passes(t, g)
        BY <4>1, <4>2, <1>3, Zenon
      <4>4. CASE b = 0
        BY <4>1, <4>3, <4>4, Zenon DEF Passes
      <4>5. CASE \A i \in 1 .. Len(t) : t[i].f = "authok" => i <= g + b
        <5>1. ASSUME NEW i \in 1 .. Len(u), u[i].f = "authok"
              PROVE  i <= l + b
          <6>1. i + 1 + n \in 1 .. Len(t) /\ t[i + 1 + n].f = "authok"
            BY <5>1, <1>1, Zenon
          <6>2. i + 1 + n <= g + b
            BY <6>1, <4>5, Zenon
          <6>3. b \in Nat
            BY <4>1, CallIn, Zenon
          <6> HIDE DEF b
          <6>4. QED
            BY <6>2, <6>3, <5>1, <3>2, <3>5, <1>1
        <5>2. QED
          BY <4>1, <4>3, <5>1, Zenon DEF Passes
      <4>6. QED
        BY <4>3, <4>4, <4>5, Zenon DEF Passes
    <3>6. ASSUME NEW i \in 1 .. Len(u), u[i].f = "authok"
          PROVE  h < i /\ i <= h + u[h].badskip
      <4> DEFINE b == t[j].badskip
                 g == i + 1 + n
      <4>1. g \in 1 .. Len(t) /\ t[g].f = "authok"
        BY <3>6, <1>1, Zenon
      <4>2. j < g /\ g <= j + b
        BY <4>1, <1>3, Zenon
      <4>3. b \in Nat
        BY CallIn, Zenon
      <4> HIDE DEF b
      <4>4. h < i /\ i <= h + b
        BY <4>2, <4>3, <3>2, <3>3, <3>6, <1>3
      <4>5. QED
        BY <4>4, <3>4, Zenon DEF b
    <3> HIDE DEF h
    <3>7. u[h].f = "challenge"
      BY <3>4, <1>3, Zenon
    <3>8. QED
      BY <3>4, <3>5, <3>6, <3>7, Zenon DEF AuthGuarded
  <2>3. QED
    BY <2>1, <2>2, <2>4
<1>4. QED
  BY <1>2, <1>3, Zenon DEF AuthGuarded, u

\* What is left of content_auth has the rest of the way.
LEMMA ResetsLeft ==
  ASSUME NEW F, NEW t \in Scripts(F), t # <<>>, ResetsCard(t), NEW n \in Nat
  PROVE  ResetsCard(Left(t, n))
<1> DEFINE u == Left(t, n)
<1>1. /\ Len(t) \in Nat /\ Len(u) \in Nat
      /\ \A i \in 1 .. Len(u) : i + 1 + n \in 1 .. Len(t) /\ u[i] = t[i + 1 + n]
  BY LeftIs, Zenon
<1> HIDE DEF u
<1>2. ASSUME NEW i \in 1 .. Len(u), u[i].f = "authinfo"
      PROVE  ResetAt(u, i)
  <2> DEFINE g == i + 1 + n
  <2>1. g \in 1 .. Len(t) /\ t[g].f = "authinfo"
    BY <1>1, <1>2, Zenon
  <2>2. ResetAt(t, g)
    BY <2>1, Zenon DEF ResetsCard
  <2>3. g <= 10 /\ \A k \in 2 .. g : Way(t[g + 1 - k], k)
    BY <2>2, Zenon DEF ResetAt
  <2>4. i <= 10
    BY <2>3, <1>1, <1>2
  <2>5. ASSUME NEW k \in 2 .. i
        PROVE  Way(u[i + 1 - k], k)
    <3>1. /\ i + 1 - k \in 1 .. Len(u) /\ (i + 1 - k) + 1 + n = g + 1 - k
          /\ k \in 2 .. g
      BY <2>5, <1>1, <1>2
    <3>2. u[i + 1 - k] = t[g + 1 - k]
      BY <3>1, <1>1
    <3>3. QED
      BY <3>1, <3>2, <2>3, Zenon
  <2>6. QED
    BY <2>4, <2>5, Zenon DEF ResetAt
<1>3. QED
  BY <1>2, Zenon DEF ResetsCard, u

\* What is left of a command makes no other calls.
LEMMA CallsLeft ==
  ASSUME NEW F, NEW t \in Scripts(F), t # <<>>, NEW c, CallsOf(t, c), NEW n \in Nat
  PROVE  CallsOf(Left(t, n), c)
<1>1. \A i \in 1 .. Len(Left(t, n)) :
        i + 1 + n \in 1 .. Len(t) /\ Left(t, n)[i] = t[i + 1 + n]
  BY LeftIs, Zenon
<1>2. QED
  BY <1>1, Zenon DEF CallsOf

\* Two parts whose unlocks have their locks.
LEMMA UnlockSafeJoined ==
  ASSUME NEW F, NEW a \in Scripts(F), NEW b \in Scripts(F), UnlockSafe(a),
         UnlockSafe(b)
  PROVE  UnlockSafe(a \o b)
<1> DEFINE t == a \o b
           la == Len(a)
           lb == Len(b)
<1>1. /\ t \in Scripts(F) /\ Len(t) = la + lb /\ la \in Nat /\ lb \in Nat
      /\ \A i \in 1 .. la : t[i] = a[i]
      /\ \A i \in 1 .. lb : t[la + i] = b[i]
      /\ \A i \in 1 .. la + lb :
           \/ i \in 1 .. la /\ t[i] = a[i]
           \/ i - la \in 1 .. lb /\ t[i] = b[i - la]
  <2> DEFINE R == Ops(F)
  <2>1. a \in Seq(R) /\ b \in Seq(R)
    BY Zenon DEF Scripts
  <2> HIDE DEF R
  <2>2. /\ t \in Seq(R) /\ Len(t) = la + lb /\ la \in Nat /\ lb \in Nat
        /\ \A i \in 1 .. la : t[i] = a[i]
        /\ \A i \in 1 .. lb : t[la + i] = b[i]
        /\ \A i \in 1 .. la + lb :
             \/ i \in 1 .. la /\ t[i] = a[i]
             \/ i - la \in 1 .. lb /\ t[i] = b[i - la]
    BY <2>1, Joined
  <2>3. QED
    BY <2>2, Zenon DEF Scripts, R
<1> HIDE DEF t
<1>2. ASSUME NEW k \in 1 .. la, a[k].f = "unlock"
      PROVE  Ahead(t, k)
  <2>1. PICK i \in 1 .. la :
          /\ i > k /\ a[i].f = "lock"
          /\ \A j \in 1 .. la : k <= j /\ j < i =>
               j + a[j].okskip < i /\ j + a[j].badskip < i
    BY <1>2, Zenon DEF UnlockSafe, Ahead
  <2>2. i \in 1 .. Len(t) /\ t[i].f = "lock"
    <3>1. i \in 1 .. Len(t)
      BY <1>1, <2>1
    <3>2. QED
      BY <3>1, <1>1, <2>1, Zenon
  <2>3. ASSUME NEW j \in 1 .. Len(t), k <= j, j < i
        PROVE  j + t[j].okskip < i /\ j + t[j].badskip < i
    <3>1. j \in 1 .. la
      BY <1>1, <2>1, <2>3
    <3>2. QED
      BY <3>1, <2>1, <2>3, <1>1, Zenon
  <2>4. QED
    BY <2>1, <2>2, <2>3, Zenon DEF Ahead
<1>3. ASSUME NEW k \in 1 .. lb, b[k].f = "unlock"
      PROVE  Ahead(t, la + k)
  <2>1. PICK i \in 1 .. lb :
          /\ i > k /\ b[i].f = "lock"
          /\ \A j \in 1 .. lb : k <= j /\ j < i =>
               j + b[j].okskip < i /\ j + b[j].badskip < i
    BY <1>3, Zenon DEF UnlockSafe, Ahead
  <2> DEFINE h == la + i
             m == la + k
  <2>2. h \in 1 .. Len(t) /\ h > m
    BY <1>1, <1>3, <2>1
  <2>3. t[h].f = "lock"
    BY <1>1, <2>1, Zenon
  <2>4. ASSUME NEW j \in 1 .. Len(t), m <= j, j < h
        PROVE  j + t[j].okskip < h /\ j + t[j].badskip < h
    <3> DEFINE g == j - la
               x == b[g].okskip
               y == b[g].badskip
    <3>1. g \in 1 .. lb /\ k <= g /\ g < i /\ ~(j \in 1 .. la) /\ j \in 1 .. la + lb
      BY <1>1, <1>3, <2>1, <2>4
    <3>2. t[j] = b[g]
      BY <3>1, <1>1, Zenon
    <3>3. g + x < i /\ g + y < i
      BY <3>1, <2>1, Zenon
    <3>4. x \in Nat /\ y \in Nat
      BY <3>1, CallIn, Zenon
    <3> HIDE DEF x, y
    <3>5. j + x < h /\ j + y < h
      BY <3>3, <3>4, <1>1, <2>1, <2>4
    <3>6. QED
      BY <3>2, <3>5, Zenon DEF x, y
  <2> HIDE DEF h, m
  <2>5. Ahead(t, m)
    BY <2>2, <2>3, <2>4, Zenon DEF Ahead
  <2>6. QED
    BY <2>5, Zenon DEF m
<1>4. ASSUME NEW k \in 1 .. Len(t), t[k].f = "unlock"
      PROVE  Ahead(t, k)
  <2>1. k \in 1 .. la + lb
    BY <1>1, <1>4
  <2>2. CASE k \in 1 .. la /\ t[k] = a[k]
    BY <2>2, <1>2, <1>4, Zenon
  <2>3. CASE k - la \in 1 .. lb /\ t[k] = b[k - la]
    <3>1. Ahead(t, la + (k - la))
      BY <2>3, <1>3, <1>4, Zenon
    <3>2. la + (k - la) = k
      BY <1>1, <2>1
    <3>3. QED
      BY <3>1, <3>2
  <2>4. QED
    BY <1>1, <2>1, <2>2, <2>3, Zenon
<1>5. QED
  BY <1>4, Zenon DEF UnlockSafe, t

\* A part that stays inside itself, and a lock behind it.
LEMMA LockLast ==
  ASSUME NEW F, NEW a, Piece(F, 0, a), "lock" \in F
  PROVE  /\ Piece(F, 0, a \o <<Do("lock")>>) /\ UnlockSafe(a \o <<Do("lock")>>)
<1> DEFINE b == <<Do("lock")>>
           t == a \o b
           la == Len(a)
<1>0. <<>> \in Paths
  BY DEF Paths, Rooted
<1>1. Piece(F, 0, b)
  BY <1>0, OneCall, FewCalls, Zenon
<1>2. Len(b) = 1 /\ b[1].f = "lock"
  BY DEF Do, Op
<1>3. Piece(F, 0, t)
  BY <1>1, InsideJoined, Zenon
<1> HIDE DEF b
<1>4. /\ Len(t) = la + Len(b) /\ la \in Nat
      /\ \A i \in 1 .. la : t[i] = a[i]
      /\ \A i \in 1 .. Len(b) : t[la + i] = b[i]
  <2> DEFINE R == Ops(F)
  <2>1. a \in Seq(R) /\ b \in Seq(R)
    BY <1>1, Zenon DEF Scripts, Piece
  <2> HIDE DEF R
  <2>2. QED
    BY <2>1, Joined
<1> HIDE DEF t
<1>5. Len(t) = la + 1 /\ t[la + 1].f = "lock" /\ la + 1 \in 1 .. Len(t)
  BY <1>2, <1>4
<1>6. ASSUME NEW k \in 1 .. Len(t), t[k].f = "unlock"
      PROVE  Ahead(t, k)
  <2> DEFINE i == la + 1
  <2>1. k # i
    BY <1>5, <1>6
  <2>2. i > k
    BY <2>1, <1>4, <1>5, <1>6
  <2>3. ASSUME NEW j \in 1 .. Len(t), k <= j, j < i
        PROVE  j + t[j].okskip < i /\ j + t[j].badskip < i
    <3> DEFINE x == a[j].okskip
               y == a[j].badskip
    <3>1. j \in 1 .. la
      BY <2>3, <1>4, <1>5
    <3>2. t[j] = a[j] /\ j + x <= la + 0 /\ j + y <= la + 0
      BY <3>1, <1>4, Zenon DEF Piece, Over
    <3>3. x \in Nat /\ y \in Nat
      BY <3>1, CallIn, Zenon DEF Piece
    <3> HIDE DEF x, y
    <3>4. j + x < i /\ j + y < i
      BY <3>1, <3>2, <3>3, <1>4
    <3>5. QED
      BY <3>2, <3>4, Zenon DEF x, y
  <2>4. QED
    BY <2>2, <2>3, <1>5, Zenon DEF Ahead
<1>7. UnlockSafe(t)
  BY <1>6, Zenon DEF UnlockSafe
<1>8. QED
  BY <1>3, <1>7, Zenon DEF t, b

\* What the prompt may show as its path, and the media among these.
Cwds == {p \in Seq(Names) : Len(p) \in {1, 2} /\ (p = Null \/ Rooted(p))}
Roots == {p \in Seq(Names) : Len(p) = 1 /\ Rooted(p)}
SetsCwd(t) == \A i \in 1 .. Len(t) : t[i].f = "_setpath" => t[i].p \in Cwds

ScriptOK(t, c) == /\ t \in Scripts(Work) /\ UnlockSafe(t) /\ AuthGuarded(t)
                  /\ CallsOf(t, c) /\ (c = "auth" => ResetsCard(t)) /\ SetsCwd(t)

\* Paths of media and of add-ons.
LEMMA SomePaths ==
  /\ <<>> \in Paths /\ Roots \subseteq Paths /\ Cwds \subseteq Paths
  /\ Roots \subseteq Cwds /\ <<"drv0">> \in Roots
  /\ Cards # {} => <<"crd0">> \in Roots /\ "crd0" \in Cards
  /\ \A r \in Roots : Addon(r) \in Paths
  /\ \A p \in Cwds : p # Null => <<p[1]>> \in Roots
<1>1. {"drv0", "crd0", "A", "NULL"} \subseteq Names
  BY DEF Names, Media
<1>2. /\ <<>> \in Paths /\ Roots \subseteq Paths /\ Cwds \subseteq Paths
      /\ Roots \subseteq Cwds
  <2>1. <<>> \in Paths
    BY DEF Paths, Rooted
  <2>2. /\ 1 <= 2 /\ 2 <= 2 /\ 1 \in {1, 2}
    OBVIOUS
  <2>3. \A p \in Cwds : p \in Seq(Names) /\ Len(p) <= 2 /\ (p = Null \/ Rooted(p))
    BY <2>2, Zenon DEF Cwds
  <2>4. \A p \in Roots : p \in Seq(Names) /\ Len(p) <= 2 /\ Len(p) \in {1, 2} /\ Rooted(p)
    BY <2>2, Zenon DEF Roots
  <2>5. QED
    BY <2>1, <2>3, <2>4, Zenon DEF Paths, Cwds
<1>3. /\ <<"drv0">> \in Roots
      /\ Cards # {} => <<"crd0">> \in Roots /\ "crd0" \in Cards
  <2>1. ASSUME NEW x \in Names, x \in Attached
        PROVE  <<x>> \in Roots
    <3>1. <<x>> \in Seq(Names) /\ Len(<<x>>) = 1 /\ <<x>>[1] = x
      OBVIOUS
    <3>2. QED
      BY <2>1, <3>1, Zenon DEF Roots, Rooted
  <2>2. "drv0" \in Attached /\ (Cards # {} => "crd0" \in Cards /\ "crd0" \in Attached)
    BY ToolAssumption DEF Attached
  <2>3. "drv0" \in Names /\ "crd0" \in Names
    BY <1>1
  <2>4. QED
    BY <2>1, <2>2, <2>3, Zenon
<1>4. ASSUME NEW r \in Roots
      PROVE  Addon(r) \in Paths
  <2>1. r \in Seq(Names) /\ Len(r) = 1 /\ "A" \in Names /\ Rooted(r)
    BY <1>1 DEF Roots
  <2>2. Append(r, "A") \in Seq(Names) /\ Len(Append(r, "A")) = Len(r) + 1
    BY <2>1, AppendProperties, Zenon
  <2>3. Len(Append(r, "A")) <= 2 /\ Append(r, "A")[1] = r[1] /\ r # <<>>
    BY <2>1, <2>2
  <2>4. QED
    BY <2>1, <2>2, <2>3, Zenon DEF Addon, Paths, Rooted
<1>5. ASSUME NEW p \in Cwds, p # Null
      PROVE  <<p[1]>> \in Roots
  <2>1. p \in Seq(Names) /\ Len(p) \in {1, 2} /\ Rooted(p)
    BY <1>5, Zenon DEF Cwds
  <2>2. p # <<>> /\ p[1] \in Names
    BY <2>1
  <2>3. p[1] \in Attached
    BY <2>1, <2>2, Zenon DEF Rooted
  <2>4. <<p[1]>> \in Seq(Names) /\ Len(<<p[1]>>) = 1 /\ <<p[1]>>[1] = p[1]
    BY <2>2
  <2>5. QED
    BY <2>3, <2>4, Zenon DEF Roots, Rooted
<1>6. QED
  BY <1>2, <1>3, <1>4, <1>5, Zenon

\* What follows from the calls that a script does not have.
LEMMA Without ==
  ASSUME NEW F, NEW t \in Scripts(F)
  PROVE  /\ "unlock" \notin F => UnlockSafe(t)
         /\ "authok" \notin F => NoAuthOk(t) /\ AuthGuarded(t)
         /\ "authinfo" \notin F => ResetsCard(t)
         /\ "_setpath" \notin F => SetsCwd(t)
         /\ \A c : /\ "remove" \in F => c = "remove"
                   /\ "newkey" \in F => c = "reset"
                   /\ "authinfo" \in F => c \in {"auth", "reset"}
                   /\ "format" \in F => c = "format"
                  => CallsOf(t, c)
<1>1. \A i \in 1 .. Len(t) : t[i].f \in F
  BY CallIn, Zenon
<1>2. QED
  BY <1>1, Zenon DEF UnlockSafe, NoAuthOk, AuthGuarded, ResetsCard, SetsCwd, CallsOf

\* Calls that skip nothing, or all when they fail, up to the challenge, and the
\* rest behind it.
LEMMA AuthJoined ==
  ASSUME NEW F, NEW a \in Scripts(F), NEW b \in Scripts(F)
  PROVE  /\ /\ \A i \in 1 .. Len(a) :
                 /\ a[i].f # "authok" /\ a[i].okskip = 0
                 /\ a[i].badskip = 0 \/ i + a[i].badskip = Len(a) + Len(b)
            /\ AuthGuarded(b)
           => AuthGuarded(a \o b)
         /\ AuthGuarded(a) /\ NoAuthOk(b) => AuthGuarded(a \o b)
<1> DEFINE t == a \o b
           la == Len(a)
           lb == Len(b)
           R == Ops(F)
<1>1. /\ Len(t) = la + lb /\ la \in Nat /\ lb \in Nat
      /\ \A i \in 1 .. la : t[i] = a[i]
      /\ \A i \in 1 .. lb : t[la + i] = b[i]
      /\ \A i \in 1 .. la + lb :
           \/ i \in 1 .. la /\ t[i] = a[i]
           \/ i - la \in 1 .. lb /\ t[i] = b[i - la]
  <2>1. a \in Seq(R) /\ b \in Seq(R)
    BY Zenon DEF Scripts
  <2> HIDE DEF R
  <2>2. QED
    BY <2>1, Joined
<1> HIDE DEF t
<1>2. \A i \in 1 .. Len(t) :
           \/ i \in 1 .. la /\ t[i] = a[i]
           \/ i - la \in 1 .. lb /\ t[i] = b[i - la]
  BY <1>1, Zenon
<1>3. /\ \A i \in 1 .. la : i \in 1 .. Len(t)
      /\ \A i \in 1 .. lb : la + i \in 1 .. Len(t)
  BY <1>1
<1>4. ASSUME \A i \in 1 .. la :
               /\ a[i].f # "authok" /\ a[i].okskip = 0
               /\ a[i].badskip = 0 \/ i + a[i].badskip = la + lb,
             AuthGuarded(b)
      PROVE  AuthGuarded(t)
  <2>1. CASE NoAuthOk(b)
    <3>1. NoAuthOk(t)
      BY <1>2, <1>4, <2>1, Zenon DEF NoAuthOk
    <3>2. QED
      BY <3>1, Zenon DEF AuthGuarded
  <2>2. ASSUME NEW j \in 1 .. lb, b[j].f = "challenge",
               \A l \in 1 .. lb : l < j => Passes(b, l),
               \A i \in 1 .. lb : b[i].f = "authok" =>
                 j < i /\ i <= j + b[j].badskip
        PROVE  AuthGuarded(t)
    <3> DEFINE h == la + j
               x == b[j].badskip
    <3>1. h \in 1 .. Len(t) /\ t[h] = b[j] /\ x \in Nat
      BY <2>2, <1>1, <1>3, CallIn, Zenon
    <3>2. ASSUME NEW l \in 1 .. Len(t), l < h
          PROVE  Passes(t, l)
      <4>1. CASE l \in 1 .. la /\ t[l] = a[l]
        <5> DEFINE Fits(o) == o.okskip = 0 /\ (o.badskip = 0 \/ l + o.badskip = la + lb)
        <5>0. Fits(a[l])
          BY <4>1, <1>4, Zenon
        <5>1. Fits(t[l])
          <6> HIDE DEF Fits
          <6>1. QED
            BY <5>0, <4>1
        <5>2. \A i \in 1 .. Len(t) : i <= la + lb
          BY <1>1
        <5>3. QED
          BY <5>1, <5>2, Zenon DEF Passes
      <4>2. CASE l - la \in 1 .. lb /\ t[l] = b[l - la]
        <5> DEFINE g == l - la
                   y == b[g].badskip
        <5>1. g < j
          BY <3>2, <4>2, <1>1, <2>2
        <5>2. Passes(b, g)
          BY <5>1, <4>2, <2>2, Zenon
        <5>3. ASSUME \A i \in 1 .. lb : b[i].f = "authok" => i <= g + y,
                     NEW i \in 1 .. Len(t), t[i].f = "authok"
              PROVE  i <= l + y
          <6>1. ~(i \in 1 .. la /\ t[i] = a[i])
            BY <5>3, <1>4, Zenon
          <6>2. i - la \in 1 .. lb /\ t[i] = b[i - la]
            BY <6>1, <1>2, Zenon
          <6>3. i - la <= g + y
            BY <6>2, <5>3, Zenon
          <6>4. y \in Nat
            BY <4>2, CallIn, Zenon
          <6> HIDE DEF y
          <6>5. QED
            BY <6>3, <6>4, <5>3, <3>2, <1>1
        <5>4. QED
          BY <5>2, <5>3, <4>2, Zenon DEF Passes
      <4>3. QED
        BY <4>1, <4>2, <1>2, Zenon
    <3>3. ASSUME NEW i \in 1 .. Len(t), t[i].f = "authok"
          PROVE  h < i /\ i <= h + x
      <4>1. ~(i \in 1 .. la /\ t[i] = a[i])
        BY <3>3, <1>4, Zenon
      <4>2. i - la \in 1 .. lb /\ t[i] = b[i - la]
        BY <4>1, <1>2, Zenon
      <4>3. j < i - la /\ i - la <= j + x
        BY <4>2, <3>3, <2>2, Zenon
      <4> HIDE DEF x
      <4>4. QED
        BY <4>3, <3>1, <3>3, <1>1, <2>2
    <3>4. t[h].badskip = x /\ t[h].f = "challenge"
      BY <3>1, <2>2, Zenon
    <3> HIDE DEF h, x
    <3>5. QED
      BY <3>1, <3>2, <3>3, <3>4, Zenon DEF AuthGuarded
  <2>3. QED
    BY <2>1, <2>2, <1>4, Zenon DEF AuthGuarded
<1>5. ASSUME AuthGuarded(a), NoAuthOk(b)
      PROVE  AuthGuarded(t)
  <2>1. CASE NoAuthOk(a)
    <3>1. NoAuthOk(t)
      BY <1>2, <1>5, <2>1, Zenon DEF NoAuthOk
    <3>2. QED
      BY <3>1, Zenon DEF AuthGuarded
  <2>2. ASSUME NEW j \in 1 .. la, a[j].f = "challenge",
               \A l \in 1 .. la : l < j => Passes(a, l),
               \A i \in 1 .. la : a[i].f = "authok" =>
                 j < i /\ i <= j + a[j].badskip
        PROVE  AuthGuarded(t)
    <3>1. j \in 1 .. Len(t) /\ t[j] = a[j]
      BY <2>2, <1>1, <1>3, Zenon
    <3>2. ASSUME NEW l \in 1 .. Len(t), l < j
          PROVE  Passes(t, l)
      <4>1. l \in 1 .. la
        BY <3>2, <1>1, <2>2
      <4>2. Passes(a, l) /\ t[l] = a[l]
        BY <4>1, <3>2, <1>1, <2>2, Zenon
      <4>3. \A i \in 1 .. Len(t) : t[i].f = "authok" => i \in 1 .. la /\ a[i].f = "authok"
        BY <1>2, <1>5, Zenon DEF NoAuthOk
      <4>4. QED
        BY <4>2, <4>3, Zenon DEF Passes
    <3>3. ASSUME NEW i \in 1 .. Len(t), t[i].f = "authok"
          PROVE  j < i /\ i <= j + a[j].badskip
      BY <3>3, <1>2, <1>5, <2>2, Zenon DEF NoAuthOk
    <3>4. QED
      BY <3>1, <3>2, <3>3, <2>2, Zenon DEF AuthGuarded
  <2>3. QED
    BY <2>1, <2>2, <1>5, Zenon DEF AuthGuarded
<1>6. QED
  BY <1>4, <1>5, Zenon DEF t

\* The challenge skips all of the rest when it fails.
LEMMA ChallengeFirst ==
  ASSUME NEW F, "challenge" \in F, NEW rest \in Scripts(F)
  PROVE  AuthGuarded(IfGood(Do("challenge"), rest))
<1> DEFINE n == Len(rest)
           o == Do("challenge")
           x == [o EXCEPT !.badskip = n]
           t == <<x>> \o rest
           R == Ops(F)
<1>1. n \in Nat /\ rest \in Seq(R)
  BY DEF Scripts
<1>2. o \in R /\ o.f = "challenge"
  BY SomePaths, OneCall, Zenon
<1> HIDE DEF o
<1>3. x \in R /\ x.f = "challenge" /\ x.badskip = n
  <2> HIDE DEF n
  <2>1. QED
    BY <1>1, <1>2, Zenon DEF Ops
<1> HIDE DEF x, R
<1>4. /\ Len(t) = 1 + n /\ t[1] = x
      /\ \A i \in 1 .. Len(t) : i = 1 \/ (1 < i /\ i <= 1 + n)
  BY <1>1, <1>3
<1> HIDE DEF t
<1>5. 1 \in 1 .. Len(t) /\ \A l \in 1 .. Len(t) : ~(l < 1)
  BY <1>1, <1>4
<1>6. "challenge" # "authok"
  OBVIOUS
<1>7. \A i \in 1 .. Len(t) : t[i].f = "authok" => 1 < i /\ i <= 1 + n
  BY <1>3, <1>4, <1>6, Zenon
<1>8. AuthGuarded(t)
  BY <1>3, <1>4, <1>5, <1>7, Zenon DEF AuthGuarded
<1>9. QED
  BY <1>8, Zenon DEF IfGood, t, x, o
-----------------------------------------------------------------------------
(* The commands.                                                           *)

\* The calls by name.
LEMMA CallNames ==
  ASSUME NEW F, Common \subseteq F
  PROVE  /\ \A f \in F : Do(f) \in Ops(F) /\ Zero(Do(f))
         /\ \A p \in Paths : Path(p) \in Ops(F) /\ Zero(Path(p))
         /\ \A r \in Roots : /\ Find(r) \in Ops(F) /\ Zero(Find(r))
                             /\ ToAddon(r) \in Ops(F) /\ Zero(ToAddon(r))
         /\ {"setpath", "scan", "list", "cards", "crash", "find", "lock", "cname",
             "cryptkey", "ifok", "local", "upload", "download", "capacity", "challenge",
             "userid", "authno", "model", "delete", "send"} \subseteq F
<1>1. Common \subseteq F /\ "setpath" \in F /\ "find" \in F
  BY DEF Common
<1>2. \A f \in F : Do(f) \in Ops(F) /\ Zero(Do(f))
  BY SomePaths, OneCall, Zenon
<1>3. \A p \in Paths : Path(p) \in Ops(F) /\ Zero(Path(p))
  BY <1>1, OneCall, Zenon
<1>4. \A r \in Roots : Find(r) \in Ops(F) /\ Zero(Find(r))
  BY <1>1, SomePaths, OneCall, Zenon DEF Find
<1>5. \A r \in Roots : ToAddon(r) \in Ops(F) /\ Zero(ToAddon(r))
  BY <1>1, SomePaths, OneCall, Zenon DEF ToAddon
<1>6. QED
  BY <1>1, <1>2, <1>3, <1>4, <1>5, Zenon DEF Common

\* A script behind _find.
LEMMA FindPieces ==
  ASSUME NEW F, Common \subseteq F, NEW root \in Roots, NEW rest, Piece(F, 0, rest)
  PROVE  Piece(F, 0, IfFound(root, rest)) /\ Piece(F, 0, IfAbsent(root, rest))
<1>1. /\ Path(root) \in Ops(F) /\ Zero(Path(root))
      /\ Find(root) \in Ops(F) /\ Zero(Find(root))
  BY CallNames, SomePaths, Zenon
<1>2. Piece(F, 0, <<Path(root)>>)
  BY <1>1, FewCalls, Zenon
<1>3. 0 \in Nat
  OBVIOUS
<1>4. Piece(F, 0, IfGood(Find(root), rest)) /\ Piece(F, 0, IfBad(Find(root), rest))
  BY <1>1, <1>3, Guarded, Zenon
<1>5. QED
  BY <1>2, <1>4, InsideJoined, Zenon DEF IfFound, IfAbsent

\* List, and a file sent or fetched.
LEMMA SmallPieces ==
  ASSUME NEW F, Common \subseteq F
  PROVE  /\ Piece(F, 0, List) /\ Piece(F, 0, _upload_file)
         /\ Piece(F, 0, _download_file) /\ Piece(F, 0, ListCards)
         /\ "unlock" \in F => Piece(F, 0, Unlocked)
<1>0. 0 \in Nat
  OBVIOUS
<1>1. /\ \A f \in F : Do(f) \in Ops(F) /\ Zero(Do(f))
      /\ Path(<<>>) \in Ops(F) /\ Zero(Path(<<>>))
      /\ {"list", "cards", "crash", "local", "upload", "download", "cname", "cryptkey"}
           \subseteq F
  BY CallNames, SomePaths, Zenon
<1>2. /\ Piece(F, 0, <<Do("crash")>>) /\ Piece(F, 0, <<Do("upload")>>)
      /\ Piece(F, 0, <<Do("download")>>) /\ Piece(F, 0, <<Path(<<>>)>>)
  BY <1>1, FewCalls, Zenon
<1>3. Piece(F, 0, List)
  BY <1>0, <1>1, <1>2, Guarded, Zenon DEF List
<1>4. Piece(F, 0, _upload_file)
  BY <1>0, <1>1, <1>2, Guarded, Zenon DEF _upload_file
<1>5. Piece(F, 0, ListCards)
  <2>1. Piece(F, 0, IfBad(Do("cards"), <<Do("crash")>>))
    BY <1>0, <1>1, <1>2, Guarded, Zenon
  <2>2. QED
    BY <1>2, <2>1, InsideJoined, Zenon DEF ListCards
<1>6. "unlock" \in F => Piece(F, 0, Unlocked)
  BY <1>1, FewCalls, Zenon DEF Unlocked
<1>7. QED
  BY <1>2, <1>3, <1>4, <1>5, <1>6, Zenon DEF _download_file

\* content_remove and content_install end with the lock.
LEMMA LockingPieces ==
  ASSUME NEW F, Common \subseteq F, "unlock" \in F, "remove" \in F, NEW root \in Roots
  PROVE  /\ Piece(F, 0, content_remove(root)) /\ UnlockSafe(content_remove(root))
         /\ Piece(F \ {"remove"}, 0, content_install(root))
         /\ UnlockSafe(content_install(root))
<1>0. 0 \in Nat
  OBVIOUS
<1>1. ASSUME NEW G, Common \subseteq G, "unlock" \in G, NEW mid, Piece(G, 0, mid)
      PROVE  /\ Piece(G, 0, Unlocked \o IfGood(Do("ifok"), mid) \o <<Do("lock")>>)
             /\ UnlockSafe(Unlocked \o IfGood(Do("ifok"), mid) \o <<Do("lock")>>)
  <2>1. /\ Do("ifok") \in Ops(G) /\ Zero(Do("ifok")) /\ "lock" \in G
        /\ Piece(G, 0, Unlocked)
    BY <1>1, CallNames, SmallPieces, Zenon
  <2>2. Piece(G, 0, IfGood(Do("ifok"), mid))
    BY <1>0, <1>1, <2>1, Guarded, Zenon
  <2>3. Piece(G, 0, Unlocked \o IfGood(Do("ifok"), mid))
    BY <2>1, <2>2, InsideJoined, Zenon
  <2>4. QED
    BY <2>1, <2>3, LockLast, Zenon
<1>2. ASSUME NEW G, Common \subseteq G, NEW o \in Ops(G), Zero(o), o.f # "unlock",
             NEW rest, Piece(G, 0, rest), UnlockSafe(rest)
      PROVE  /\ Piece(G, 0, IfGood(o, rest)) /\ UnlockSafe(IfGood(o, rest))
             /\ Piece(G, 0, IfBad(o, rest)) /\ UnlockSafe(IfBad(o, rest))
  <2> DEFINE n == Len(rest)
             x == [o EXCEPT !.badskip = n]
             y == [o EXCEPT !.okskip = n]
             R == Ops(G)
  <2>1. n \in Nat /\ rest \in Scripts(G)
    BY <1>2 DEF Piece, Scripts
  <2>2. x \in R /\ y \in R /\ x.f # "unlock" /\ y.f # "unlock"
    <3> HIDE DEF n
    <3>1. QED
      BY <1>2, <2>1, Zenon DEF Ops
  <2> HIDE DEF x, y, R
  <2>3. ASSUME NEW z \in R, z.f # "unlock"
        PROVE  UnlockSafe(<<z>> \o rest)
    <3>1. /\ <<z>> \in Seq(R) /\ Len(<<z>>) = 1 /\ <<z>>[1] = z
          /\ \A i \in 1 .. Len(<<z>>) : i = 1
      OBVIOUS
    <3>2. UnlockSafe(<<z>>)
      BY <3>1, <2>3, Zenon DEF UnlockSafe
    <3>3. <<z>> \in Scripts(G)
      BY <3>1, Zenon DEF Scripts, R
    <3>4. QED
      BY <3>2, <3>3, <2>1, <1>2, UnlockSafeJoined, Zenon
  <2>4. UnlockSafe(<<x>> \o rest) /\ UnlockSafe(<<y>> \o rest)
    BY <2>2, <2>3, Zenon
  <2>5. UnlockSafe(IfGood(o, rest)) /\ UnlockSafe(IfBad(o, rest))
    BY <2>4, Zenon DEF IfGood, IfBad, x, y
  <2>6. QED
    BY <2>5, <1>0, <1>2, Guarded, Zenon
<1>3. ASSUME NEW G, Common \subseteq G, NEW rest, Piece(G, 0, rest), UnlockSafe(rest)
      PROVE  /\ Piece(G, 0, IfFound(root, rest)) /\ UnlockSafe(IfFound(root, rest))
             /\ Piece(G, 0, IfAbsent(root, rest)) /\ UnlockSafe(IfAbsent(root, rest))
  <2>1. /\ Path(root) \in Ops(G) /\ Zero(Path(root))
        /\ Find(root) \in Ops(G) /\ Zero(Find(root))
    BY <1>3, CallNames, SomePaths, Zenon
  <2>2. Find(root).f # "unlock" /\ Path(root).f # "unlock"
    BY DEF Find, Path, Op
  <2>3. /\ Piece(G, 0, IfGood(Find(root), rest)) /\ UnlockSafe(IfGood(Find(root), rest))
        /\ Piece(G, 0, IfBad(Find(root), rest)) /\ UnlockSafe(IfBad(Find(root), rest))
    BY <2>1, <2>2, <1>2, <1>3, Zenon
  <2>4. Piece(G, 0, <<Path(root)>>)
    BY <2>1, FewCalls, Zenon
  <2>5. UnlockSafe(<<Path(root)>>)
    <3> DEFINE o == Path(root)
    <3>1. Len(<<o>>) = 1 /\ <<o>>[1] = o /\ \A i \in 1 .. Len(<<o>>) : i = 1
      OBVIOUS
    <3>2. QED
      BY <3>1, <2>2, Zenon DEF UnlockSafe
  <2>6. QED
    BY <2>3, <2>4, <2>5, InsideJoined, UnlockSafeJoined, Zenon
       DEF IfFound, IfAbsent, Piece
<1>4. Piece(F, 0, content_remove(root)) /\ UnlockSafe(content_remove(root))
  <2>1. Do("remove") \in Ops(F) /\ Zero(Do("remove"))
    BY CallNames, Zenon
  <2>2. Piece(F, 0, <<Do("remove")>>)
    BY <2>1, FewCalls, Zenon
  <2>3. QED
    BY <2>2, <1>1, <1>3, Zenon DEF content_remove
<1>5. Piece(F \ {"remove"}, 0, content_install(root)) /\ UnlockSafe(content_install(root))
  <2> DEFINE G == F \ {"remove"}
             mid == <<ToAddon(root)>> \o _upload_file \o <<ToAddon(root)>>
             u == Unlocked \o IfGood(Do("ifok"), mid) \o <<Do("lock")>>
  <2>1. "remove" \notin Common /\ "remove" # "unlock"
    BY DEF Common
  <2>2. Common \subseteq G /\ "unlock" \in G
    BY <2>1, Zenon
  <2> HIDE DEF G
  <2>3. /\ ToAddon(root) \in Ops(G) /\ Zero(ToAddon(root))
        /\ Do("local") \in Ops(G) /\ Zero(Do("local"))
        /\ Do("capacity") \in Ops(G) /\ Zero(Do("capacity"))
        /\ Piece(G, 0, _upload_file)
    BY <2>2, CallNames, SmallPieces, Zenon
  <2>4. Do("local").f # "unlock" /\ Do("capacity").f # "unlock"
    BY DEF Do, Op
  <2>5. Piece(G, 0, <<ToAddon(root)>>)
    BY <2>3, FewCalls, Zenon
  <2>6. Piece(G, 0, mid)
    BY <2>3, <2>5, InsideJoined, Zenon
  <2>7. Piece(G, 0, u) /\ UnlockSafe(u)
    BY <2>2, <2>6, <1>1, Zenon
  <2> HIDE DEF u
  <2>8. Piece(G, 0, IfGood(Do("local"), u)) /\ UnlockSafe(IfGood(Do("local"), u))
    BY <2>2, <2>3, <2>4, <2>7, <1>2, Zenon
  <2> DEFINE v == IfGood(Do("local"), u)
  <2> HIDE DEF v
  <2>9. Piece(G, 0, IfGood(Do("capacity"), v)) /\ UnlockSafe(IfGood(Do("capacity"), v))
    BY <2>2, <2>3, <2>4, <2>8, <1>2, Zenon DEF v
  <2> DEFINE w == IfGood(Do("capacity"), v)
  <2> HIDE DEF w
  <2>10. Piece(G, 0, IfGood(Do("local"), w)) /\ UnlockSafe(IfGood(Do("local"), w))
    BY <2>2, <2>3, <2>4, <2>9, <1>2, Zenon DEF w
  <2>11. Piece(G, 0, content_install(root)) /\ UnlockSafe(content_install(root))
    BY <2>2, <2>10, <1>3, Zenon DEF content_install, u, v, w
  <2>12. QED
    BY <2>11, Zenon DEF G
<1>6. QED
  BY <1>4, <1>5

\* content_decrypt and content_list_remote ask only.
LEMMA AskingPieces ==
  ASSUME NEW F, Common \subseteq F, NEW root \in Roots
  PROVE  /\ Piece(F, 0, content_decrypt(root)) /\ Piece(F, 0, content_list_remote(root))
         /\ Piece(F, 0, content_list_local)
<1>0. 0 \in Nat
  OBVIOUS
<1>1. /\ Do("local") \in Ops(F) /\ Zero(Do("local"))
      /\ Do("download") \in Ops(F) /\ Zero(Do("download"))
      /\ Path(root) \in Ops(F) /\ Zero(Path(root))
      /\ Path(Addon(root)) \in Ops(F) /\ Zero(Path(Addon(root)))
      /\ Piece(F, 0, List) /\ Piece(F, 0, _download_file)
  BY CallNames, SmallPieces, SomePaths, Zenon
<1>2. Piece(F, 0, List \o _download_file)
  BY <1>1, InsideJoined, Zenon
<1>3. Piece(F, 0, IfGood(Do("local"), List \o _download_file))
  BY <1>0, <1>1, <1>2, Guarded, Zenon
<1>4. Piece(F, 0, IfGood(Path(Addon(root)), IfGood(Do("local"), List \o _download_file)))
  BY <1>0, <1>1, <1>3, Guarded, Zenon
<1>5. Piece(F, 0, content_decrypt(root))
  BY <1>4, FindPieces, Zenon DEF content_decrypt
<1>6. Piece(F, 0, content_list_remote(root)) /\ Piece(F, 0, content_list_local)
  BY <1>1, FewCalls, Zenon DEF content_list_remote, content_list_local
<1>7. QED
  BY <1>5, <1>6

\* Prepending a call to a script, and appending to one.
LEMMA Cons ==
  ASSUME NEW S, NEW x \in S, NEW t \in Seq(S)
  PROVE  /\ <<x>> \o t \in Seq(S) /\ Len(<<x>> \o t) = 1 + Len(t)
         /\ (<<x>> \o t)[1] = x /\ Len(t) \in Nat
         /\ \A i \in 1 .. Len(t) : (<<x>> \o t)[1 + i] = t[i]
  OBVIOUS

\* content_auth, up to the reset of the card and behind it.
LEMMA AuthPieces ==
  ASSUME NEW F, Common \subseteq F, {"authinfo", "authok"} \subseteq F,
         NEW last, Piece(F, 0, last), NoAuthOk(last)
  PROVE  /\ Piece(F, Len(last), Authenticated(last)) /\ Piece(F, 0, Challenge)
         /\ Piece(F, 0, content_auth(last)) /\ AuthGuarded(content_auth(last))
<1> DEFINE n == Len(last)
           R == Ops(F)
           tail == <<Do("userid"), Op("authok", <<>>, FALSE, n, 0)>>
           first == Path(<<"drv0">>)
           ask == Do("challenge")
<1>0. 0 \in Nat /\ n \in Nat /\ last \in Scripts(F)
  BY DEF Piece, Scripts
<1>1. /\ \A f \in F : Do(f) \in Ops(F) /\ Zero(Do(f))
      /\ Cards # {} => Path(<<"crd0">>) \in Ops(F) /\ Zero(Path(<<"crd0">>))
      /\ first \in Ops(F) /\ Zero(first)
      /\ {"userid", "challenge", "ifok"} \subseteq F
      /\ Piece(F, 0, ListCards)
  BY CallNames, SmallPieces, SomePaths, Zenon
<1>2. Piece(F, 0, Challenge)
  <2>1. /\ Piece(F, 0, <<Do("authinfo")>>) /\ Piece(F, 0, <<>>)
        /\ Cards # {} => Piece(F, 0, <<Path(<<"crd0">>)>>)
    BY <1>1, FewCalls, Zenon
  <2>2. Piece(F, 0, IfBad(Do("challenge"), <<Do("authinfo")>>))
    BY <1>0, <1>1, <2>1, Guarded, Zenon
  <2>3. Cards # {} =>
          Piece(F, 0, <<Path(<<"crd0">>)>> \o IfBad(Do("challenge"), <<Do("authinfo")>>))
    BY <2>1, <2>2, InsideJoined, Zenon
  <2>4. QED
    BY <2>1, <2>3, Zenon DEF Challenge
<1>3. Piece(F, n, tail)
  <2> DEFINE x == Do("userid")
             y == Op("authok", <<>>, FALSE, n, 0)
  <2>1. x \in R /\ Zero(x)
    BY <1>1, Zenon
  <2>2. y \in R /\ y.okskip = n /\ y.badskip = 0
    <3>1. <<>> \in Paths /\ FALSE \in BOOLEAN /\ "authok" \in F
      BY SomePaths, Zenon
    <3> HIDE DEF n
    <3>2. QED
      BY <1>0, <3>1, Zenon DEF Op, Ops
  <2>3. x.okskip = 0 /\ x.badskip = 0
    BY <2>1 DEF Zero
  <2> HIDE DEF x, y, R, n
  <2>4. <<x, y>> \in Seq(R) /\ Over(<<x, y>>, n)
    BY <1>0, <2>1, <2>2, <2>3 DEF Over
  <2>5. QED
    BY <2>4, Zenon DEF Piece, Scripts, R, x, y
<1> DEFINE each == IfGood(Do("ifok"), Challenge)
<1>4. Piece(F, 0, each)
  BY <1>0, <1>1, <1>2, Guarded, Zenon
<1> DEFINE rest == Authenticated(last)
<1>5. Piece(F, n, rest)
  <2>0. Piece(F, 0, ListCards \o each)
    BY <1>1, <1>4, InsideJoined, Zenon
  <2>1. tail \in Seq(R)
    BY <1>3, Zenon DEF Piece, Scripts
  <2>2. 0 <= Len(tail) + n
    <3> HIDE DEF R, tail, n
    <3>1. QED
      BY <2>1, <1>0
  <2>3. Piece(F, n, (ListCards \o each) \o tail)
    <3> HIDE DEF tail, each
    <3>1. QED
      BY <1>0, <2>0, <2>2, <1>3, PieceJoined, Zenon
  <2>4. QED
    BY <2>3, Zenon DEF Authenticated
<1>6. Piece(F, n, IfGood(ask, rest))
  BY <1>0, <1>1, <1>5, Guarded, Zenon
<1>7. Piece(F, 0, <<first>>)
  BY <1>1, FewCalls, Zenon
<1> DEFINE mid == IfGood(ask, rest)
<1> HIDE DEF rest
<1>8. Piece(F, n, <<first>> \o mid)
  <2>1. mid \in Seq(R)
    BY <1>6, Zenon DEF Piece, Scripts
  <2>2. 0 <= Len(mid) + n
    <3> HIDE DEF R, mid, n
    <3>1. QED
      BY <2>1, <1>0
  <2> HIDE DEF mid
  <2>3. QED
    BY <1>0, <1>6, <1>7, <2>2, PieceJoined, Zenon DEF mid
<1>9. Piece(F, 0, (<<first>> \o mid) \o last)
  <2>1. n <= Len(last) + 0
    BY <1>0
  <2> HIDE DEF mid
  <2>2. QED
    BY <1>0, <1>8, <2>1, PieceJoined, Zenon
<1>10. AuthGuarded((<<first>> \o mid) \o last)
  <2>1. AuthGuarded(mid)
    BY <1>1, <1>5, ChallengeFirst, Zenon DEF Piece
  <2>2. \A i \in 1 .. Len(<<first>>) :
          /\ <<first>>[i].f # "authok" /\ <<first>>[i].okskip = 0
          /\ <<first>>[i].badskip = 0
    <3>1. first.f # "authok"
      BY DEF Path, Op
    <3> HIDE DEF first
    <3>2. Len(<<first>>) = 1 /\ <<first>>[1] = first /\ \A i \in 1 .. Len(<<first>>) : i = 1
      OBVIOUS
    <3>3. QED
      BY <1>1, <3>1, <3>2, Zenon DEF Zero
  <2>3. <<first>> \in Scripts(F) /\ mid \in Scripts(F) /\ <<first>> \o mid \in Scripts(F)
    BY <1>6, <1>7, <1>8, Zenon DEF Piece
  <2>4. AuthGuarded(<<first>> \o mid)
    BY <2>1, <2>2, <2>3, AuthJoined, Zenon
  <2>5. QED
    BY <2>3, <2>4, <1>0, AuthJoined, Zenon
<1>11. QED
  BY <1>2, <1>5, <1>9, <1>10, Zenon DEF content_auth, mid, rest

\* content_reset registers a key and authenticates with it.
LEMMA ResetPieces ==
  ASSUME NEW F, Common \subseteq F, {"authinfo", "authok", "newkey"} \subseteq F
  PROVE  Piece(F, 0, content_reset) /\ AuthGuarded(content_reset)
<1> DEFINE x == Path(<<"drv0">>)
           y == Do("newkey")
           z == Do("userid")
           c == content_auth(<<Do("authno")>>)
           R == Ops(F)
<1>1. /\ \A f \in F : Do(f) \in Ops(F) /\ Zero(Do(f))
      /\ x \in Ops(F) /\ Zero(x) /\ {"userid", "authno"} \subseteq F
  BY CallNames, SomePaths, Zenon
<1>2. Piece(F, 0, <<Do("authno")>>)
  BY <1>1, FewCalls, Zenon
<1>3. NoAuthOk(<<Do("authno")>>)
  <2> DEFINE o == Do("authno")
  <2>1. o.f # "authok"
    BY DEF Do, Op
  <2> HIDE DEF o
  <2>2. Len(<<o>>) = 1 /\ <<o>>[1] = o /\ \A i \in 1 .. Len(<<o>>) : i = 1
    OBVIOUS
  <2>3. NoAuthOk(<<o>>)
    BY <2>1, <2>2, Zenon DEF NoAuthOk
  <2>4. QED
    BY <2>3 DEF o
<1>4. Piece(F, 0, c) /\ AuthGuarded(c)
  BY <1>2, <1>3, AuthPieces, Zenon
<1>5. /\ y \in R /\ Zero(y) /\ z \in R /\ Zero(z)
      /\ x.f # "authok" /\ y.f # "authok" /\ z.f # "authok"
  <2>1. x.f # "authok" /\ y.f # "authok" /\ z.f # "authok"
    BY DEF Path, Do, Op
  <2>2. QED
    BY <1>1, <2>1, Zenon
<1>6. Piece(F, 0, <<x, y, z>>)
  BY <1>1, <1>5, FewCalls, Zenon
<1>7. Piece(F, 0, <<x, y, z>> \o c)
  BY <1>4, <1>6, InsideJoined, Zenon
<1> DEFINE a == <<x, y, z>>
<1>8. \A i \in 1 .. Len(a) : a[i].f # "authok" /\ a[i].okskip = 0 /\ a[i].badskip = 0
  <2> HIDE DEF x, y, z
  <2>1. /\ Len(a) = 3 /\ a[1] = x /\ a[2] = y /\ a[3] = z
        /\ \A i \in 1 .. Len(a) : i = 1 \/ i = 2 \/ i = 3
    OBVIOUS
  <2>2. QED
    BY <1>1, <1>5, <2>1, Zenon DEF Zero
<1>9. AuthGuarded(a \o c)
  <2> HIDE DEF a, c
  <2>1. a \in Scripts(F) /\ c \in Scripts(F)
    BY <1>4, <1>6, Zenon DEF Piece, a, c
  <2>2. QED
    BY <1>4, <1>8, <2>1, AuthJoined, Zenon
<1>10. QED
  BY <1>7, <1>9, Zenon DEF content_reset

\* A script resets a medium at place i only, if at all.
ResetOnly(t, i) == \A j \in 1 .. Len(t) : t[j].f = "authinfo" => j = i /\ ResetAt(t, i)
NoReset(t) == \A j \in 1 .. Len(t) : t[j].f # "authinfo"

\* One more call of the way before the others.
LEMMA WayLonger ==
  ASSUME NEW F, NEW t \in Scripts(F), NEW o \in Ops(F), NEW i \in 1 .. 9,
         ResetOnly(t, i), o.f # "authinfo", i <= Len(t) => Way(o, i + 1)
  PROVE  ResetOnly(<<o>> \o t, i + 1)
<1> DEFINE R == Ops(F)
           u == <<o>> \o t
<1>1. t \in Seq(R) /\ o \in R
  BY Zenon DEF Scripts
<1> HIDE DEF R
<1>2. /\ Len(u) = 1 + Len(t) /\ u[1] = o /\ Len(t) \in Nat
      /\ \A j \in 1 .. Len(t) : u[1 + j] = t[j]
  <2>1. /\ Len(<<o>> \o t) = 1 + Len(t) /\ (<<o>> \o t)[1] = o /\ Len(t) \in Nat
        /\ \A k \in 1 .. Len(t) : (<<o>> \o t)[1 + k] = t[k]
    BY <1>1
  <2>2. QED
    BY <2>1, Zenon
<1> HIDE DEF u
<1>3. ASSUME NEW j \in 1 .. Len(u), u[j].f = "authinfo"
      PROVE  j = i + 1 /\ ResetAt(u, i + 1)
  <2>0. j # 1
    BY <1>2, <1>3, Zenon
  <2> DEFINE g == j - 1
  <2>1. g \in 1 .. Len(t) /\ 1 + g = j
    BY <1>2, <2>0
  <2>2. u[j] = t[g]
    BY <1>2, <2>1
  <2>3. g = i /\ ResetAt(t, i)
    BY <1>3, <2>1, <2>2, Zenon DEF ResetOnly
  <2>4. i <= 10 /\ \A k \in 2 .. i : Way(t[i + 1 - k], k)
    BY <2>3, Zenon DEF ResetAt
  <2>5. j = i + 1 /\ i + 1 <= 10 /\ i <= Len(t)
    BY <2>1, <2>3
  <2>6. ASSUME NEW k \in 2 .. i + 1
        PROVE  Way(u[(i + 1) + 1 - k], k)
    <3>1. CASE k = i + 1
      <4>1. (i + 1) + 1 - k = 1
        BY <3>1
      <4>2. QED
        BY <4>1, <3>1, <1>2, <2>5
    <3>2. CASE k # i + 1
      <4>1. /\ k \in 2 .. i /\ i + 1 - k \in 1 .. Len(t)
            /\ (i + 1) + 1 - k = 1 + (i + 1 - k)
        BY <3>2, <2>5, <1>2
      <4>2. u[(i + 1) + 1 - k] = t[i + 1 - k]
        BY <4>1, <1>2
      <4>3. QED
        BY <4>1, <4>2, <2>4, Zenon
    <3>3. QED
      BY <3>1, <3>2
  <2>7. QED
    BY <2>5, <2>6, Zenon DEF ResetAt
<1>4. QED
  BY <1>3, Zenon DEF ResetOnly, u

\* What comes behind the reset.
LEMMA WayBehind ==
  ASSUME NEW F, NEW a \in Scripts(F), NEW b \in Scripts(F), NEW i \in 1 .. 10,
         ResetOnly(a, i), NoReset(b)
  PROVE  ResetOnly(a \o b, i)
<1> DEFINE R == Ops(F)
           u == a \o b
           la == Len(a)
           lb == Len(b)
<1>1. a \in Seq(R) /\ b \in Seq(R)
  BY Zenon DEF Scripts
<1> HIDE DEF R
<1>2. /\ Len(u) = la + lb /\ la \in Nat /\ lb \in Nat
      /\ \A j \in 1 .. la : u[j] = a[j]
      /\ \A j \in 1 .. la + lb :
           \/ j \in 1 .. la /\ u[j] = a[j]
           \/ j - la \in 1 .. lb /\ u[j] = b[j - la]
  BY <1>1, Joined
<1> HIDE DEF u
<1>3. ASSUME NEW j \in 1 .. Len(u), u[j].f = "authinfo"
      PROVE  j = i /\ ResetAt(u, i)
  <2>1. j \in 1 .. la /\ u[j] = a[j]
    BY <1>2, <1>3, Zenon DEF NoReset
  <2>2. j = i /\ ResetAt(a, i)
    BY <2>1, <1>3, Zenon DEF ResetOnly
  <2>3. i <= 10 /\ \A k \in 2 .. i : Way(a[i + 1 - k], k)
    BY <2>2, Zenon DEF ResetAt
  <2>4. \A k \in 2 .. i : i + 1 - k \in 1 .. la
    BY <1>2, <2>1, <2>2
  <2>5. QED
    BY <1>2, <2>2, <2>3, <2>4, Zenon DEF ResetAt
<1>4. QED
  BY <1>3, Zenon DEF ResetOnly, u

\* content_auth resets a card with its ninth call.
LEMMA AuthWay ==
  ASSUME NEW F, Common \subseteq F, {"authinfo", "authok"} \subseteq F
  PROVE  ResetOnly(content_auth(<<>>), 9)
<1> DEFINE R == Ops(F)
           p1 == Path(<<>>)
           l2 == [Do("cards") EXCEPT !.okskip = Len(<<Do("crash")>>)]
           c3 == Do("crash")
           i4 == [Do("ifok") EXCEPT !.badskip = Len(Challenge)]
           p4 == Path(<<"crd0">>)
           h5 == [Do("challenge") EXCEPT !.okskip = Len(<<Do("authinfo")>>)]
           r6 == Do("authinfo")
           u7 == Do("userid")
           a8 == Op("authok", <<>>, FALSE, Len(<<>>), 0)
           first == Path(<<"drv0">>)
           w == Authenticated(<<>>)
           ask == [Do("challenge") EXCEPT !.badskip = Len(w)]
<1>0. Piece(F, 0, <<>>) /\ NoAuthOk(<<>>) /\ Len(<<>>) = 0
  <2>1. Len(<<>>) = 0 /\ \A i \in 1 .. Len(<<>>) : FALSE
    OBVIOUS
  <2>2. QED
    BY <2>1, FewCalls, Zenon DEF NoAuthOk
<1>1. Piece(F, 0, w)
  BY <1>0, AuthPieces, Zenon
<1>2. w \in Scripts(F) /\ Len(w) \in Nat /\ Len(Challenge) \in Nat
  <2>1. Challenge \in Scripts(F)
    BY AuthPieces, <1>0, Zenon DEF Piece
  <2>2. QED
    BY <1>1, <2>1 DEF Piece, Scripts
<1>3. /\ p1 \in R /\ p1.f = "setpath" /\ p1.p = <<>> /\ Zero(p1)
      /\ Cards # {} => /\ p4 \in R /\ p4.f = "setpath" /\ p4.p = <<"crd0">>
                       /\ Zero(p4) /\ "crd0" \in Cards
      /\ first \in R /\ first.f = "setpath" /\ Zero(first)
      /\ c3 \in R /\ c3.f = "crash"
      /\ r6 \in R /\ r6.f = "authinfo"
      /\ u7 \in R /\ u7.f = "userid"
  <2>1. {"setpath", "crash", "userid", "authinfo"} \subseteq F
    BY CallNames, Zenon
  <2>2. /\ FALSE \in BOOLEAN /\ <<"drv0">> \in Paths /\ <<>> \in Paths
        /\ Cards # {} => <<"crd0">> \in Paths /\ "crd0" \in Cards
    BY SomePaths, Zenon
  <2>3. \A p \in Paths : Path(p) \in R /\ Path(p).f = "setpath" /\ Path(p).p = p
                            /\ Zero(Path(p))
    BY <2>1, <2>2, OneCall, Zenon
  <2>4. \A f \in F : Do(f) \in R /\ Do(f).f = f
    BY <2>2, OneCall, Zenon
  <2>5. QED
    BY <2>1, <2>2, <2>3, <2>4, Zenon
<1>4. /\ l2 \in R /\ l2.f = "cards" /\ l2.okskip = 1 /\ l2.badskip = 0
      /\ h5 \in R /\ h5.f = "challenge" /\ h5.okskip = 1
      /\ ask \in R /\ ask.f = "challenge" /\ ask.okskip = 0 /\ ask.badskip = Len(w)
      /\ a8 \in R /\ a8.f = "authok"
      /\ i4 \in R /\ i4.f = "ifok" /\ i4.okskip = 0 /\ i4.badskip = Len(Challenge)
  <2>1. /\ Do("ifok") \in R /\ Do("ifok").f = "ifok" /\ Zero(Do("ifok"))
        /\ Do("cards") \in R /\ Do("cards").f = "cards" /\ Zero(Do("cards"))
        /\ Do("challenge") \in R /\ Do("challenge").f = "challenge"
        /\ Zero(Do("challenge"))
    <3>1. "cards" \in F /\ "challenge" \in F /\ "ifok" \in F
      BY CallNames, Zenon
    <3>2. FALSE \in BOOLEAN /\ <<>> \in Paths
      BY SomePaths, Zenon
    <3>3. QED
      BY <3>1, <3>2, OneCall, Zenon
  <2>2. Len(<<Do("crash")>>) = 1 /\ Len(<<Do("authinfo")>>) = 1 /\ 1 \in Nat
    OBVIOUS
  <2> DEFINE li == Do("cards")
             ch == Do("challenge")
             fo == Do("ifok")
             n == Len(w)
             m == Len(Challenge)
             k1 == Len(<<Do("crash")>>)
             k2 == Len(<<Do("authinfo")>>)
  <2>3. a8 \in R /\ a8.f = "authok"
    <3>1. "authok" \in F /\ <<>> \in Paths /\ FALSE \in BOOLEAN /\ 0 \in Nat
      BY SomePaths, Zenon
    <3>2. QED
      BY <3>1, <1>0, Zenon DEF Op, Ops
  <2> HIDE DEF li, ch, fo, n, m, k1, k2
  <2>4. [li EXCEPT !.okskip = k1] = l2 /\ [ch EXCEPT !.okskip = k2] = h5
        /\ [ch EXCEPT !.badskip = n] = ask /\ [fo EXCEPT !.badskip = m] = i4
    BY Zenon DEF li, ch, fo, n, m, k1, k2
  <2>5. n \in Nat /\ k1 = 1 /\ k2 = 1 /\ li \in R /\ li.f = "cards" /\ Zero(li)
        /\ ch \in R /\ ch.f = "challenge" /\ Zero(ch) /\ 1 \in Nat
        /\ m \in Nat /\ fo \in R /\ fo.f = "ifok" /\ Zero(fo)
    BY <1>2, <2>1, <2>2, Zenon DEF li, ch, fo, n, m, k1, k2
  <2>6. /\ [li EXCEPT !.okskip = k1] \in R /\ [li EXCEPT !.okskip = k1].f = "cards"
        /\ [li EXCEPT !.okskip = k1].okskip = k1
        /\ [li EXCEPT !.okskip = k1].badskip = 0
        /\ [ch EXCEPT !.okskip = k2] \in R /\ [ch EXCEPT !.okskip = k2].f = "challenge"
        /\ [ch EXCEPT !.okskip = k2].okskip = k2
        /\ [ch EXCEPT !.badskip = n] \in R /\ [ch EXCEPT !.badskip = n].f = "challenge"
        /\ [ch EXCEPT !.badskip = n].okskip = 0
        /\ [ch EXCEPT !.badskip = n].badskip = n
        /\ [fo EXCEPT !.badskip = m] \in R /\ [fo EXCEPT !.badskip = m].f = "ifok"
        /\ [fo EXCEPT !.badskip = m].okskip = 0
        /\ [fo EXCEPT !.badskip = m].badskip = m
    BY <2>5, Zenon DEF Ops, Zero
  <2>7. QED
    BY <2>3, <2>4, <2>5, <2>6, Zenon DEF n, m
<1> DEFINE tail == <<u7, a8>>
<1>5. /\ ListCards = <<p1>> \o (<<l2>> \o <<c3>>)
      /\ Cards # {} => Challenge = <<p4>> \o (<<h5>> \o <<r6>>)
      /\ Cards = {} => Challenge = <<>>
      /\ w = (ListCards \o (<<i4>> \o Challenge)) \o tail
      /\ content_auth(<<>>) = (<<first>> \o (<<ask>> \o w)) \o <<>>
  BY Zenon DEF ListCards, Challenge, Authenticated, content_auth, IfBad, IfGood
<1> HIDE DEF R, p1, l2, c3, i4, p4, h5, r6, u7, a8, first, w, ask
<1>6. \A x \in R : <<x>> \in Seq(R)
  OBVIOUS
<1>7. <<>> \in Scripts(F) /\ tail \in Scripts(F) /\ NoReset(tail) /\ NoReset(<<>>)
  <2>1. /\ <<>> \in Seq(R) /\ tail \in Seq(R) /\ Len(tail) = 2
        /\ tail[1] = u7
        /\ tail[2] = a8 /\ (\A i \in 1 .. Len(tail) : i = 1 \/ i = 2)
        /\ \A i \in 1 .. Len(<<>>) : FALSE
    BY <1>3, <1>4
  <2>2. "userid" # "authinfo" /\ "authok" # "authinfo"
    OBVIOUS
  <2>3. NoReset(<<>>)
    BY <2>1 DEF NoReset
  <2>4. ASSUME NEW i \in 1 .. Len(tail)
        PROVE  tail[i].f # "authinfo"
    <3>1. tail[i] = u7 \/ tail[i] = a8
      BY <2>1, Zenon
    <3>2. QED
      BY <3>1, <1>3, <1>4, <2>2, Zenon
  <2> HIDE DEF tail
  <2>5. QED
    BY <2>1, <2>3, <2>4, Zenon DEF NoReset, Scripts, R
<1>8. ResetOnly(Challenge, 3) /\ Challenge \in Scripts(F)
  <2>1. CASE Cards = {}
    <3>1. \A i \in 1 .. Len(<<>>) : FALSE
      OBVIOUS
    <3>2. QED
      BY <2>1, <3>1, <1>5, <1>7, Zenon DEF ResetOnly
  <2>2. CASE Cards # {}
    <3>1. <<r6>> \in Scripts(F) /\ ResetOnly(<<r6>>, 1)
      <4>1. Len(<<r6>>) = 1 /\ \A i \in 1 .. Len(<<r6>>) : i = 1
        OBVIOUS
      <4>2. 1 <= 10 /\ \A k \in 2 .. 1 : FALSE
        OBVIOUS
      <4>3. ResetAt(<<r6>>, 1)
        BY <4>2, Zenon DEF ResetAt
      <4>4. QED
        BY <1>3, <1>6, <4>1, <4>3, Zenon DEF ResetOnly, Scripts, R
    <3>2. /\ 1 \in 1 .. 9 /\ 1 + 1 = 2 /\ 2 \in 1 .. 9 /\ 2 + 1 = 3
          /\ Way(h5, 2) /\ h5.f # "authinfo" /\ Way(p4, 3) /\ p4.f # "authinfo"
      BY <2>2, <1>3, <1>4 DEF Way
    <3>3. ResetOnly(<<h5>> \o <<r6>>, 1 + 1)
      BY <3>1, <3>2, <1>4, WayLonger, Zenon DEF R
    <3>4. <<h5>> \o <<r6>> \in Scripts(F)
      BY <1>3, <1>4, <1>6, Cons, Zenon DEF Scripts, R
    <3>5. ResetOnly(<<p4>> \o (<<h5>> \o <<r6>>), 2 + 1)
      BY <2>2, <3>2, <3>3, <3>4, <1>3, WayLonger, Zenon DEF R
    <3>6. <<p4>> \o (<<h5>> \o <<r6>>) \in Scripts(F)
      BY <2>2, <1>3, <3>4, Cons, Zenon DEF Scripts, R
    <3>7. QED
      BY <2>2, <3>2, <3>5, <3>6, <1>5, Zenon
  <2>3. QED
    BY <2>1, <2>2
<1> DEFINE each == <<i4>> \o Challenge
<1>8a. ResetOnly(each, 4) /\ each \in Scripts(F)
  <2>1. 3 \in 1 .. 9 /\ 3 + 1 = 4 /\ i4.f # "authinfo" /\ (3 <= Len(Challenge) => Way(i4, 4))
    BY <1>2, <1>4 DEF Way
  <2>2. QED
    BY <2>1, <1>4, <1>8, WayLonger, Cons, ZenonT(60) DEF Scripts, R
<1> HIDE DEF each
<1> DEFINE x3 == <<c3>> \o each
           x2 == <<l2>> \o x3
           x1 == <<p1>> \o x2
<1>9. ListCards \o each = x1
  <2>1. /\ <<p1>> \in Seq(R) /\ <<l2>> \in Seq(R) /\ <<c3>> \in Seq(R)
        /\ each \in Seq(R)
    BY <1>3, <1>4, <1>6, <1>8a, Zenon DEF Scripts, R
  <2>2. <<l2>> \o <<c3>> \in Seq(R)
    BY <2>1, ConcatProperties, Zenon
  <2> DEFINE a == <<p1>>
             b == <<l2>>
             c == <<c3>>
             d == each
  <2> HIDE DEF a, b, c, d
  <2>3. a \in Seq(R) /\ b \in Seq(R) /\ c \in Seq(R) /\ d \in Seq(R) /\ b \o c \in Seq(R)
    BY <2>1, <2>2 DEF a, b, c, d
  <2>4. (b \o c) \o d = b \o (c \o d)
    BY <2>3, ConcatAssociative
  <2>5. (a \o (b \o c)) \o d = a \o ((b \o c) \o d)
    BY <2>3, ConcatAssociative, SMTT(30)
  <2>6. (a \o (b \o c)) \o d = a \o (b \o (c \o d))
    BY <2>4, <2>5, Zenon
  <2>7. QED
    BY <2>6, <1>5, Zenon DEF a, b, c, d
<1>10. ResetOnly(x1, 7) /\ x1 \in Scripts(F)
  <2>1. /\ 4 \in 1 .. 9 /\ 4 + 1 = 5 /\ 5 \in 1 .. 9 /\ 5 + 1 = 6 /\ 6 \in 1 .. 9
        /\ 6 + 1 = 7
        /\ Way(c3, 5) /\ c3.f # "authinfo" /\ Way(l2, 6) /\ l2.f # "authinfo"
        /\ Way(p1, 7) /\ p1.f # "authinfo"
    BY <1>3, <1>4 DEF Way
  <2>2. x3 \in Scripts(F) /\ ResetOnly(x3, 4 + 1)
    BY <2>1, <1>3, <1>8a, WayLonger, Cons, Zenon DEF Scripts, R
  <2>3. x2 \in Scripts(F) /\ ResetOnly(x2, 5 + 1)
    <3> HIDE DEF x3
    <3>1. QED
      BY <2>1, <2>2, <1>4, WayLonger, Cons, Zenon DEF Scripts, R
  <2>4. x1 \in Scripts(F) /\ ResetOnly(x1, 6 + 1)
    <3> HIDE DEF x2
    <3>1. QED
      BY <2>1, <2>3, <1>3, WayLonger, Cons, Zenon DEF Scripts, R
  <2>5. QED
    BY <2>1, <2>4, Zenon
<1>11. ResetOnly(w, 7)
  <2>1. 7 \in 1 .. 10
    OBVIOUS
  <2> HIDE DEF x1, tail
  <2>2. QED
    BY <2>1, <1>5, <1>7, <1>9, <1>10, WayBehind, Zenon DEF each
<1> DEFINE v == <<ask>> \o w
<1>12. ResetOnly(v, 8) /\ v \in Scripts(F)
  <2>1. 7 \in 1 .. 9 /\ 7 + 1 = 8 /\ ask.f # "authinfo" /\ (7 <= Len(w) => Way(ask, 8))
    BY <1>2, <1>4 DEF Way
  <2>2. QED
    BY <2>1, <1>2, <1>4, <1>11, WayLonger, Cons, ZenonT(60) DEF Scripts, R
<1>13. ResetOnly(<<first>> \o v, 9) /\ <<first>> \o v \in Scripts(F)
  <2>1. 8 \in 1 .. 9 /\ 8 + 1 = 9 /\ first.f # "authinfo" /\ Way(first, 9)
    BY <1>3 DEF Way
  <2> HIDE DEF v
  <2>2. QED
    BY <2>1, <1>3, <1>12, WayLonger, Cons, Zenon DEF Scripts, R
<1>14. 9 \in 1 .. 10
  OBVIOUS
<1>15. ResetOnly((<<first>> \o v) \o <<>>, 9)
  <2> HIDE DEF v
  <2>1. QED
    BY <1>7, <1>13, <1>14, WayBehind, Zenon
<1>16. QED
  BY <1>5, <1>15, Zenon

\* The same, behind the reading of user.inf.
LEMMA NamedAuthWay ==
  ASSUME NEW F, Common \subseteq F, {"authinfo", "authok"} \subseteq F
  PROVE  LET t == IfGood(Do("download"), content_auth(<<>>))
         IN Piece(F, 0, t) /\ AuthGuarded(t) /\ ResetOnly(t, 10)
<1> DEFINE w == content_auth(<<>>)
           n == Len(w)
           R == Ops(F)
           g == Do("download")
           o == [g EXCEPT !.badskip = n]
<1>1. Piece(F, 0, w) /\ AuthGuarded(w) /\ ResetOnly(w, 9)
  <2>1. Len(<<>>) = 0 /\ \A i \in 1 .. Len(<<>>) : FALSE
    OBVIOUS
  <2>2. Piece(F, 0, <<>>) /\ NoAuthOk(<<>>)
    BY <2>1, FewCalls, Zenon DEF NoAuthOk
  <2>3. QED
    BY <2>2, AuthPieces, AuthWay, Zenon
<1>2. w \in Scripts(F) /\ n \in Nat /\ w \in Seq(R)
  BY <1>1 DEF Piece, Scripts
<1>3. g \in R /\ g.f = "download" /\ Zero(g)
  <2>1. "download" \in F /\ FALSE \in BOOLEAN /\ <<>> \in Paths
    BY CallNames, SomePaths, Zenon
  <2>2. QED
    BY <2>1, OneCall, Zenon
<1>4. Piece(F, 0, IfGood(g, w))
  BY <1>1, <1>3, Guarded, Zenon
<1>5. IfGood(g, w) = <<o>> \o w
  BY DEF IfGood
<1> HIDE DEF w, g, n
<1>6. o \in R /\ o.f = "download" /\ o.okskip = 0 /\ o.badskip = n
  BY <1>2, <1>3, Zenon DEF Ops, Zero
<1> HIDE DEF o, R
<1>7. /\ <<o>> \in Seq(R) /\ Len(<<o>>) = 1 /\ <<o>>[1] = o
      /\ \A i \in 1 .. Len(<<o>>) : i = 1
  BY <1>6
<1>8. AuthGuarded(<<o>> \o w)
  <2>1. 1 + o.badskip = 1 + Len(w) /\ "download" # "authok"
    BY <1>6 DEF n
  <2>2. \A i \in 1 .. Len(<<o>>) :
          /\ <<o>>[i].f # "authok" /\ <<o>>[i].okskip = 0
          /\ <<o>>[i].badskip = 0 \/ i + <<o>>[i].badskip = Len(<<o>>) + Len(w)
    BY <1>6, <1>7, <2>1, Zenon
  <2>3. <<o>> \in Scripts(F)
    BY <1>7, Zenon DEF Scripts, R
  <2>4. QED
    BY <1>1, <1>2, <2>2, <2>3, AuthJoined, Zenon
<1>9. ResetOnly(<<o>> \o w, 10)
  <2>1. 9 \in 1 .. 9 /\ 9 + 1 = 10 /\ o.f # "authinfo" /\ (9 <= Len(w) => Way(o, 10))
    BY <1>2, <1>6 DEF Way, n
  <2>2. QED
    BY <2>1, <1>1, <1>2, <1>6, WayLonger, Zenon DEF R
<1>10. QED
  BY <1>4, <1>5, <1>8, <1>9, Zenon DEF g, w

\* Where a reset is, before the first call of auth.
ResetsLate(t) == ResetOnly(t, 9) \/ ResetOnly(t, 10)

\* content_remove goes to the root of its medium first, and to no other place
\* before it has removed the add-on.
NoRemove(t) == \A i \in 1 .. Len(t) : t[i].f # "remove"
NoPathBefore(t, n) ==
  \A i, j \in 1 .. Len(t) :
    t[i].f = "remove" /\ n < j /\ j < i => t[j].f \notin {"setpath", "_setpath"}
Towards(t, root) ==
  t # <<>> /\ t[1].f = "setpath" /\ t[1].p = root /\ NoPathBefore(t, 1)

\* content_remove begins so.
LEMMA RemoveWay ==
  ASSUME NEW root \in Roots
  PROVE  Towards(content_remove(root), root)
<1> DEFINE G == {"find", "unlock", "cname", "cryptkey", "ifok", "remove", "lock"}
           H == G \cup {"setpath"}
           R == Ops(H)
           p == Path(root)
           mid == <<Do("remove")>>
           X == Unlocked \o IfGood(Do("ifok"), mid) \o <<Do("lock")>>
           Y == IfGood(Find(root), X)
<1>1. /\ G \subseteq H /\ "setpath" \in H /\ "setpath" \notin G /\ "_setpath" \notin G
      /\ {"unlock", "cname", "cryptkey", "ifok", "remove", "lock", "find"} \subseteq G
  OBVIOUS
<1>2. root \in Paths /\ <<>> \in Paths /\ FALSE \in BOOLEAN
  BY SomePaths, Zenon
<1> HIDE DEF G, H
<1>3. /\ \A f \in G : Do(f) \in Ops(G) /\ Zero(Do(f))
      /\ p \in R /\ p.f = "setpath" /\ p.p = root
  <2>1. \A f \in G : Do(f) \in Ops(G) /\ Zero(Do(f))
    BY <1>2, OneCall, Zenon
  <2>2. p \in R /\ p.f = "setpath" /\ p.p = root
    <3>1. 0 \in Nat
      OBVIOUS
    <3>2. QED
      BY <1>1, <1>2, <3>1, Zenon DEF Path, Op, Ops
  <2>3. QED
    BY <2>1, <2>2
<1>4. Find(root) \in Ops(G) /\ Zero(Find(root))
  <2>1. 0 \in Nat /\ "find" \in G
    BY <1>1
  <2>2. QED
    BY <1>2, <2>1, Zenon DEF Find, Op, Ops, Zero
<1>5. Piece(G, 0, Y)
  <2>1. /\ Piece(G, 0, mid) /\ Piece(G, 0, Unlocked) /\ Piece(G, 0, <<Do("lock")>>)
        /\ Do("ifok") \in Ops(G) /\ Zero(Do("ifok")) /\ 0 \in Nat
    <3>1. /\ "unlock" \in G /\ "cname" \in G /\ "cryptkey" \in G /\ "ifok" \in G
          /\ "remove" \in G /\ "lock" \in G /\ 0 \in Nat
      BY <1>1
    <3>2. QED
      BY <1>3, <3>1, FewCalls, Zenon DEF Unlocked
  <2>2. Piece(G, 0, IfGood(Do("ifok"), mid))
    BY <2>1, Guarded, Zenon
  <2>3. Piece(G, 0, X)
    BY <2>1, <2>2, InsideJoined, Zenon
  <2> HIDE DEF X
  <2>4. QED
    BY <1>4, <2>1, <2>3, Guarded, Zenon
<1>6. content_remove(root) = <<p>> \o Y
  BY Zenon DEF content_remove, IfFound
<1> HIDE DEF Y, p
<1>7. Y \in Seq(R) /\ \A i \in 1 .. Len(Y) : Y[i].f \in G
  <2>1. Y \in Scripts(G)
    BY <1>5, Zenon DEF Piece
  <2>2. Y \in Scripts(H)
    BY <1>1, <2>1, Wider, Zenon
  <2>3. \A i \in 1 .. Len(Y) : Y[i].f \in G
    BY <2>1, CallIn, Zenon
  <2>4. QED
    BY <2>2, <2>3, Zenon DEF Scripts
<1> DEFINE t == <<p>> \o Y
<1> HIDE DEF R
<1>8. /\ t \in Seq(R) /\ Len(t) = 1 + Len(Y) /\ t[1] = p /\ Len(Y) \in Nat
      /\ \A i \in 1 .. Len(Y) : t[1 + i] = Y[i]
  <2>1. p \in R /\ Y \in Seq(R)
    BY <1>3, <1>7, Zenon
  <2>2. QED
    BY <2>1
<1> HIDE DEF t
<1>9. t # <<>>
  BY <1>8
<1>10. NoPathBefore(t, 1)
  <2>1. SUFFICES ASSUME NEW j \in 1 .. Len(t), 1 < j PROVE t[j].f \in G
    BY <1>1, <2>1, Zenon DEF NoPathBefore
  <2>2. j - 1 \in 1 .. Len(Y) /\ j = 1 + (j - 1)
    BY <1>8, <2>1
  <2>3. QED
    BY <1>7, <1>8, <2>2, Zenon
<1>11. QED
  BY <1>3, <1>6, <1>8, <1>9, <1>10, Zenon DEF Towards, t
-----------------------------------------------------------------------------
(* How a command brings the device back to the path shown.  t is what is   *)
(* left of it.                                                             *)

\* content ends with a way back to the path, or else to its medium.
HomeTwo(t, cwd) ==
  /\ Len(t) >= 2
  /\ t[Len(t) - 1].f = "setpath" /\ t[Len(t) - 1].p = cwd
  /\ t[Len(t) - 1].okskip = 1 /\ t[Len(t) - 1].badskip = 0
  /\ t[Len(t)].f = "_setpath" /\ Len(t[Len(t)].p) = 1 /\ Zero(t[Len(t)])
  /\ \A j \in 1 .. Len(t) : j < Len(t) - 1 =>
       /\ t[j].f # "_setpath"
       /\ j + t[j].okskip <= Len(t) - 2 /\ j + t[j].badskip <= Len(t) - 2

\* connect, and what is left of content, end at the root of a medium.
HomeOne(t) ==
  /\ Len(t) >= 1
  /\ t[Len(t)].f = "_setpath" /\ Len(t[Len(t)].p) = 1 /\ Zero(t[Len(t)])
  /\ \A j \in 1 .. Len(t) : j < Len(t) =>
       /\ t[j].f # "_setpath"
       /\ j + t[j].okskip <= Len(t) - 1 /\ j + t[j].badskip <= Len(t) - 1

\* setpath goes back when the new path is refused.
SetTwo(t, cwd) ==
  /\ Len(t) = 2 /\ t[1].f = "_setpath" /\ t[1].okskip = 1 /\ t[1].badskip = 0
  /\ t[2].f = "setpath" /\ t[2].p = cwd /\ Zero(t[2])
SetOne(t, cwd) == Len(t) = 1 /\ t[1].f = "setpath" /\ t[1].p = cwd /\ Zero(t[1])

\* The other commands stay where they are, or end in a crash.
Staying == {"model", "format", "delete", "send", "crash"}
Stays(t) == \A i \in 1 .. Len(t) : t[i].f \in Staying

\* The calls of a script of two parts.
Parts(t, a, b) ==
  /\ Len(t) = Len(a) + Len(b) /\ Len(a) \in Nat /\ Len(b) \in Nat
  /\ \A i \in 1 .. Len(a) : t[i] = a[i]
  /\ \A i \in 1 .. Len(b) : t[Len(a) + i] = b[i]
  /\ \A i \in 1 .. Len(t) : \/ i \in 1 .. Len(a) /\ t[i] = a[i]
                            \/ i - Len(a) \in 1 .. Len(b) /\ t[i] = b[i - Len(a)]

\* A concatenation has these parts.
LEMMA JoinedParts ==
  ASSUME NEW F, NEW a \in Scripts(F), NEW b \in Scripts(F)
  PROVE  a \o b \in Scripts(F) /\ Parts(a \o b, a, b)
<1> DEFINE R == Ops(F)
<1>1. a \in Seq(R) /\ b \in Seq(R)
  BY Zenon DEF Scripts
<1> HIDE DEF R
<1>2. /\ a \o b \in Seq(R) /\ Len(a \o b) = Len(a) + Len(b)
      /\ Len(a) \in Nat /\ Len(b) \in Nat
      /\ \A i \in 1 .. Len(a) : (a \o b)[i] = a[i]
      /\ \A i \in 1 .. Len(b) : (a \o b)[Len(a) + i] = b[i]
      /\ \A i \in 1 .. Len(a) + Len(b) :
           \/ i \in 1 .. Len(a) /\ (a \o b)[i] = a[i]
           \/ i - Len(a) \in 1 .. Len(b) /\ (a \o b)[i] = b[i - Len(a)]
  BY <1>1, Joined
<1>3. QED
  BY <1>2, Zenon DEF Scripts, R, Parts

\* The calls that only some commands make.
Rare == {"unlock", "authok", "authinfo", "remove", "newkey", "format"}

\* The script of a content operation.
LEMMA HomeScript ==
  ASSUME NEW F, F \subseteq Work, "_setpath" \notin F, NEW a, Piece(F, 0, a),
         UnlockSafe(a), AuthGuarded(a), NEW c, CallsOf(a, c),
         c = "auth" => ResetsLate(a), NEW cwd \in Cwds, NEW root \in Roots
  PROVE  LET t == a \o IfBad(Path(cwd), <<Op("_setpath", root, FALSE, 0, 0)>>)
         IN /\ ScriptOK(t, c) /\ HomeTwo(t, cwd) /\ (c = "auth" => ResetsLate(t))
            /\ NoRemove(a) => NoRemove(t)
            /\ \A r : Towards(a, r) => Towards(t, r)
<1> DEFINE R == Ops(Work)
           y == Op("_setpath", root, FALSE, 0, 0)
           x == [Path(cwd) EXCEPT !.okskip = Len(<<y>>)]
           b == <<x>> \o <<y>>
           t == a \o b
           la == Len(a)
<1>1. /\ y \in R /\ y.f = "_setpath" /\ y.p = root /\ Zero(y)
      /\ Path(cwd) \in R /\ Path(cwd).f = "setpath" /\ Path(cwd).p = cwd
      /\ Zero(Path(cwd))
  <2>1. root \in Paths /\ cwd \in Paths /\ FALSE \in BOOLEAN
    BY SomePaths, Zenon
  <2>2. "setpath" \in Work /\ "_setpath" \in Work
    BY DEF Work, Common
  <2>3. QED
    BY <2>1, <2>2, OneCall, ZenonT(60)
<1>2. /\ x \in R /\ x.f = "setpath" /\ x.p = cwd /\ x.okskip = 1 /\ x.badskip = 0
  <2>1. Len(<<y>>) = 1 /\ 1 \in Nat
    OBVIOUS
  <2> DEFINE o == Path(cwd)
             n == Len(<<y>>)
  <2>2. n = 1 /\ n \in Nat /\ o \in R /\ o.f = "setpath" /\ o.p = cwd /\ Zero(o)
    BY <1>1, <2>1, Zenon
  <2>3. x = [o EXCEPT !.okskip = n]
    BY Zenon
  <2> HIDE DEF o, n, x
  <2>4. QED
    BY <2>2, <2>3, Zenon DEF Ops, Zero
<1>3. a \in Scripts(F) /\ a \in Seq(R) /\ a \in Scripts(Work)
  BY Wider, Zenon DEF Piece, Scripts
<1> HIDE DEF R, x, y
<1>4. /\ b \in Seq(R) /\ Len(b) = 2 /\ b[1] = x /\ b[2] = y
      /\ \A i \in 1 .. Len(b) : i = 1 \/ i = 2
  BY <1>1, <1>2
<1> HIDE DEF b
<1>5. b \in Scripts(Work)
  BY <1>4, Zenon DEF Scripts, R
<1>6. t \in Scripts(Work) /\ Parts(t, a, b)
  BY <1>3, <1>5, JoinedParts, Zenon
<1>7. "_setpath" \notin F /\ \A i \in 1 .. la : a[i].f \in F
  BY <1>3, CallIn, Zenon
<1>8. \A i \in 1 .. Len(b) :
        /\ b[i].f \notin Rare
        /\ b[i].f = "_setpath" => b[i].p \in Cwds
  <2>1. x.f \notin Rare /\ x.f # "_setpath"
    BY <1>2 DEF Rare
  <2>2. y.f \notin Rare
    BY <1>1 DEF Rare
  <2>3. y.p \in Cwds
    BY <1>1, SomePaths, Zenon
  <2>4. QED
    BY <2>1, <2>2, <2>3, <1>4, Zenon
<1>9. UnlockSafe(b) /\ NoAuthOk(b) /\ NoReset(b) /\ CallsOf(b, c) /\ SetsCwd(b)
  BY <1>8, Zenon DEF Rare, UnlockSafe, NoAuthOk, NoReset, CallsOf, SetsCwd
<1>10. SetsCwd(a)
  BY <1>7, Zenon DEF SetsCwd
<1> HIDE DEF t
<1>11. CallsOf(t, c) /\ SetsCwd(t)
  <2>1. \A i \in 1 .. Len(t) : \/ i \in 1 .. la /\ t[i] = a[i]
                               \/ i - la \in 1 .. Len(b) /\ t[i] = b[i - la]
    BY <1>6, Zenon DEF Parts
  <2>2. QED
    BY <2>1, <1>9, <1>10, Zenon DEF CallsOf, SetsCwd
<1>12. UnlockSafe(t) /\ AuthGuarded(t)
  BY <1>3, <1>5, <1>9, UnlockSafeJoined, AuthJoined, Zenon DEF t
<1>13. c = "auth" => ResetsLate(t)
  <2>1. 9 \in 1 .. 10 /\ 10 \in 1 .. 10
    OBVIOUS
  <2>2. QED
    BY <2>1, <1>3, <1>5, <1>9, WayBehind, Zenon DEF ResetsLate, t
<1>14. c = "auth" => ResetsCard(t)
  BY <1>13, Zenon DEF ResetsCard, ResetsLate, ResetOnly
<1>15. HomeTwo(t, cwd)
  <2>0. /\ Len(t) = la + Len(b) /\ la \in Nat /\ Len(b) = 2
        /\ \A i \in 1 .. la : t[i] = a[i]
        /\ \A i \in 1 .. Len(b) : t[la + i] = b[i]
    BY <1>4, <1>6, Zenon DEF Parts
  <2>1. /\ Len(t) >= 2 /\ Len(t) - 1 = la + 1 /\ Len(t) = la + 2
        /\ 1 \in 1 .. Len(b) /\ 2 \in 1 .. Len(b)
    BY <2>0
  <2>2. t[la + 1] = x /\ t[la + 2] = y
    BY <2>0, <2>1, <1>4, Zenon
  <2>3. Len(root) = 1
    BY Zenon DEF Roots
  <2>4. t[Len(t) - 1] = x /\ t[Len(t)] = y
    BY <2>1, <2>2, Zenon
  <2>5. ASSUME NEW j \in 1 .. Len(t), j < Len(t) - 1
        PROVE  /\ t[j].f # "_setpath"
               /\ j + t[j].okskip <= Len(t) - 2 /\ j + t[j].badskip <= Len(t) - 2
    <3>1. j \in 1 .. la
      BY <2>1, <2>5, <2>0
    <3>2. t[j] = a[j] /\ a[j].f # "_setpath"
      BY <3>1, <2>0, <1>7, Zenon
    <3>3. j + a[j].okskip <= la + 0 /\ j + a[j].badskip <= la + 0
      BY <3>1, Zenon DEF Piece, Over
    <3>4. la + 0 = Len(t) - 2
      BY <2>0, <2>1
    <3>5. QED
      BY <3>2, <3>3, <3>4, Zenon
  <2>6. QED
    BY <2>1, <2>3, <2>4, <2>5, <1>1, <1>2, Zenon DEF HomeTwo
<1>16. ScriptOK(t, c) /\ HomeTwo(t, cwd) /\ (c = "auth" => ResetsLate(t))
  BY <1>6, <1>11, <1>12, <1>13, <1>14, <1>15, Zenon DEF ScriptOK
<1>19. NoRemove(b)
  BY <1>8, Zenon DEF Rare, NoRemove
<1>20. NoRemove(a) => NoRemove(t)
  BY <1>6, <1>19, Zenon DEF NoRemove, Parts
<1>21. ASSUME NEW r, Towards(a, r) PROVE Towards(t, r)
  <2>0. /\ Len(t) = la + Len(b) /\ la \in Nat /\ Len(b) = 2 /\ t \in Seq(R)
        /\ \A i \in 1 .. la : t[i] = a[i]
        /\ \A i \in 1 .. Len(b) : t[la + i] = b[i]
    BY <1>4, <1>6, Zenon DEF Parts, Scripts, R
  <2>1. 1 \in 1 .. la
    BY <1>3, <1>21 DEF Towards
  <2>2. t # <<>> /\ t[1] = a[1]
    BY <2>0, <2>1
  <2>3. ASSUME NEW i \in 1 .. Len(t), NEW j \in 1 .. Len(t), t[i].f = "remove", 1 < j, j < i
        PROVE  t[j].f \notin {"setpath", "_setpath"}
    <3>1. i \in 1 .. la
      <4>1. \/ i \in 1 .. la /\ t[i] = a[i]
            \/ i - la \in 1 .. Len(b) /\ t[i] = b[i - la]
        BY <1>6, Zenon DEF Parts
      <4>2. QED
        BY <1>19, <2>3, <4>1, Zenon DEF NoRemove
    <3>2. j \in 1 .. la
      BY <2>0, <2>3, <3>1
    <3>3. t[i] = a[i] /\ t[j] = a[j]
      BY <2>0, <3>1, <3>2, Zenon
    <3>4. QED
      BY <1>21, <2>3, <3>1, <3>2, <3>3, Zenon DEF Towards, NoPathBefore
  <2>4. QED
    BY <1>21, <2>2, <2>3, Zenon DEF Towards, NoPathBefore
<1>17. t = a \o IfBad(Path(cwd), <<Op("_setpath", root, FALSE, 0, 0)>>)
  BY Zenon DEF t, b, x, y, IfBad
<1>18. QED
  BY <1>16, <1>17, <1>20, <1>21, Zenon

\* The calls that are left, by place.
LeftOf(u, t, n) ==
  /\ Len(t) \in Nat /\ Len(t) >= 1 /\ Len(u) \in Nat
  /\ \A i \in 1 .. Len(u) : i + 1 + n \in 1 .. Len(t) /\ u[i] = t[i + 1 + n]
  /\ Len(t) > 1 + n => Len(u) = Len(t) - 1 - n
  /\ Len(t) <= 1 + n => u = <<>>

\* After(n) leaves this much of a script.
LEMMA LeftKnown ==
  ASSUME NEW F, NEW t \in Scripts(F), t # <<>>, NEW n \in Nat
  PROVE  LeftOf(Left(t, n), t, n)
  BY LeftIs, ZenonT(60) DEF LeftOf

Homeward(t, cwd) == HomeTwo(t, cwd) \/ HomeOne(t) \/ SetTwo(t, cwd) \/ SetOne(t, cwd)

\* What is left before the last calls leads home too.
LEMMA HomeLeft ==
  ASSUME NEW F, NEW t \in Scripts(F), t # <<>>, NEW n \in Nat, NEW cwd,
         n \in {0, t[1].okskip, t[1].badskip}
  PROVE  /\ HomeTwo(t, cwd) /\ Len(t) > 2 => t[1].f # "_setpath" /\ HomeTwo(Left(t, n), cwd)
         /\ HomeOne(t) /\ Len(t) > 1 => t[1].f # "_setpath" /\ HomeOne(Left(t, n))
<1> DEFINE u == Left(t, n)
           l == Len(t)
           x0 == t[1].okskip
           y0 == t[1].badskip
<1>1. /\ l \in Nat /\ l >= 1 /\ Len(u) \in Nat
      /\ \A i \in 1 .. Len(u) : i + 1 + n \in 1 .. l /\ u[i] = t[i + 1 + n]
      /\ l > 1 + n => Len(u) = l - 1 - n
  <2>1. LeftOf(u, t, n)
    BY LeftKnown, Zenon
  <2> HIDE DEF u
  <2>2. QED
    BY <2>1, Zenon DEF LeftOf
<1>2. 1 \in 1 .. l
  BY <1>1
<1>3. x0 \in Nat /\ y0 \in Nat
  BY <1>2, CallIn, Zenon
<1> HIDE DEF u, x0, y0
<1>4. ASSUME NEW m \in {1, 2}, l > m,
             \A j \in 1 .. l : j < l + 1 - m =>
               /\ t[j].f # "_setpath"
               /\ j + t[j].okskip <= l - m /\ j + t[j].badskip <= l - m
      PROVE  /\ t[1].f # "_setpath" /\ Len(u) = l - 1 - n /\ Len(u) >= m
             /\ u[Len(u)] = t[l] /\ (m = 2 => u[Len(u) - 1] = t[l - 1])
             /\ \A j \in 1 .. Len(u) : j < Len(u) + 1 - m =>
                  /\ u[j].f # "_setpath"
                  /\ j + u[j].okskip <= Len(u) - m /\ j + u[j].badskip <= Len(u) - m
  <2>1. 1 < l + 1 - m
    BY <1>1, <1>4
  <2>2. t[1].f # "_setpath" /\ 1 + x0 <= l - m /\ 1 + y0 <= l - m
    BY <2>1, <1>2, <1>4, Zenon DEF x0, y0
  <2>3. n \in {0, x0, y0}
    BY DEF x0, y0
  <2>4. 1 + n <= l - m
    BY <2>2, <2>3, <1>1, <1>3, <1>4
  <2>5. Len(u) = l - 1 - n /\ Len(u) >= m /\ Len(u) \in Nat
    BY <2>4, <1>1, <1>4
  <2>6. u[Len(u)] = t[l]
    <3>1. Len(u) \in 1 .. Len(u) /\ Len(u) + 1 + n = l
      BY <2>5, <1>1, <1>4
    <3>2. QED
      BY <3>1, <1>1
  <2>7. m = 2 => u[Len(u) - 1] = t[l - 1]
    <3>1. m = 2 => Len(u) - 1 \in 1 .. Len(u) /\ (Len(u) - 1) + 1 + n = l - 1
      BY <2>5, <1>1, <1>4
    <3>2. QED
      BY <3>1, <1>1
  <2>8. ASSUME NEW j \in 1 .. Len(u), j < Len(u) + 1 - m
        PROVE  /\ u[j].f # "_setpath"
               /\ j + u[j].okskip <= Len(u) - m /\ j + u[j].badskip <= Len(u) - m
    <3> DEFINE g == j + 1 + n
               x == t[g].okskip
               y == t[g].badskip
    <3>1. g \in 1 .. l /\ u[j] = t[g]
      BY <1>1, <2>8, Zenon
    <3>2. g < l + 1 - m
      BY <2>5, <2>8, <1>1, <1>4
    <3>3. t[g].f # "_setpath" /\ g + x <= l - m /\ g + y <= l - m
      BY <3>1, <3>2, <1>4, Zenon
    <3>4. x \in Nat /\ y \in Nat
      BY <3>1, CallIn, Zenon
    <3> HIDE DEF x, y
    <3>5. j + x <= Len(u) - m /\ j + y <= Len(u) - m
      BY <3>3, <3>4, <2>5, <2>8, <1>1, <1>4
    <3>6. QED
      BY <3>1, <3>3, <3>5, Zenon DEF x, y
  <2>9. QED
    BY <2>2, <2>5, <2>6, <2>7, <2>8, Zenon
<1>5. ASSUME HomeTwo(t, cwd), l > 2
      PROVE  t[1].f # "_setpath" /\ HomeTwo(u, cwd)
  <2>1. l + 1 - 2 = l - 1 /\ Len(u) + 1 - 2 = Len(u) - 1 /\ 2 \in {1, 2}
    BY <1>1
  <2>2. \A j \in 1 .. l : j < l + 1 - 2 =>
          /\ t[j].f # "_setpath"
          /\ j + t[j].okskip <= l - 2 /\ j + t[j].badskip <= l - 2
    BY <1>5, <2>1, Zenon DEF HomeTwo
  <2>3. /\ t[1].f # "_setpath" /\ Len(u) = l - 1 - n /\ Len(u) >= 2
        /\ u[Len(u)] = t[l] /\ u[Len(u) - 1] = t[l - 1]
        /\ \A j \in 1 .. Len(u) : j < Len(u) + 1 - 2 =>
             /\ u[j].f # "_setpath"
             /\ j + u[j].okskip <= Len(u) - 2 /\ j + u[j].badskip <= Len(u) - 2
    BY <1>4, <1>5, <2>1, <2>2, Zenon
  <2>4. QED
    BY <1>5, <2>1, <2>3, Zenon DEF HomeTwo
<1>6. ASSUME HomeOne(t), l > 1
      PROVE  t[1].f # "_setpath" /\ HomeOne(u)
  <2>1. l + 1 - 1 = l /\ Len(u) + 1 - 1 = Len(u) /\ 1 \in {1, 2}
    BY <1>1
  <2>2. \A j \in 1 .. l : j < l + 1 - 1 =>
          /\ t[j].f # "_setpath"
          /\ j + t[j].okskip <= l - 1 /\ j + t[j].badskip <= l - 1
    BY <1>6, <2>1, Zenon DEF HomeOne
  <2>3. /\ t[1].f # "_setpath" /\ Len(u) = l - 1 - n /\ Len(u) >= 1
        /\ u[Len(u)] = t[l]
        /\ \A j \in 1 .. Len(u) : j < Len(u) + 1 - 1 =>
             /\ u[j].f # "_setpath"
             /\ j + u[j].okskip <= Len(u) - 1 /\ j + u[j].badskip <= Len(u) - 1
    BY <1>4, <1>6, <2>1, <2>2, Zenon
  <2>4. QED
    BY <1>6, <2>1, <2>3, Zenon DEF HomeOne
<1>7. QED
  BY <1>5, <1>6, Zenon DEF u

\* The last calls, one by one.
LEMMA HomeEnds ==
  ASSUME NEW F, NEW t \in Scripts(F), t # <<>>, NEW cwd
  PROVE  /\ HomeTwo(t, cwd) /\ ~(Len(t) > 2) =>
              /\ t[1].f = "setpath" /\ t[1].p = cwd /\ t[1].okskip = 1
              /\ t[1].badskip = 0 /\ Left(t, 1) = <<>> /\ HomeOne(Left(t, 0))
         /\ HomeOne(t) /\ ~(Len(t) > 1) =>
              /\ t[1].f = "_setpath" /\ Len(t[1].p) = 1 /\ Zero(t[1])
              /\ Left(t, 0) = <<>>
         /\ SetTwo(t, cwd) => Left(t, 1) = <<>> /\ SetOne(Left(t, 0), cwd)
         /\ SetOne(t, cwd) => Left(t, 0) = <<>>
<1> DEFINE u == Left(t, 0)
           l == Len(t)
<1>0. 0 \in Nat /\ 1 \in Nat /\ 1 + 1 = 2 /\ 1 + 0 = 1
  OBVIOUS
<1>1. /\ l \in Nat /\ l >= 1 /\ Len(u) \in Nat
      /\ \A i \in 1 .. Len(u) : i + 1 + 0 \in 1 .. l /\ u[i] = t[i + 1 + 0]
      /\ l > 1 + 0 => Len(u) = l - 1 - 0
      /\ l <= 1 + 0 => Left(t, 0) = <<>>
      /\ l <= 1 + 1 => Left(t, 1) = <<>>
  <2> DEFINE v == Left(t, 1)
  <2>1. LeftOf(u, t, 0) /\ LeftOf(v, t, 1)
    BY <1>0, LeftKnown, Zenon
  <2>2. l <= 1 + 0 => u = <<>>
    BY <2>1, Zenon DEF LeftOf
  <2>3. l <= 1 + 1 => v = <<>>
    BY <2>1, Zenon DEF LeftOf
  <2>4. /\ l \in Nat /\ l >= 1 /\ Len(u) \in Nat
        /\ \A i \in 1 .. Len(u) : i + 1 + 0 \in 1 .. l /\ u[i] = t[i + 1 + 0]
        /\ l > 1 + 0 => Len(u) = l - 1 - 0
    <3> HIDE DEF u
    <3>1. QED
      BY <2>1, Zenon DEF LeftOf
  <2>5. QED
    BY <2>2, <2>3, <2>4, Zenon
<1> HIDE DEF u
<1>9. l \in Nat /\ l >= 1
  BY <1>1
<1>2. l = 2 => /\ Len(u) = 1 /\ u[1] = t[2] /\ Left(t, 1) = <<>>
               /\ \A j \in 1 .. Len(u) : ~(j < Len(u))
  <2>1. l = 2 => /\ l > 1 + 0 /\ l - 1 - 0 = 1 /\ l <= 1 + 1 /\ 1 \in 1 .. 1
                 /\ 1 + 1 + 0 = 2 /\ \A j \in 1 .. 1 : ~(j < 1)
    BY <1>1
  <2>2. QED
    BY <1>1, <2>1, Zenon
<1>3. l = 1 => l <= 1 + 0
  BY <1>1
<1>4. ASSUME HomeTwo(t, cwd), ~(l > 2)
      PROVE  /\ t[1].f = "setpath" /\ t[1].p = cwd /\ t[1].okskip = 1
             /\ t[1].badskip = 0 /\ Left(t, 1) = <<>> /\ HomeOne(u)
  <2>1. l >= 2
    BY <1>4, Zenon DEF HomeTwo
  <2>2. l = 2 /\ l - 1 = 1 /\ 1 >= 1
    <3> HIDE DEF l
    <3>1. QED
      BY <2>1, <1>9, <1>4
  <2>3. QED
    BY <1>2, <1>4, <2>2, Zenon DEF HomeTwo, HomeOne
<1>5. ASSUME HomeOne(t), ~(l > 1)
      PROVE  /\ t[1].f = "_setpath" /\ Len(t[1].p) = 1 /\ Zero(t[1])
             /\ Left(t, 0) = <<>>
  <2>1. l = 1
    <3> HIDE DEF l
    <3>1. QED
      BY <1>9, <1>5
  <2>2. QED
    BY <2>1, <1>1, <1>3, <1>5, Zenon DEF HomeOne
<1>6. SetTwo(t, cwd) => Left(t, 1) = <<>> /\ SetOne(u, cwd)
  BY <1>2, Zenon DEF SetTwo, SetOne
<1>7. SetOne(t, cwd) => Left(t, 0) = <<>>
  BY <1>1, <1>3, Zenon DEF SetOne
<1>8. QED
  BY <1>4, <1>5, <1>6, <1>7, Zenon DEF u

\* The first call of a way home, and what it leaves.
Nearer(t, u, good, cwd) ==
  \/ t[1].f # "_setpath" /\ Homeward(u, cwd)
  \/ t[1].f = "setpath" /\ t[1].p = cwd /\ u = <<>> /\ (good \/ SetOne(t, cwd))
  \/ t[1].f = "_setpath" /\ good /\ u = <<>>
  \/ t[1].f = "_setpath" /\ ~good /\ Len(t[1].p) = 1 /\ u = <<>>
  \/ t[1].f = "_setpath" /\ ~good /\ SetOne(u, cwd)

\* Every call of a script that leads home comes nearer to the path shown,
\* whether it succeeds or not; a step between the calls stays on the way.
LEMMA HomeStep ==
  ASSUME NEW F, NEW t \in Scripts(F), t # <<>>, NEW cwd, Homeward(t, cwd),
         NEW good \in BOOLEAN
  PROVE  /\ Nearer(t, Left(t, IF good THEN t[1].okskip ELSE t[1].badskip), good, cwd)
         /\ t[1].f \notin {"setpath", "_setpath"} =>
              \A n \in {0, t[1].okskip, t[1].badskip} : Homeward(Left(t, n), cwd)
         /\ t[1].f \notin {"model", "format", "delete", "send"} \/ Len(t) > 1
<1> DEFINE n == IF good THEN t[1].okskip ELSE t[1].badskip
           u == Left(t, n)
<1>1. 1 \in 1 .. Len(t) /\ 0 \in Nat
  BY LeftIs
<1>2. t[1].okskip \in Nat /\ t[1].badskip \in Nat
  BY <1>1, CallIn, Zenon
<1>4. (n = t[1].okskip /\ good) \/ (n = t[1].badskip /\ ~good)
  <2>1. CASE good
    BY <2>1, Zenon
  <2>2. CASE ~good
    BY <2>2, Zenon
  <2>3. QED
    BY <2>1, <2>2, Zenon
<1>3. n \in Nat /\ n \in {0, t[1].okskip, t[1].badskip}
  <2> HIDE DEF n
  <2>1. QED
    BY <1>2, <1>4, Zenon
<1>5. \A k \in {0, t[1].okskip, t[1].badskip} : k \in Nat
  BY <1>1, <1>2, Zenon
<1> HIDE DEF n
<1>6. CASE HomeTwo(t, cwd) /\ Len(t) > 2
  <2>1. \A k \in {0, t[1].okskip, t[1].badskip} :
          t[1].f # "_setpath" /\ HomeTwo(Left(t, k), cwd)
    <3>1. ASSUME NEW k \in {0, t[1].okskip, t[1].badskip}
          PROVE  t[1].f # "_setpath" /\ HomeTwo(Left(t, k), cwd)
      <4>1. k \in Nat
        BY <1>5, Zenon
      <4>2. QED
        BY <4>1, <1>6, HomeLeft
    <3>2. QED
      BY <3>1, Zenon
  <2>2. Nearer(t, u, good, cwd)
    BY <2>1, <1>3, Zenon DEF Nearer, Homeward
  <2>3. Len(t) > 1
    BY <1>6, LeftIs
  <2>4. QED
    BY <2>1, <2>2, <2>3, Zenon DEF Homeward, n
<1>7. CASE HomeTwo(t, cwd) /\ ~(Len(t) > 2)
  <2>1. /\ t[1].f = "setpath" /\ t[1].p = cwd /\ t[1].okskip = 1
        /\ t[1].badskip = 0 /\ Left(t, 1) = <<>> /\ HomeOne(Left(t, 0))
    BY <1>7, HomeEnds, Zenon
  <2>2. "setpath" \notin {"model", "format", "delete", "send"} /\ "setpath" # "_setpath"
    OBVIOUS
  <2>3. Nearer(t, u, good, cwd)
    BY <2>1, <2>2, <1>4, Zenon DEF Nearer, Homeward
  <2>4. QED
    BY <2>1, <2>2, <2>3, Zenon DEF n
<1>8. CASE HomeOne(t) /\ Len(t) > 1
  <2>1. \A k \in {0, t[1].okskip, t[1].badskip} :
          t[1].f # "_setpath" /\ HomeOne(Left(t, k))
    <3>1. ASSUME NEW k \in {0, t[1].okskip, t[1].badskip}
          PROVE  t[1].f # "_setpath" /\ HomeOne(Left(t, k))
      <4>1. k \in Nat
        BY <1>5, Zenon
      <4>2. QED
        BY <4>1, <1>8, HomeLeft, Zenon
    <3>2. QED
      BY <3>1, Zenon
  <2>2. Nearer(t, u, good, cwd)
    BY <2>1, <1>3, Zenon DEF Nearer, Homeward
  <2>3. QED
    BY <1>8, <2>1, <2>2, Zenon DEF Homeward, n
<1>9. CASE HomeOne(t) /\ ~(Len(t) > 1)
  <2>1. /\ t[1].f = "_setpath" /\ Len(t[1].p) = 1 /\ Zero(t[1]) /\ Left(t, 0) = <<>>
    BY <1>9, HomeEnds, Zenon
  <2>2. "_setpath" \notin {"model", "format", "delete", "send"}
    OBVIOUS
  <2>3. Nearer(t, u, good, cwd)
    BY <2>1, <1>4, Zenon DEF Nearer, Zero
  <2>4. QED
    BY <2>1, <2>2, <2>3, Zenon DEF n
<1>10. CASE SetTwo(t, cwd)
  <2>1. /\ t[1].f = "_setpath" /\ t[1].okskip = 1 /\ t[1].badskip = 0
        /\ Left(t, 1) = <<>> /\ SetOne(Left(t, 0), cwd)
    BY <1>10, HomeEnds, Zenon DEF SetTwo
  <2>2. "_setpath" \notin {"model", "format", "delete", "send"}
    OBVIOUS
  <2>3. Nearer(t, u, good, cwd)
    BY <2>1, <1>4, Zenon DEF Nearer
  <2>4. QED
    BY <2>1, <2>2, <2>3, Zenon DEF n
<1>11. CASE SetOne(t, cwd)
  <2>1. /\ t[1].f = "setpath" /\ t[1].p = cwd /\ t[1].okskip = 0 /\ t[1].badskip = 0
        /\ Left(t, 0) = <<>>
    BY <1>11, HomeEnds, Zenon DEF SetOne, Zero
  <2>2. "setpath" \notin {"model", "format", "delete", "send"}
    OBVIOUS
  <2>3. Nearer(t, u, good, cwd)
    BY <2>1, <1>4, <1>11, Zenon DEF Nearer
  <2>4. QED
    BY <2>1, <2>2, <2>3, Zenon DEF n
<1>12. QED
  BY <1>6, <1>7, <1>8, <1>9, <1>10, <1>11, Zenon DEF Homeward
-----------------------------------------------------------------------------
(* The invariant of the transfer tool.                                     *)

Fields ==
  /\ DOMAIN lib = {"up", "reason", "claim", "urb"}
  /\ DOMAIN dev = {"present", "session", "addons", "dirs", "keys"}
  /\ DOMAIN dev.session = {"up", "path", "locked", "authed"}
  /\ DOMAIN s = {"running", "connected", "mode", "cwd", "authenticated", "event", "devs"}
  /\ DOMAIN env = {"mode", "faults", "lost", "internal"}
  /\ env.faults \in Nat /\ s.cwd \in Cwds /\ s.devs \subseteq Attached /\ Rooted(Here)

\* Only a connected prompt works on a command, and the rest of a command is
\* made of the calls that it is allowed.
TodoInv ==
  /\ todo \in Scripts(Work) /\ UnlockSafe(todo) /\ CallsOf(todo, cmd) /\ SetsCwd(todo)
  /\ cmd = "auth" => ResetsCard(todo)
  /\ (todo # <<>> => s.connected) /\ (s.connected => s.running)

\* A session of the device is one of the library; it has accepted a challenge
\* unless the command is still before the one that would make it authenticated.
SessionInv ==
  /\ dev.session.up => lib.up /\ lib.reason = "none"
  /\ ~s.connected => ~s.authenticated
  /\ AuthGuarded(todo) \/ (dev.session.up => dev.session.authed)
  /\ s.authenticated /\ dev.session.up => dev.session.authed
  /\ ~lib.up /\ ~env.internal => ~lib.claim

\* An unlocked device is about to be locked, or a lock request was lost.
LockInv ==
  dev.session.up /\ ~dev.session.locked => LockAhead(todo) \/ "lock" \in env.lost

\* What content_auth has found out when the reset of the card is i calls away:
\* the key was accepted by some medium, the device is at the card, and the card
\* refuses the key - as far as the answers have come.
Tried(i) ==
  /\ i <= 7 => \E m \in Attached : dev.keys[m] = key
  /\ i <= 2 => "crd0" \in Cards /\ ("path" \in env.lost \/ Here = <<"crd0">>)
  /\ i = 1 => "challenge" \in env.lost \/ ~OnMedium \/ dev.keys[Here[1]] # key
AuthInv ==
  cmd = "auth" /\ dev.session.up =>
    \A i \in 1 .. Len(todo) : todo[i].f = "authinfo" => Tried(i)

\* content_remove is on its way to the root of its medium, or there until it
\* has removed the add-on.
AtRoot == "path" \in env.lost \/ Here = Root
RemoveInv ==
  cmd = "remove" /\ dev.session.up =>
    NoRemove(todo) \/ Towards(todo, Root) \/ (NoPathBefore(todo, 0) /\ AtRoot)

\* The device is where the prompt says, or on its way there, or a path request
\* was lost.
Agrees ==
  /\ s.cwd # Null
  /\ Here = s.cwd \/ (Here = <<>> /\ Len(s.cwd) = 2 /\ s.cwd[1] \notin dev.dirs)
PathInv ==
  s.connected /\ dev.session.up =>
    Homeward(todo, s.cwd) \/ (Stays(todo) /\ ("path" \in env.lost \/ Agrees))

ToolInv == Fields /\ TodoInv /\ SessionInv /\ LockInv /\ AuthInv /\ RemoveInv /\ PathInv

\* A script without calls.
LEMMA NothingLeft ==
  /\ <<>> \in Scripts(Work) /\ UnlockSafe(<<>>) /\ SetsCwd(<<>>) /\ ResetsCard(<<>>)
  /\ AuthGuarded(<<>>) /\ Stays(<<>>) /\ \A c : CallsOf(<<>>, c)
<1>1. \A i \in 1 .. Len(<<>>) : FALSE
  OBVIOUS
<1>2. <<>> \in Seq(Ops(Work))
  <2> DEFINE R == Ops(Work)
  <2> HIDE DEF R
  <2>1. <<>> \in Seq(R)
    OBVIOUS
  <2>2. QED
    BY <2>1 DEF R
<1>3. QED
  BY <1>1, <1>2 DEF Scripts, UnlockSafe, SetsCwd, ResetsCard, AuthGuarded, NoAuthOk,
                    Stays, CallsOf

\* The first call of what is left.
LEMMA FirstCall ==
  ASSUME TodoInv, todo # <<>>
  PROVE  /\ Head(todo) = todo[1] /\ 1 \in 1 .. Len(todo) /\ todo \in Scripts(Work)
         /\ todo[1] \in Ops(Work) /\ todo[1].f \in Work /\ todo[1].p \in Paths
         /\ todo[1].okskip \in Nat /\ todo[1].badskip \in Nat
         /\ \A n : After(n) = Left(todo, n)
<1>1. todo \in Scripts(Work)
  BY Zenon DEF TodoInv
<1>2. 1 \in 1 .. Len(todo)
  BY <1>1, LeftIs
<1>3. Head(todo) = todo[1]
  <2> DEFINE R == Ops(Work)
  <2>1. todo \in Seq(R)
    BY <1>1, Zenon DEF Scripts
  <2> HIDE DEF R
  <2>2. QED
    BY <2>1
<1>4. QED
  BY <1>1, <1>2, <1>3, CallIn, Zenon DEF After, Left

\* What is left of a command after one of its calls.
LEMMA TodoStep ==
  ASSUME TodoInv, todo # <<>>, NEW n \in Nat, todo' = Left(todo, n),
         cmd' = cmd \/ todo' = <<>>, s'.connected = s.connected,
         s'.running = s.running
  PROVE  TodoInv'
<1>1. /\ todo \in Scripts(Work) /\ UnlockSafe(todo) /\ CallsOf(todo, cmd)
      /\ SetsCwd(todo) /\ (cmd = "auth" => ResetsCard(todo)) /\ s.connected
      /\ (s.connected => s.running)
  BY Zenon DEF TodoInv
<1>2. todo' \in Scripts(Work) /\ UnlockSafe(todo')
  BY <1>1, LeftIs, UnlockSafeLeft, Zenon
<1>3. SetsCwd(todo')
  <2>1. \A i \in 1 .. Len(Left(todo, n)) :
          i + 1 + n \in 1 .. Len(todo) /\ Left(todo, n)[i] = todo[i + 1 + n]
    BY <1>1, LeftIs, Zenon
  <2>2. QED
    BY <1>1, <2>1, Zenon DEF SetsCwd
<1>4. CallsOf(todo', cmd')
  BY <1>1, CallsLeft, NothingLeft, Zenon
<1>5. cmd' = "auth" => ResetsCard(todo')
  BY <1>1, ResetsLeft, NothingLeft, Zenon
<1>6. QED
  BY <1>1, <1>2, <1>3, <1>4, <1>5, Zenon DEF TodoInv
-----------------------------------------------------------------------------
(* What a device in order makes of a call: the answer r, and itself as d.  *)

\* The add-ons that are gone, by call.
Loses(d) ==
  \A m \in dev.addons \ d.addons :
    \/ todo[1].f = "remove" /\ m = Here[1]
    \/ todo[1].f = "format" /\ m \in Cards
    \/ todo[1].f = "newkey"
    \/ todo[1].f = "authinfo" /\ OnMedium

Reply(r, d) ==
  LET o == todo[1]
  IN /\ DOMAIN d = DOMAIN dev /\ DOMAIN d.session = DOMAIN dev.session
     /\ d.session.up = dev.session.up
     /\ dev.session.authed => d.session.authed
     /\ o.f = "challenge" /\ r = "SUCCESS" => d.session.authed
     /\ ~d.session.locked => (~dev.session.locked /\ o.f # "lock") \/ o.f = "unlock"
     /\ o.f \notin {"setpath", "_setpath"} => d.session.path = Here
     /\ o.f \in {"setpath", "_setpath"} =>
          \/ r = "SUCCESS" /\ d.session.path = o.p
          \/ /\ r # "SUCCESS" /\ d.session.path = <<>>
             /\ ~(Len(o.p) < 2) /\ o.p[1] \notin d.dirs
     /\ o.f \in Staying => d.dirs \subseteq dev.dirs
     /\ Loses(d)
     /\ o.f \notin {"authinfo", "newkey"} => d.keys = dev.keys
     /\ o.f = "challenge" => (r = "SUCCESS" <=> OnMedium /\ dev.keys[Here[1]] = key)

\* A call that only asks, or is refused.
LEMMA ReplySame ==
  ASSUME Fields, NEW STATE r,
         todo[1].f \notin {"setpath", "_setpath", "lock"},
         todo[1].f = "challenge" =>
           r # "SUCCESS" /\ ~(OnMedium /\ dev.keys[Here[1]] = key)
  PROVE  Reply(r, dev)
  BY Zenon DEF Reply, Loses, Here

\* A path is found and taken, or the device is left at its root.
LEMMA ReplyPath ==
  ASSUME Fields, NEW o, o = todo[1], o.f \in {"setpath", "_setpath"}
  PROVE  LET found == Len(o.p) < 2 \/ o.mk \/ o.p[1] \in dev.dirs
         IN Reply(IF found THEN "SUCCESS" ELSE "NOT_FOUND",
              IF found
              THEN [dev EXCEPT !.session.path = o.p,
                      !.dirs = IF Len(o.p) = 2 THEN @ \cup {o.p[1]} ELSE @]
              ELSE [dev EXCEPT !.session.path = <<>>])
<1> DEFINE found == Len(o.p) < 2 \/ o.mk \/ o.p[1] \in dev.dirs
           a == [dev EXCEPT !.session.path = o.p,
                   !.dirs = IF Len(o.p) = 2 THEN @ \cup {o.p[1]} ELSE @]
           b == [dev EXCEPT !.session.path = <<>>]
<1>1. o.f \notin Staying /\ o.f \notin {"challenge", "lock", "unlock", "authinfo", "newkey"}
  BY DEF Staying
<1>2. "session" # "dirs" /\ "session" # "keys" /\ "session" # "addons"
      /\ "dirs" # "keys" /\ "dirs" # "addons"
      /\ "path" # "up" /\ "path" # "authed" /\ "path" # "locked"
  OBVIOUS
<1>3. /\ DOMAIN a = DOMAIN dev /\ DOMAIN a.session = DOMAIN dev.session
      /\ a.session.up = dev.session.up /\ a.session.authed = dev.session.authed
      /\ a.session.locked = dev.session.locked /\ a.session.path = o.p
      /\ a.addons = dev.addons /\ a.keys = dev.keys
  BY <1>2, Zenon DEF Fields
<1>4. /\ DOMAIN b = DOMAIN dev /\ DOMAIN b.session = DOMAIN dev.session
      /\ b.session.up = dev.session.up /\ b.session.authed = dev.session.authed
      /\ b.session.locked = dev.session.locked /\ b.session.path = <<>>
      /\ b.addons = dev.addons /\ b.keys = dev.keys /\ b.dirs = dev.dirs
  BY <1>2, Zenon DEF Fields
<1> HIDE DEF a, b
<1>5. "NOT_FOUND" # "SUCCESS"
  OBVIOUS
<1>6. found => Reply("SUCCESS", a)
  BY <1>1, <1>3, Zenon DEF Reply, Loses
<1>7. ~found => Reply("NOT_FOUND", b)
  BY <1>1, <1>4, <1>5, Zenon DEF Reply, Loses
<1>8. CASE found
  BY <1>6, <1>8, Zenon DEF a, b
<1>9. CASE ~found
  BY <1>7, <1>9, Zenon DEF a, b
<1>10. QED
  BY <1>8, <1>9, Zenon

\* Locking, unlocking and the challenge change the session.
LEMMA ReplySession ==
  ASSUME Fields
  PROVE  /\ todo[1].f = "lock" => Reply("SUCCESS", [dev EXCEPT !.session.locked = TRUE])
         /\ todo[1].f = "unlock" =>
              \A r : Reply(r, [dev EXCEPT !.session.locked = FALSE])
         /\ todo[1].f = "challenge" /\ OnMedium /\ dev.keys[Here[1]] = key =>
              Reply("SUCCESS", [dev EXCEPT !.session.authed = TRUE])
<1> DEFINE f == todo[1].f
<1>1. /\ "session" # "dirs" /\ "session" # "keys" /\ "session" # "addons"
      /\ "locked" # "up" /\ "locked" # "authed" /\ "locked" # "path"
      /\ "authed" # "up" /\ "authed" # "path"
  OBVIOUS
<1>2. \A x : LET d == [dev EXCEPT !.session.locked = x]
             IN /\ DOMAIN d = DOMAIN dev /\ DOMAIN d.session = DOMAIN dev.session
                /\ d.session.up = dev.session.up /\ d.session.authed = dev.session.authed
                /\ d.session.locked = x /\ d.session.path = dev.session.path
                /\ d.addons = dev.addons /\ d.keys = dev.keys /\ d.dirs = dev.dirs
  BY <1>1, Zenon DEF Fields
<1>3. LET d == [dev EXCEPT !.session.authed = TRUE]
      IN /\ DOMAIN d = DOMAIN dev /\ DOMAIN d.session = DOMAIN dev.session
         /\ d.session.up = dev.session.up /\ d.session.authed = TRUE
         /\ d.session.locked = dev.session.locked /\ d.session.path = dev.session.path
         /\ d.addons = dev.addons /\ d.keys = dev.keys /\ d.dirs = dev.dirs
  BY <1>1, Zenon DEF Fields
<1>4. ASSUME f = "lock" PROVE Reply("SUCCESS", [dev EXCEPT !.session.locked = TRUE])
  <2>1. /\ f \notin {"setpath", "_setpath", "challenge", "unlock", "authinfo", "newkey"}
        /\ f \notin Staying
    BY <1>4 DEF Staying
  <2> DEFINE d == [dev EXCEPT !.session.locked = TRUE]
  <2>2. /\ DOMAIN d = DOMAIN dev /\ DOMAIN d.session = DOMAIN dev.session
        /\ d.session.up = dev.session.up /\ d.session.authed = dev.session.authed
        /\ d.session.locked = TRUE /\ d.session.path = dev.session.path
        /\ d.addons = dev.addons /\ d.keys = dev.keys /\ d.dirs = dev.dirs
    BY <1>2, Zenon
  <2> HIDE DEF d
  <2>3. Reply("SUCCESS", d)
    BY <2>1, <2>2, Zenon DEF Reply, Loses, Here
  <2>4. QED
    BY <2>3, Zenon DEF d
<1>5. ASSUME f = "unlock", NEW r PROVE Reply(r, [dev EXCEPT !.session.locked = FALSE])
  <2>1. /\ f \notin {"setpath", "_setpath", "challenge", "lock", "authinfo", "newkey"}
        /\ f \notin Staying
    BY <1>5 DEF Staying
  <2> DEFINE d == [dev EXCEPT !.session.locked = FALSE]
  <2>2. /\ DOMAIN d = DOMAIN dev /\ DOMAIN d.session = DOMAIN dev.session
        /\ d.session.up = dev.session.up /\ d.session.authed = dev.session.authed
        /\ d.session.locked = FALSE /\ d.session.path = dev.session.path
        /\ d.addons = dev.addons /\ d.keys = dev.keys /\ d.dirs = dev.dirs
    BY <1>2, Zenon
  <2> HIDE DEF d
  <2>3. Reply(r, d)
    BY <2>1, <2>2, <1>5, Zenon DEF Reply, Loses, Here
  <2>4. QED
    BY <2>3, Zenon DEF d
<1>6. ASSUME f = "challenge", OnMedium, dev.keys[Here[1]] = key
      PROVE  Reply("SUCCESS", [dev EXCEPT !.session.authed = TRUE])
  <2>1. /\ f \notin {"setpath", "_setpath", "lock", "unlock", "authinfo", "newkey"}
        /\ f \notin Staying
    BY <1>6 DEF Staying
  <2> DEFINE d == [dev EXCEPT !.session.authed = TRUE]
  <2>2. /\ DOMAIN d = DOMAIN dev /\ DOMAIN d.session = DOMAIN dev.session
        /\ d.session.up = dev.session.up /\ d.session.authed = TRUE
        /\ d.session.locked = dev.session.locked /\ d.session.path = dev.session.path
        /\ d.addons = dev.addons /\ d.keys = dev.keys /\ d.dirs = dev.dirs
    BY <1>3, Zenon
  <2>3. OnMedium /\ dev.keys[Here[1]] = key
    BY <1>6, Zenon
  <2> HIDE DEF d
  <2>4. Reply("SUCCESS", d)
    BY <2>1, <2>2, <2>3, Zenon DEF Reply, Loses, Here
  <2>5. QED
    BY <2>4, Zenon DEF d
<1>7. QED
  BY <1>4, <1>5, <1>6, Zenon

\* Add-ons come and go.
LEMMA ReplyAddons ==
  ASSUME Fields
  PROVE  /\ todo[1].f = "remove" =>
              \A r : Reply(r, [dev EXCEPT !.addons = @ \ {Here[1]}, !.dirs = @ \ {Here[1]}])
         /\ todo[1].f = "format" =>
              \A r : Reply(r, [dev EXCEPT !.addons = @ \ Cards, !.dirs = @ \ Cards])
         /\ todo[1].f = "cname" =>
              \A r : Reply(r, [dev EXCEPT !.addons = @ \cup {Here[1]}])
         /\ todo[1].f = "newkey" \/ (todo[1].f = "authinfo" /\ OnMedium) =>
              \A r, k : Reply(r, [dev EXCEPT !.keys[Here[1]] = k,
                                   !.addons = {}, !.dirs = {}])
<1> DEFINE f == todo[1].f
<1>1. /\ "session" # "dirs" /\ "session" # "keys" /\ "session" # "addons"
      /\ "addons" # "dirs" /\ "addons" # "keys" /\ "dirs" # "keys"
  OBVIOUS
<1>2. ASSUME f = "remove", NEW r
      PROVE  Reply(r, [dev EXCEPT !.addons = @ \ {Here[1]}, !.dirs = @ \ {Here[1]}])
  <2> DEFINE d == [dev EXCEPT !.addons = @ \ {Here[1]}, !.dirs = @ \ {Here[1]}]
  <2>1. /\ f \notin {"setpath", "_setpath", "challenge", "lock", "authinfo", "newkey"}
        /\ f \notin Staying
    BY <1>2 DEF Staying
  <2>2. /\ DOMAIN d = DOMAIN dev /\ d.session = dev.session /\ d.keys = dev.keys
        /\ d.addons = dev.addons \ {Here[1]}
    BY <1>1, Zenon DEF Fields
  <2> HIDE DEF d
  <2>5. Loses(d)
    BY <2>2, <1>2, Zenon DEF Loses
  <2>3. Reply(r, d)
    BY <2>1, <2>2, <2>5, <1>2, Zenon DEF Reply, Here
  <2>4. QED
    BY <2>3, Zenon DEF d
<1>3. ASSUME f = "format", NEW r
      PROVE  Reply(r, [dev EXCEPT !.addons = @ \ Cards, !.dirs = @ \ Cards])
  <2> DEFINE d == [dev EXCEPT !.addons = @ \ Cards, !.dirs = @ \ Cards]
  <2>1. f \notin {"setpath", "_setpath", "challenge", "lock", "authinfo", "newkey"}
    BY <1>3
  <2>2. /\ DOMAIN d = DOMAIN dev /\ d.session = dev.session /\ d.keys = dev.keys
        /\ d.addons = dev.addons \ Cards /\ d.dirs = dev.dirs \ Cards
    BY <1>1, Zenon DEF Fields
  <2> HIDE DEF d
  <2>4. d.dirs \subseteq dev.dirs /\ Loses(d)
    BY <2>2, <1>3, Zenon DEF Loses
  <2>5. Reply(r, d)
    BY <2>1, <2>2, <2>4, <1>3, Zenon DEF Reply, Here
  <2>6. QED
    BY <2>5, Zenon DEF d
<1>4. ASSUME f = "cname", NEW r
      PROVE  Reply(r, [dev EXCEPT !.addons = @ \cup {Here[1]}])
  <2> DEFINE d == [dev EXCEPT !.addons = @ \cup {Here[1]}]
  <2>1. /\ f \notin {"setpath", "_setpath", "challenge", "lock", "authinfo", "newkey"}
        /\ f \notin Staying
    BY <1>4 DEF Staying
  <2>2. /\ DOMAIN d = DOMAIN dev /\ d.session = dev.session /\ d.keys = dev.keys
        /\ d.addons = dev.addons \cup {Here[1]}
    BY <1>1, Zenon DEF Fields
  <2> HIDE DEF d
  <2>3. Loses(d)
    BY <2>2, Zenon DEF Loses
  <2>4. Reply(r, d)
    BY <2>1, <2>2, <2>3, <1>4, Zenon DEF Reply, Here
  <2>5. QED
    BY <2>4, Zenon DEF d
<1>5. ASSUME f = "newkey" \/ (f = "authinfo" /\ OnMedium), NEW r, NEW k
      PROVE  Reply(r, [dev EXCEPT !.keys[Here[1]] = k, !.addons = {}, !.dirs = {}])
  <2> DEFINE d == [dev EXCEPT !.keys[Here[1]] = k, !.addons = {}, !.dirs = {}]
  <2>1. /\ f \notin {"setpath", "_setpath", "challenge", "lock"}
        /\ f \notin Staying
    BY <1>5 DEF Staying
  <2>2. /\ DOMAIN d = DOMAIN dev /\ d.session = dev.session
    BY <1>1, Zenon DEF Fields
  <2> HIDE DEF d
  <2>4. Loses(d)
    BY <1>5, Zenon DEF Loses
  <2>5. Reply(r, d)
    BY <2>1, <2>2, <2>4, <1>5, Zenon DEF Reply, Here
  <2>6. QED
    BY <2>5, Zenon DEF d
<1>6. QED
  BY <1>2, <1>3, <1>4, <1>5, Zenon
-----------------------------------------------------------------------------
(* A call returns, with success or not.                                    *)

Came(good) ==
  /\ todo' = Left(todo, IF good THEN todo[1].okskip ELSE todo[1].badskip)
  /\ cmd' = cmd \/ todo' = <<>>
  /\ todo' = <<>> \/ todo[1].f = "newkey" \/ key' = key
  /\ DOMAIN s' = DOMAIN s /\ s'.connected = s.connected
  /\ s'.running = s.running /\ s'.authenticated = s.authenticated /\ s'.devs \subseteq Attached
  /\ todo[1].f = "_setpath" /\ good => s'.cwd = todo[1].p
  /\ todo[1].f # "_setpath" \/ ~good => s'.cwd = s.cwd

\* This is all that the rest of the proof needs to know of Return.
LEMMA ReturnIs ==
  ASSUME Fields, TodoInv, todo # <<>>, NEW STATE r, NEW STATE d, Return(r, d)
  PROVE  Came(r = "SUCCESS")
<1> DEFINE o == Head(todo)
           good == r = "SUCCESS"
           n == IF good THEN o.okskip ELSE o.badskip
           k == IF o.f # "newkey" THEN key
                ELSE IF good THEN d.keys[d.session.path[1]] ELSE "zero"
           a == [s EXCEPT !.cwd = o.p]
           b == [s EXCEPT !.devs = Attached]
<1>1. o = todo[1] /\ \A m : After(m) = Left(todo, m)
  BY FirstCall, Zenon
<1>2. /\ GoOn(After(n), CASE o.f = "unlock" -> good
                            [] o.f = "cards"  -> good /\ d.session.path = <<>>
                            [] OTHER          -> ok /\ good, k)
      /\ s' = CASE o.f = "_setpath" /\ good -> a
                [] o.f = "scan" /\ good     -> b
                [] OTHER                    -> s
  BY Zenon DEF Return
<1>3. o.f # "newkey" => k = key
  BY Zenon
<1> HIDE DEF k
<1>4. /\ todo' = After(n) /\ (cmd' = cmd \/ todo' = <<>>)
      /\ (todo' = <<>> \/ key' = k)
  BY <1>2, Zenon DEF GoOn
<1>5. /\ DOMAIN a = DOMAIN s /\ a.connected = s.connected /\ a.devs = s.devs
      /\ a.running = s.running /\ b.running = s.running
      /\ a.authenticated = s.authenticated /\ a.cwd = o.p
      /\ DOMAIN b = DOMAIN s /\ b.connected = s.connected /\ b.cwd = s.cwd
      /\ b.authenticated = s.authenticated /\ b.devs = Attached
  <2>1. /\ "cwd" # "connected" /\ "cwd" # "devs" /\ "cwd" # "authenticated"
        /\ "devs" # "connected" /\ "devs" # "authenticated"
        /\ "cwd" # "running" /\ "devs" # "running"
    OBVIOUS
  <2>2. QED
    BY <2>1, Zenon DEF Fields
<1>6. \/ o.f = "_setpath" /\ good /\ s' = a
      \/ ~(o.f = "_setpath" /\ good) /\ (s' = b \/ s' = s)
  <2>1. CASE o.f = "_setpath" /\ good
    BY <1>2, <2>1, Zenon
  <2>2. CASE ~(o.f = "_setpath" /\ good) /\ (o.f = "scan" /\ good)
    BY <1>2, <2>2, Zenon
  <2>3. CASE ~(o.f = "_setpath" /\ good) /\ ~(o.f = "scan" /\ good)
    BY <1>2, <2>3, Zenon
  <2>4. QED
    BY <2>1, <2>2, <2>3, Zenon
<1>7. s.devs \subseteq Attached
  BY Zenon DEF Fields
<1> HIDE DEF a, b
<1>8. /\ DOMAIN s' = DOMAIN s /\ s'.connected = s.connected /\ s'.running = s.running
      /\ s'.authenticated = s.authenticated /\ s'.devs \subseteq Attached
      /\ o.f = "_setpath" /\ good => s'.cwd = o.p
      /\ o.f # "_setpath" \/ ~good => s'.cwd = s.cwd
  BY <1>5, <1>6, <1>7, Zenon
<1> HIDE DEF o
<1>9. QED
  BY <1>1, <1>3, <1>4, <1>8, Zenon DEF Came

\* The number of calls skipped.
Skip(good) == IF good THEN todo[1].okskip ELSE todo[1].badskip

\* What a returned call leaves of its command.
LEMMA CameTodo ==
  ASSUME Fields, TodoInv, todo # <<>>, NEW good \in BOOLEAN, Came(good)
  PROVE  /\ TodoInv' /\ Skip(good) \in Nat /\ todo' = Left(todo, Skip(good))
         /\ s'.cwd \in Cwds
         /\ (Skip(good) = todo[1].okskip /\ good) \/ (Skip(good) = todo[1].badskip /\ ~good)
<1>1. /\ todo \in Scripts(Work) /\ 1 \in 1 .. Len(todo)
      /\ todo[1].okskip \in Nat /\ todo[1].badskip \in Nat
  BY FirstCall, Zenon
<1>2. (Skip(good) = todo[1].okskip /\ good) \/ (Skip(good) = todo[1].badskip /\ ~good)
  <2>1. CASE good
    BY <2>1, Zenon DEF Skip
  <2>2. CASE ~good
    BY <2>2, Zenon DEF Skip
  <2>3. QED
    BY <2>1, <2>2, Zenon
<1>3. Skip(good) \in Nat
  BY <1>1, <1>2, Zenon
<1>4. todo' = Left(todo, Skip(good))
  BY Zenon DEF Came, Skip
<1>5. TodoInv'
  BY <1>3, <1>4, TodoStep, Zenon DEF Came
<1>6. todo[1].f = "_setpath" => todo[1].p \in Cwds
  BY <1>1, Zenon DEF TodoInv, SetsCwd
<1>7. s'.cwd \in Cwds
  BY <1>6, Zenon DEF Came, Fields
<1>8. QED
  BY <1>2, <1>3, <1>4, <1>5, <1>7, Zenon

\* Authentication stays behind its challenge.
LEMMA GuardStep ==
  ASSUME Fields, TodoInv, SessionInv, todo # <<>>, NEW good \in BOOLEAN, Came(good),
         dev'.session.up = dev.session.up,
         dev.session.authed => dev'.session.authed,
         todo[1].f = "challenge" /\ good => dev'.session.authed
  PROVE  AuthGuarded(todo') \/ (dev'.session.up => dev'.session.authed)
<1>1. /\ todo \in Scripts(Work) /\ Skip(good) \in Nat /\ todo' = Left(todo, Skip(good))
      /\ \/ Skip(good) = todo[1].okskip /\ good
         \/ Skip(good) = todo[1].badskip /\ ~good
  BY CameTodo, Zenon DEF TodoInv
<1>2. CASE AuthGuarded(todo) /\ ~(todo[1].f = "challenge" /\ good)
  <2>1. AuthGuarded(Left(todo, Skip(good)))
    BY <1>1, <1>2, AuthLeft, Zenon
  <2>2. QED
    BY <1>1, <2>1, Zenon
<1>3. CASE ~AuthGuarded(todo)
  BY <1>3, Zenon DEF SessionInv
<1>4. QED
  BY <1>2, <1>3, Zenon

\* The device answers, or the answer is lost.
Answered(r, d, good) ==
  /\ dev' = d /\ (good <=> r = "SUCCESS")
  /\ env'.lost = env.lost \ Watched(todo[1].f)
Lost(r, d, good) ==
  /\ dev' \in {dev, d} /\ ~good
  /\ env'.lost = env.lost \cup Watched(todo[1].f)

\* What is in doubt after a request.
LEMMA Doubts ==
  ASSUME NEW r, NEW d, NEW good, Answered(r, d, good) \/ Lost(r, d, good)
  PROVE  LET f == todo[1].f
         IN /\ f \notin {"setpath", "_setpath"} =>
                 ("path" \in env'.lost <=> "path" \in env.lost)
            /\ f # "lock" => ("lock" \in env'.lost <=> "lock" \in env.lost)
            /\ Lost(r, d, good) => /\ f \in {"setpath", "_setpath"} => "path" \in env'.lost
                                   /\ f = "lock" => "lock" \in env'.lost
                                   /\ f = "challenge" => "challenge" \in env'.lost
<1> DEFINE f == todo[1].f
           w == Watched(f)
<1>1. env'.lost = env.lost \ w \/ (env'.lost = env.lost \cup w /\ Lost(r, d, good))
  BY Zenon DEF Answered, Lost
<1>2. Lost(r, d, good) => env'.lost = env.lost \cup w
  BY Zenon DEF Lost
<1>3. /\ f \in {"setpath", "_setpath"} => w = {"path"}
      /\ f \in {"lock", "challenge"} => w = {f}
      /\ f \notin {"setpath", "_setpath", "lock", "challenge"} => w = {}
  <2> HIDE DEF f
  <2>1. QED
    BY DEF Watched
<1> HIDE DEF w, f
<1>4. /\ f \notin {"setpath", "_setpath"} => "path" \notin w
      /\ f # "lock" => "lock" \notin w
      /\ f \in {"setpath", "_setpath"} => "path" \in w
      /\ f = "lock" => "lock" \in w
      /\ f = "challenge" => "challenge" \in w
  BY <1>3
<1>5. QED
  BY <1>1, <1>2, <1>4, Zenon DEF f

\* content_auth comes to the reset of the card only through a medium that has
\* accepted the key and a card that refuses it.
LEMMA StrayStep ==
  ASSUME Fields, TodoInv, AuthInv, todo # <<>>, todo[1].f # "crash",
         NEW good \in BOOLEAN, Came(good), NEW r, NEW d, Reply(r, d),
         Answered(r, d, good) \/ Lost(r, d, good)
  PROVE  AuthInv'
<1> DEFINE n == Skip(good)
           o == todo[1]
<1>0. /\ todo \in Scripts(Work) /\ n \in Nat /\ todo' = Left(todo, n)
      /\ (n = o.okskip /\ good) \/ (n = o.badskip /\ ~good)
  BY CameTodo, Zenon DEF TodoInv
<1>1. SUFFICES ASSUME cmd' = "auth", dev'.session.up,
                      NEW i \in 1 .. Len(todo'), todo'[i].f = "authinfo"
               PROVE  Tried(i)'
  BY Zenon DEF AuthInv
<1>2. /\ Len(todo') \in Nat /\ \A j \in 1 .. Len(todo') :
           j + 1 + n \in 1 .. Len(todo) /\ todo'[j] = todo[j + 1 + n]
  BY <1>0, LeftKnown, Zenon DEF LeftOf
<1>3. todo' # <<>>
  <2>1. 1 .. Len(<<>>) = {}
    OBVIOUS
  <2>2. QED
    BY <1>1, <2>1, Zenon
<1>4. cmd = "auth" /\ (o.f = "newkey" \/ key' = key)
  BY <1>1, <1>3, Zenon DEF Came
<1>5. 1 \in 1 .. Len(todo)
  BY FirstCall, Zenon
<1>6. o.f # "newkey" /\ key' = key
  <2>1. "auth" # "reset"
    OBVIOUS
  <2>2. QED
    BY <1>4, <1>5, <2>1, Zenon DEF TodoInv, CallsOf
<1> DEFINE j == i + 1 + n
<1>7. j \in 1 .. Len(todo) /\ todo[j].f = "authinfo"
  BY <1>1, <1>2, Zenon
<1>8. ResetAt(todo, j)
  BY <1>4, <1>7, Zenon DEF TodoInv, ResetsCard
<1>9. j <= 10 /\ j >= 2 /\ j \in Nat /\ j \in 2 .. j /\ j + 1 - j = 1 /\ i \in Nat /\ i >= 1
  <2>1. j <= 10
    BY <1>8, Zenon DEF ResetAt
  <2>2. i \in Nat /\ i >= 1
    BY <1>1, <1>2
  <2>3. j >= 2 /\ j \in Nat
    BY <1>0, <2>2
  <2> HIDE DEF j
  <2>4. QED
    BY <2>1, <2>2, <2>3
<1>10. Way(o, j)
  BY <1>8, <1>9, Zenon DEF ResetAt
<1> HIDE DEF n
<1>11. j \in {2, 3, 4, 5, 6, 7, 8, 9, 10} /\ j = i + 1 + n
  <2>1. j = i + 1 + n
    OBVIOUS
  <2> HIDE DEF j
  <2>2. QED
    BY <1>9, <2>1
<1>12. o.f # "authinfo" /\ o.f # "newkey"
  <2> HIDE DEF o
  <2>1. QED
    BY <1>10, <1>11 DEF Way
<1>13. d.keys = dev.keys /\ d.session.up = dev.session.up
  BY <1>12, Zenon DEF Reply
<1>14. dev'.keys = dev.keys /\ dev.session.up
  BY <1>1, <1>13, Zenon DEF Answered, Lost
<1>15. Tried(j)
  BY <1>4, <1>7, <1>14, Zenon DEF AuthInv
<1>16. ASSUME o.f \notin {"setpath", "_setpath"} PROVE Here' = Here
  <2>1. d.session.path = Here
    BY <1>16, Zenon DEF Reply
  <2>2. QED
    BY <2>1, Zenon DEF Answered, Lost, Here
<1> HIDE DEF o, j
<1>17. j <= 7 => \E m \in Attached : dev'.keys[m] = key'
  BY <1>6, <1>14, <1>15, Zenon DEF Tried
<1>18. ASSUME ~(i <= 2), \E m \in Attached : dev'.keys[m] = key'
       PROVE  Tried(i)'
  <2>1. i # 1
    BY <1>18, <1>9
  <2>2. QED
    BY <2>1, <1>18, Zenon DEF Tried
<1>19. ASSUME ~(i <= 7)
       PROVE  Tried(i)'
  <2>1. ~(i <= 2) /\ i # 1
    BY <1>19, <1>9
  <2>2. QED
    BY <2>1, <1>19, Zenon DEF Tried
<1>20. CASE j = 2
  <2>1. o.f = "challenge" /\ o.okskip = 1
    BY <1>10, <1>20, Zenon DEF Way
  <2>2. i = 1 /\ n = 0 /\ 2 <= 7 /\ 2 <= 2
    BY <1>0, <1>9, <1>11, <1>20
  <2>3. ~good
    <3>1. 0 # 1
      OBVIOUS
    <3>2. QED
      BY <1>0, <2>1, <2>2, <3>1, Zenon
  <2>4. Here' = Here /\ ("path" \in env'.lost <=> "path" \in env.lost)
    <3>1. o.f \notin {"setpath", "_setpath"}
      BY <2>1
    <3>2. QED
      BY <3>1, <1>16, Doubts, Zenon DEF o
  <2>5. "crd0" \in Cards /\ ("path" \in env.lost \/ Here = <<"crd0">>)
    BY <2>2, <1>15, <1>20, Zenon DEF Tried
  <2>6. "challenge" \in env'.lost \/ ~OnMedium \/ dev.keys[Here[1]] # key
    <3>1. CASE Answered(r, d, good)
      BY <3>1, <2>1, <2>3, Zenon DEF Reply, Answered, o
    <3>2. CASE Lost(r, d, good)
      BY <3>2, <2>1, Doubts, Zenon DEF o
    <3>3. QED
      BY <3>1, <3>2, Zenon
  <2>7. "challenge" \in env'.lost \/ ~OnMedium' \/ dev'.keys[Here[1]'] # key'
    BY <2>4, <2>6, <1>6, <1>14, Zenon DEF OnMedium
  <2>8. \E m \in Attached : dev'.keys[m] = key'
    BY <2>2, <1>17, <1>20, Zenon
  <2>9. QED
    BY <2>2, <2>4, <2>5, <2>7, <2>8, Zenon DEF Tried
<1>21. CASE j = 3
  <2>1. o.f = "setpath" /\ o.p = <<"crd0">> /\ "crd0" \in Cards /\ Zero(o)
    BY <1>10, <1>21, Zenon DEF Way
  <2>2. n = 0
    BY <1>0, <2>1, Zenon DEF Zero
  <2>3. i = 2 /\ i # 1 /\ 3 <= 7 /\ Len(<<"crd0">>) < 2
    BY <2>2, <1>9, <1>11, <1>21
  <2>4. "path" \in env'.lost \/ Here' = <<"crd0">>
    <3>1. o.f \in {"setpath", "_setpath"}
      BY <2>1
    <3>2. d.session.path = <<"crd0">>
      BY <3>1, <2>1, <2>3, Zenon DEF Reply, o
    <3>3. CASE Answered(r, d, good)
      BY <3>2, <3>3, Zenon DEF Answered, Here
    <3>4. CASE Lost(r, d, good)
      BY <3>1, <3>4, Doubts, Zenon DEF o
    <3>5. QED
      BY <3>3, <3>4, Zenon
  <2>5. \E m \in Attached : dev'.keys[m] = key'
    BY <2>3, <1>17, <1>21, Zenon
  <2>6. QED
    BY <2>1, <2>3, <2>4, <2>5, Zenon DEF Tried
<1>22. CASE j = 4
  <2>1. o.okskip = 0 /\ o.badskip >= 3
    BY <1>10, <1>22, Zenon DEF Way
  <2>2. n = 0 \/ n >= 3
    BY <1>0, <2>1, Zenon
  <2>3. ~(i <= 2) /\ 4 <= 7
    BY <2>2, <1>0, <1>9, <1>11, <1>22
  <2>4. QED
    BY <2>3, <1>17, <1>18, <1>22, Zenon
<1>23. CASE j = 5
  BY <1>10, <1>23, Zenon DEF Way, o
<1>24. CASE j = 6
  <2>1. o.okskip = 1 /\ o.badskip = 0
    BY <1>10, <1>24, Zenon DEF Way
  <2>2. n = 1 \/ n = 0
    BY <1>0, <2>1, Zenon
  <2>3. ~(i <= 2) /\ 6 <= 7
    BY <2>2, <1>9, <1>11, <1>24
  <2>4. QED
    BY <2>3, <1>17, <1>18, <1>24, Zenon
<1>25. CASE j = 7
  <2>1. n = 0
    BY <1>0, <1>10, <1>25, Zenon DEF Way, Zero
  <2>2. ~(i <= 2) /\ 7 <= 7
    BY <2>1, <1>9, <1>11, <1>25
  <2>3. QED
    BY <2>2, <1>17, <1>18, <1>25, Zenon
<1>26. CASE j = 8
  <2>1. o.f = "challenge" /\ o.okskip = 0 /\ o.badskip >= 7
    BY <1>10, <1>26, Zenon DEF Way
  <2>2. n = 0 /\ good
    <3>1. n = o.badskip => n >= 7
      BY <2>1, Zenon
    <3>2. ~(n >= 7)
      BY <1>0, <1>9, <1>11, <1>26
    <3>3. QED
      BY <3>1, <3>2, <1>0, <2>1, Zenon
  <2>3. ~(i <= 2)
    BY <2>2, <1>9, <1>11, <1>26
  <2>4. r = "SUCCESS"
    BY <2>2, Zenon DEF Answered, Lost
  <2>5. OnMedium /\ dev.keys[Here[1]] = key
    BY <2>1, <2>4, Zenon DEF Reply, o
  <2>6. Here[1] \in Attached
    BY <2>5, Zenon DEF Fields, Rooted, OnMedium
  <2>7. \E m \in Attached : dev'.keys[m] = key'
    BY <2>5, <2>6, <1>6, <1>14, Zenon
  <2>8. QED
    BY <2>3, <2>7, <1>18, Zenon
<1>27. CASE j = 9
  <2>1. n = 0
    BY <1>0, <1>10, <1>27, Zenon DEF Way, Zero
  <2>2. ~(i <= 7)
    BY <2>1, <1>9, <1>11, <1>27
  <2>3. QED
    BY <2>2, <1>19, Zenon
<1>28. CASE j = 10
  <2>1. o.okskip = 0 /\ o.badskip >= 9
    BY <1>10, <1>28, Zenon DEF Way
  <2>2. n = 0 \/ n >= 9
    BY <1>0, <2>1, Zenon
  <2>3. ~(i <= 7)
    BY <2>2, <1>0, <1>9, <1>11, <1>28
  <2>4. QED
    BY <2>3, <1>19, Zenon
<1>29. QED
  BY <1>11, <1>20, <1>21, <1>22, <1>23, <1>24, <1>25, <1>26, <1>27, <1>28, Zenon

\* What is left of a removal.
LEMMA RemoveLeft ==
  ASSUME NEW F, NEW t \in Scripts(F), t # <<>>, NEW n \in Nat
  PROVE  /\ NoRemove(t) => NoRemove(Left(t, n))
         /\ NoPathBefore(t, 0) \/ NoPathBefore(t, 1) => NoPathBefore(Left(t, n), 0)
         /\ NoPathBefore(t, 0) /\ t[1].f \in {"setpath", "_setpath"} => NoRemove(Left(t, n))
<1> DEFINE u == Left(t, n)
<1>1. /\ Len(t) \in Nat /\ Len(t) >= 1 /\ Len(u) \in Nat
      /\ \A i \in 1 .. Len(u) : i + 1 + n \in 1 .. Len(t) /\ u[i] = t[i + 1 + n]
  BY LeftIs, Zenon
<1> HIDE DEF u
<1>2. /\ 1 \in 1 .. Len(t)
      /\ \A i \in 1 .. Len(u) : 1 < i + 1 + n /\ 0 < i + 1 + n
      /\ \A i, j \in 1 .. Len(u) : j < i => j + 1 + n < i + 1 + n
      /\ 0 < 1
  BY <1>1
<1>3. NoRemove(t) => NoRemove(u)
  BY <1>1, Zenon DEF NoRemove
<1>4. ASSUME NoPathBefore(t, 0) \/ NoPathBefore(t, 1),
             NEW i \in 1 .. Len(u), NEW j \in 1 .. Len(u), u[i].f = "remove", j < i
      PROVE  u[j].f \notin {"setpath", "_setpath"}
  <2> DEFINE x == i + 1 + n
             y == j + 1 + n
  <2>1. x \in 1 .. Len(t) /\ y \in 1 .. Len(t) /\ u[i] = t[x] /\ u[j] = t[y]
    BY <1>1, <1>4, Zenon
  <2>2. y < x /\ 0 < y /\ 1 < y
    BY <1>2, <1>4, Zenon
  <2> HIDE DEF x, y
  <2>3. QED
    BY <1>4, <2>1, <2>2, Zenon DEF NoPathBefore
<1>5. ASSUME NoPathBefore(t, 0), t[1].f \in {"setpath", "_setpath"},
             NEW i \in 1 .. Len(u), u[i].f = "remove"
      PROVE  FALSE
  <2> DEFINE x == i + 1 + n
  <2>1. x \in 1 .. Len(t) /\ u[i] = t[x] /\ 1 < x
    BY <1>1, <1>2, <1>5, Zenon
  <2> HIDE DEF x
  <2>2. QED
    BY <1>2, <1>5, <2>1, Zenon DEF NoPathBefore
<1>6. QED
  BY <1>3, <1>4, <1>5, Zenon DEF NoPathBefore, NoRemove, u

\* content_remove is at the root of its medium when it removes.
LEMMA RemoveStep ==
  ASSUME Fields, TodoInv, RemoveInv, todo # <<>>, NEW good \in BOOLEAN, Came(good),
         NEW r, NEW d, Reply(r, d), Answered(r, d, good) \/ Lost(r, d, good)
  PROVE  RemoveInv'
<1> DEFINE o == todo[1]
<1>1. SUFFICES ASSUME cmd' = "remove", dev'.session.up, ~NoRemove(todo')
               PROVE  NoPathBefore(todo', 0) /\ AtRoot'
  BY Zenon DEF RemoveInv
<1>2. /\ todo \in Scripts(Work) /\ Skip(good) \in Nat /\ todo' = Left(todo, Skip(good))
  BY CameTodo, Zenon DEF TodoInv
<1>3. todo' # <<>>
  <2>1. 1 .. Len(<<>>) = {}
    OBVIOUS
  <2>2. QED
    BY <1>1, <2>1, Zenon DEF NoRemove
<1>4. cmd = "remove" /\ dev.session.up
  BY <1>1, <1>3, Zenon DEF Came, Answered, Lost, Reply
<1>5. CASE NoRemove(todo)
  BY <1>1, <1>2, <1>5, RemoveLeft, Zenon
<1>6. CASE Towards(todo, Root)
  <2>1. o.f = "setpath" /\ o.p = Root /\ NoPathBefore(todo, 1)
    BY <1>6, Zenon DEF Towards
  <2>2. NoPathBefore(todo', 0)
    BY <1>2, <2>1, RemoveLeft, Zenon
  <2>3. o.f \in {"setpath", "_setpath"} /\ o.f # "_setpath" /\ Len(Root) < 2
    BY <2>1 DEF Root
  <2>4. Root' = Root
    BY <2>3, Zenon DEF Came, Root
  <2>5. d.session.path = Root
    BY <2>1, <2>3, Zenon DEF Reply
  <2>6. CASE Answered(r, d, good)
    BY <2>2, <2>4, <2>5, <2>6, Zenon DEF Answered, AtRoot, Here
  <2>7. CASE Lost(r, d, good)
    BY <2>2, <2>3, <2>7, Doubts, Zenon DEF AtRoot
  <2>8. QED
    BY <2>6, <2>7, Zenon
<1>7. CASE NoPathBefore(todo, 0) /\ AtRoot
  <2>1. o.f \notin {"setpath", "_setpath"}
    BY <1>1, <1>2, <1>7, RemoveLeft, Zenon
  <2>2. NoPathBefore(todo', 0)
    BY <1>2, <1>7, RemoveLeft, Zenon
  <2>3. "path" \in env'.lost <=> "path" \in env.lost
    BY <2>1, Doubts, Zenon
  <2>4. Here' = Here
    <3>1. d.session.path = Here
      BY <2>1, Zenon DEF Reply
    <3>2. QED
      BY <3>1, Zenon DEF Answered, Lost, Here
  <2>5. Root' = Root
    BY <2>1, Zenon DEF Came, Root
  <2>6. QED
    BY <2>2, <2>3, <2>4, <2>5, <1>7, Zenon DEF AtRoot
<1>8. QED
  BY <1>4, <1>5, <1>6, <1>7, Zenon DEF RemoveInv
-----------------------------------------------------------------------------
(* A request, whatever becomes of it.                                      *)

\* A device is unlocked only on the way to the lock, unless that was lost.
LEMMA LockStep ==
  ASSUME TodoInv, LockInv, todo # <<>>, NEW good \in BOOLEAN, Fields, Came(good),
         NEW r, NEW d, Reply(r, d), Answered(r, d, good) \/ Lost(r, d, good)
  PROVE  LockInv'
<1>1. SUFFICES ASSUME dev'.session.up, ~dev'.session.locked, "lock" \notin env'.lost
               PROVE  LockAhead(todo')
  BY Zenon DEF LockInv
<1>2. /\ todo \in Scripts(Work) /\ Skip(good) \in Nat /\ todo' = Left(todo, Skip(good))
      /\ Skip(good) \in {0, todo[1].okskip, todo[1].badskip}
  BY CameTodo, Zenon DEF TodoInv
<1>3. dev.session.up
  BY <1>1, Zenon DEF Answered, Lost, Reply
<1>4. todo[1].f # "lock"
  <2>1. ASSUME todo[1].f = "lock" PROVE FALSE
    <3>0. "lock" # "unlock"
      OBVIOUS
    <3>1. Answered(r, d, good)
      BY <1>1, <2>1, Doubts, Zenon
    <3>2. QED
      BY <3>0, <3>1, <1>1, <2>1, Zenon DEF Answered, Reply
  <2>2. QED
    BY <2>1
<1>5. LockAhead(todo)
  <2>0. "lock" \notin env.lost
    BY <1>1, <1>4, Doubts, Zenon
  <2>1. CASE ~dev.session.locked
    BY <1>3, <2>0, <2>1, Zenon DEF LockInv
  <2>2. CASE todo[1].f = "unlock"
    <3>1. Len(todo) \in Nat /\ Len(todo) >= 1
      BY <1>2, LeftIs, Zenon
    <3>2. QED
      BY <2>2, <3>1, UnlockFirst, Zenon DEF TodoInv
  <2>3. ~dev.session.locked \/ todo[1].f = "unlock"
    BY <1>1, Zenon DEF Answered, Lost, Reply
  <2>4. QED
    BY <2>1, <2>2, <2>3, Zenon
<1>6. LockAhead(Left(todo, Skip(good)))
  BY <1>2, <1>4, <1>5, AheadLeft, Zenon
<1>7. QED
  BY <1>2, <1>6, Zenon

\* A path of the prompt has one or two names.
LEMMA PathLength ==
  \A p \in Paths : Len(p) \in Nat /\ (~(Len(p) < 2) => Len(p) = 2)
<1>1. \A p \in Paths : p \in Seq(Names) /\ Len(p) <= 2
  BY Zenon DEF Paths
<1>2. \A p \in Seq(Names) : Len(p) \in Nat
  OBVIOUS
<1>3. \A n \in Nat : n <= 2 /\ ~(n < 2) => n = 2
  OBVIOUS
<1>4. QED
  BY <1>1, <1>2, <1>3, Zenon

\* Every request comes nearer to the path that the prompt shows, unless a path
\* request is lost.
LEMMA PathStep ==
  ASSUME TodoInv, PathInv, todo # <<>>, NEW good \in BOOLEAN, Fields, Came(good),
         NEW r, NEW d, Reply(r, d), Answered(r, d, good) \/ Lost(r, d, good),
         todo[1].p # Null
  PROVE  PathInv'
<1> DEFINE o == todo[1]
           cwd == s.cwd
           Fine == "path" \in env'.lost \/ Agrees'
<1>1. SUFFICES ASSUME s'.connected, dev'.session.up
               PROVE  Homeward(todo', s'.cwd) \/ (Stays(todo') /\ Fine)
  BY Zenon DEF PathInv
<1>2. /\ todo \in Scripts(Work) /\ Skip(good) \in Nat /\ todo' = Left(todo, Skip(good))
  BY CameTodo, Zenon DEF TodoInv
<1>3. s.connected /\ dev.session.up
  BY <1>1, Zenon DEF Answered, Lost, Reply, Came
<1>4. /\ o.f = "_setpath" /\ good => s'.cwd = o.p
      /\ o.f # "_setpath" \/ ~good => s'.cwd = cwd
  BY Zenon DEF Came
<1>6. o.p \in Paths
  BY FirstCall, Zenon
<1>7. ASSUME o.f \in {"setpath", "_setpath"}, s'.cwd = o.p, todo' = <<>>
      PROVE  Stays(todo') /\ Fine
  <2>1. CASE Answered(r, d, good)
    <3>1. \/ r = "SUCCESS" /\ d.session.path = o.p
          \/ /\ r # "SUCCESS" /\ d.session.path = <<>>
             /\ ~(Len(o.p) < 2) /\ o.p[1] \notin d.dirs
      BY <1>7, Zenon DEF Reply
    <3>2. ~(Len(o.p) < 2) => Len(o.p) = 2
      BY <1>6, PathLength, Zenon
    <3>3. Here' = d.session.path /\ dev'.dirs = d.dirs
      BY <2>1, Zenon DEF Answered, Here
    <3>4. Agrees'
      BY <1>7, <3>1, <3>2, <3>3, Zenon DEF Agrees
    <3>5. QED
      BY <1>7, <3>4, NothingLeft, Zenon
  <2>2. CASE Lost(r, d, good)
    BY <1>7, <2>2, Doubts, NothingLeft, Zenon
  <2>3. QED
    BY <2>1, <2>2, Zenon
<1>8. CASE Homeward(todo, cwd)
  <2>1. Nearer(todo, todo', good, cwd)
    BY <1>2, <1>8, HomeStep, Zenon DEF Skip
  <2>2. CASE o.f # "_setpath" /\ Homeward(todo', cwd)
    BY <2>2, <1>4, Zenon
  <2>3. CASE o.f = "setpath" /\ o.p = cwd /\ todo' = <<>>
    <3>1. o.f # "_setpath" /\ o.f \in {"setpath", "_setpath"}
      BY <2>3
    <3>2. QED
      BY <2>3, <3>1, <1>4, <1>7, Zenon
  <2>4. CASE o.f = "_setpath" /\ good /\ todo' = <<>>
    BY <2>4, <1>4, <1>7, Zenon
  <2>5. CASE o.f = "_setpath" /\ ~good /\ Len(o.p) = 1 /\ todo' = <<>>
    <3>1. Len(o.p) < 2 /\ o.f \in {"setpath", "_setpath"}
      BY <2>5
    <3>2. Lost(r, d, good)
      BY <3>1, <2>5, Zenon DEF Reply, Answered
    <3>3. QED
      BY <2>5, <3>1, <3>2, Doubts, NothingLeft, Zenon
  <2>6. CASE o.f = "_setpath" /\ ~good /\ SetOne(todo', cwd)
    BY <2>6, <1>4, Zenon DEF Homeward
  <2>7. QED
    BY <2>1, <2>2, <2>3, <2>4, <2>5, <2>6, Zenon DEF Nearer
<1>9. CASE Stays(todo) /\ ("path" \in env.lost \/ Agrees)
  <2>1. o.f \in Staying /\ 1 \in 1 .. Len(todo)
    BY <1>9, FirstCall, Zenon DEF Stays
  <2>2. o.f \notin {"setpath", "_setpath"} /\ o.f # "_setpath"
    BY <2>1 DEF Staying
  <2>3. d.session.path = Here /\ d.dirs \subseteq dev.dirs /\ s'.cwd = cwd
    BY <2>1, <2>2, <1>4, Zenon DEF Reply
  <2>4. Here' = Here /\ dev'.dirs \subseteq dev.dirs
    BY <2>3, Zenon DEF Answered, Lost, Here
  <2>5. Agrees => Agrees'
    BY <2>3, <2>4, Zenon DEF Agrees
  <2>6. "path" \in env'.lost <=> "path" \in env.lost
    BY <2>2, Doubts, Zenon
  <2>7. Stays(todo')
    <3>1. \A i \in 1 .. Len(todo') : \E j \in 1 .. Len(todo) : todo'[i] = todo[j]
      BY <1>2, LeftKnown, Zenon DEF LeftOf
    <3>2. QED
      BY <3>1, <1>9, Zenon DEF Stays
  <2>8. QED
    BY <1>9, <2>5, <2>6, <2>7, Zenon
<1>10. QED
  BY <1>3, <1>8, <1>9, Zenon DEF PathInv

\* The variables keep their fields.
Shape ==
  /\ DOMAIN lib = {"up", "reason", "claim", "urb"}
  /\ DOMAIN dev = {"present", "session", "addons", "dirs", "keys"}
  /\ DOMAIN dev.session = {"up", "path", "locked", "authed"}
  /\ DOMAIN env = {"mode", "faults", "lost", "internal"} /\ env.faults \in Nat
  /\ Rooted(Here)

\* Nothing is promised of a device without a session.
LEMMA Quiet ==
  ASSUME Fields, TodoInv, SessionInv, todo # <<>>, NEW good \in BOOLEAN, Came(good),
         Shape', ~dev'.session.up, ~lib'.up /\ ~env'.internal => ~lib'.claim
  PROVE  ToolInv'
<1>1. TodoInv' /\ s'.cwd \in Cwds
  BY CameTodo, Zenon
<1>2. Fields'
  BY <1>1, Zenon DEF Fields, Shape, Came
<1>3. SessionInv'
  BY Zenon DEF SessionInv, Came
<1>4. LockInv' /\ AuthInv' /\ RemoveInv' /\ PathInv'
  BY Zenon DEF LockInv, AuthInv, RemoveInv, PathInv
<1>5. QED
  BY <1>1, <1>2, <1>3, <1>4, Zenon DEF ToolInv

\* The add-ons of a medium may go: the property AddonsKept, step by step.
MayGo(m) ==
  \/ cmd = "remove" /\ (m = s.cwd[1] \/ "path" \in env.lost)
  \/ cmd = "format" /\ m \in Cards
  \/ cmd = "reset"
  \/ cmd = "auth" /\ CardRefuses
Kept == \A m \in dev.addons \ dev'.addons : MayGo(m)

\* content_auth at the reset of the card.
LEMMA Refused ==
  ASSUME Tried(1), OnMedium
  PROVE  CardRefuses
<1>1. 1 <= 7 /\ 1 <= 2
  OBVIOUS
<1>2. PICK m \in Attached : dev.keys[m] = key
  BY <1>1, Zenon DEF Tried
<1>3. CASE {"path", "challenge"} \cap env.lost # {}
  BY <1>2, <1>3, Zenon DEF CardRefuses
<1>4. CASE {"path", "challenge"} \cap env.lost = {}
  <2>1. "path" \notin env.lost /\ "challenge" \notin env.lost
    BY <1>4
  <2>2. "crd0" \in Cards /\ Here = <<"crd0">> /\ dev.keys[Here[1]] # key
    BY <1>1, <2>1, Zenon DEF Tried
  <2>3. <<"crd0">>[1] = "crd0"
    OBVIOUS
  <2>4. dev.keys["crd0"] # key
    BY <2>2, <2>3, Zenon
  <2>5. m = "drv0" \/ m = "crd0"
    BY ToolAssumption DEF Attached
  <2>6. QED
    BY <1>2, <2>2, <2>4, <2>5, Zenon DEF CardRefuses
<1>5. QED
  BY <1>3, <1>4, Zenon

\* A device in order deletes add-ons only where the command may.
LEMMA ReplyKeeps ==
  ASSUME TodoInv, AuthInv, RemoveInv, todo # <<>>, dev.session.up, NEW r, NEW d,
         Reply(r, d), NEW m \in dev.addons \ d.addons
  PROVE  MayGo(m)
<1>1. 1 \in 1 .. Len(todo)
  BY FirstCall, Zenon
<1>2. \/ todo[1].f = "remove" /\ m = Here[1]
      \/ todo[1].f = "format" /\ m \in Cards
      \/ todo[1].f = "newkey"
      \/ todo[1].f = "authinfo" /\ OnMedium
  BY Zenon DEF Reply, Loses
<1>3. CASE todo[1].f = "remove" /\ m = Here[1]
  <2>1. cmd = "remove" /\ ~NoRemove(todo)
    BY <1>1, <1>3, Zenon DEF TodoInv, CallsOf, NoRemove
  <2>2. ~Towards(todo, Root)
    <3>1. "remove" # "setpath"
      OBVIOUS
    <3>2. QED
      BY <1>3, <3>1, Zenon DEF Towards
  <2>3. "path" \in env.lost \/ Here = <<s.cwd[1]>>
    BY <2>1, <2>2, Zenon DEF RemoveInv, AtRoot, Root
  <2>4. <<s.cwd[1]>>[1] = s.cwd[1]
    OBVIOUS
  <2>5. QED
    BY <1>3, <2>1, <2>3, <2>4, Zenon DEF MayGo
<1>4. CASE todo[1].f = "format" /\ m \in Cards
  BY <1>1, <1>4, Zenon DEF TodoInv, CallsOf, MayGo
<1>5. CASE todo[1].f = "newkey"
  BY <1>1, <1>5, Zenon DEF TodoInv, CallsOf, MayGo
<1>6. CASE todo[1].f = "authinfo" /\ OnMedium
  <2>1. cmd \in {"auth", "reset"}
    BY <1>1, <1>6, Zenon DEF TodoInv, CallsOf
  <2>2. cmd = "auth" => CardRefuses
    BY <1>1, <1>6, Refused, Zenon DEF AuthInv
  <2>3. QED
    BY <2>1, <2>2, Zenon DEF MayGo
<1>7. QED
  BY <1>2, <1>3, <1>4, <1>5, <1>6, Zenon

\* The device answers, or the answer is lost on the way.
LEMMA Served ==
  ASSUME ToolInv, todo # <<>>, todo[1].f # "crash", todo[1].p # Null, dev.session.up,
         NEW good \in BOOLEAN, Came(good), NEW r, NEW d, Reply(r, d),
         Answered(r, d, good) \/ Lost(r, d, good), lib' = lib,
         DOMAIN env' = DOMAIN env, env'.internal = env.internal, env'.faults \in Nat
  PROVE  ToolInv' /\ Kept
<1>1. Fields /\ TodoInv /\ SessionInv /\ LockInv /\ AuthInv /\ RemoveInv /\ PathInv
  BY Zenon DEF ToolInv
<1>2. TodoInv' /\ s'.cwd \in Cwds
  BY <1>1, CameTodo, Zenon
<1>3. AuthInv' /\ RemoveInv'
  BY <1>1, StrayStep, RemoveStep, Zenon
<1>4. /\ DOMAIN dev' = DOMAIN dev /\ DOMAIN dev'.session = DOMAIN dev.session
      /\ dev'.session.up = dev.session.up /\ dev.session.authed => dev'.session.authed
  BY Zenon DEF Answered, Lost, Reply
<1>5. todo[1].f = "challenge" /\ good => dev'.session.authed
  BY Zenon DEF Answered, Lost, Reply
<1>6. AuthGuarded(todo') \/ (dev'.session.up => dev'.session.authed)
  BY <1>1, <1>4, <1>5, GuardStep, Zenon
<1>7. Rooted(Here')
  <2>1. todo[1].p \in Paths
    BY <1>1, FirstCall, Zenon
  <2>2. Rooted(todo[1].p) /\ Rooted(Here) /\ Rooted(<<>>)
    BY <1>1, <2>1, Zenon DEF Paths, Fields, Rooted
  <2>3. Here' \in {Here, todo[1].p, <<>>}
    BY Zenon DEF Answered, Lost, Reply, Here
  <2>4. QED
    BY <2>2, <2>3, Zenon
<1>8. Fields'
  BY <1>1, <1>2, <1>4, <1>7, Zenon DEF Fields, Came
<1>9. SessionInv'
  BY <1>1, <1>4, <1>6, Zenon DEF SessionInv, Came
<1>10. LockInv' /\ PathInv'
  BY <1>1, LockStep, PathStep, Zenon
<1>11. Kept
  <2>1. dev' = dev \/ dev' = d
    BY Zenon DEF Answered, Lost
  <2>2. QED
    BY <2>1, <1>1, ReplyKeeps, Zenon DEF Kept
<1>12. QED
  BY <1>2, <1>3, <1>8, <1>9, <1>10, <1>11, Zenon DEF ToolInv

\* The fields of the records that a request changes.
LEMMA Changed ==
  ASSUME Fields
  PROVE  /\ Dropped.session = NoSession /\ Dropped.addons = dev.addons
         /\ DOMAIN Dropped = DOMAIN dev /\ Dropped.present = dev.present
         /\ ~NoSession.up /\ NoSession.locked /\ NoSession.path = <<>>
         /\ DOMAIN NoSession = {"up", "path", "locked", "authed"}
         /\ \A w : LET e == [env EXCEPT !.lost = @ \ w]
                  IN /\ DOMAIN e = DOMAIN env /\ e.lost = env.lost \ w
                     /\ e.faults = env.faults /\ e.internal = env.internal
         /\ \A w : LET e == [env EXCEPT !.lost = @ \cup w, !.faults = @ + 1]
                  IN /\ DOMAIN e = DOMAIN env /\ e.lost = env.lost \cup w
                     /\ e.faults = env.faults + 1 /\ e.internal = env.internal
         /\ LET e == [env EXCEPT !.lost = {}, !.internal = TRUE, !.faults = @ + 1]
            IN DOMAIN e = DOMAIN env /\ e.internal /\ e.faults = env.faults + 1
         /\ LET e == [env EXCEPT !.lost = {}, !.internal = FALSE]
            IN DOMAIN e = DOMAIN env /\ ~e.internal /\ e.faults = env.faults
         /\ LET l == [lib EXCEPT !.up = FALSE, !.reason = "ERROR", !.urb = "over"]
            IN DOMAIN l = DOMAIN lib
<1>1. /\ "session" # "addons" /\ "session" # "present" /\ "lost" # "faults"
      /\ "lost" # "internal" /\ "faults" # "internal"
  OBVIOUS
<1>2. /\ ~NoSession.up /\ NoSession.locked /\ NoSession.path = <<>>
      /\ DOMAIN NoSession = {"up", "path", "locked", "authed"}
  BY DEF NoSession
<1>3. /\ Dropped.session = NoSession /\ Dropped.addons = dev.addons
      /\ DOMAIN Dropped = DOMAIN dev /\ Dropped.present = dev.present
  BY <1>1, Zenon DEF Dropped, Fields
<1>4. /\ \A w : LET e == [env EXCEPT !.lost = @ \ w]
               IN /\ DOMAIN e = DOMAIN env /\ e.lost = env.lost \ w
                  /\ e.faults = env.faults /\ e.internal = env.internal
      /\ \A w : LET e == [env EXCEPT !.lost = @ \cup w, !.faults = @ + 1]
               IN /\ DOMAIN e = DOMAIN env /\ e.lost = env.lost \cup w
                  /\ e.faults = env.faults + 1 /\ e.internal = env.internal
      /\ LET e == [env EXCEPT !.lost = {}, !.internal = TRUE, !.faults = @ + 1]
         IN DOMAIN e = DOMAIN env /\ e.internal /\ e.faults = env.faults + 1
      /\ LET e == [env EXCEPT !.lost = {}, !.internal = FALSE]
         IN DOMAIN e = DOMAIN env /\ ~e.internal /\ e.faults = env.faults
  BY <1>1, Zenon DEF Fields
<1>5. LET l == [lib EXCEPT !.up = FALSE, !.reason = "ERROR", !.urb = "over"]
      IN DOMAIN l = DOMAIN lib
  BY Zenon DEF Fields
<1>6. QED
  BY <1>2, <1>3, <1>4, <1>5, Zenon

\* Every request keeps the invariant, and the add-ons.
LEMMA TransferKeeps ==
  ASSUME ToolInv, NEW STATE f, NEW STATE r, NEW STATE d, NEW STATE st, NEW STATE torn,
         Transfer(f, r, d, st, torn), "crash" \notin f, Reply(r, d)
  PROVE  ToolInv' /\ Kept
<1>1. Fields /\ TodoInv /\ SessionInv
  BY Zenon DEF ToolInv
<1>2. todo # <<>> /\ Head(todo).f \in f
  BY Zenon DEF Transfer
<1>3. Head(todo) = todo[1] /\ todo[1].f # "crash"
  BY <1>1, <1>2, FirstCall, Zenon
<1>4. Shape
  BY <1>1, Zenon DEF Fields, Shape
<1>5. dev.session.up => Usable
  <2>1. "none" \notin {"UNPLUGGED", "ERROR"}
    OBVIOUS
  <2>2. QED
    BY <1>1, <2>1, Zenon DEF SessionInv, Usable, Failing
<1>6. ASSUME NEW STATE x, Return(x, d) \/ Return(x, dev)
      PROVE  Came(x = "SUCCESS")
  BY <1>1, <1>2, <1>6, ReturnIs, Zenon
<1>7. CASE /\ ~Usable
           /\ Return(IF Failing THEN "INTERNAL" ELSE "NOT_FOUND", dev)
           /\ UNCHANGED <<lib, dev, storage, env>>
  <2> DEFINE x == IF Failing THEN "INTERNAL" ELSE "NOT_FOUND"
  <2>1. Came(x = "SUCCESS")
    BY <1>6, <1>7
  <2>2. ~dev'.session.up /\ Shape' /\ (~lib'.up /\ ~env'.internal => ~lib'.claim)
    BY <1>1, <1>4, <1>5, <1>7, Zenon DEF Shape, SessionInv, Here
  <2>3. ToolInv'
    BY <1>1, <1>2, <2>1, <2>2, Quiet, Zenon
  <2>4. QED
    BY <1>7, <2>3, Zenon DEF Kept
<1>8. CASE /\ Usable /\ Head(todo).p # Null /\ dev.session.up
           /\ Return(r, d)
           /\ dev' = d /\ storage' = st
           /\ env' = [env EXCEPT !.lost = @ \ Watched(Head(todo).f)]
           /\ UNCHANGED lib
  <2>1. Came(r = "SUCCESS")
    BY <1>6, <1>8
  <2>0. /\ DOMAIN env' = DOMAIN env /\ env'.lost = env.lost \ Watched(todo[1].f)
        /\ env'.faults = env.faults /\ env'.internal = env.internal
    <3> DEFINE w == Watched(todo[1].f)
    <3>1. env' = [env EXCEPT !.lost = @ \ w]
      BY <1>3, <1>8, Zenon
    <3> HIDE DEF w
    <3>2. /\ DOMAIN env' = DOMAIN env /\ env'.lost = env.lost \ w
          /\ env'.faults = env.faults /\ env'.internal = env.internal
      BY <1>1, <3>1, Changed, Zenon
    <3>3. QED
      BY <3>2, Zenon DEF w
  <2>2. Answered(r, d, r = "SUCCESS")
    BY <1>8, <2>0, Zenon DEF Answered
  <2>3. /\ lib' = lib /\ DOMAIN env' = DOMAIN env /\ env'.internal = env.internal
        /\ todo[1].p # Null /\ env'.faults \in Nat
    BY <1>1, <1>3, <1>8, <2>0, Zenon DEF Fields
  <2>4. QED
    BY <1>2, <1>3, <1>8, <2>1, <2>2, <2>3, Served, Zenon
<1>9. CASE /\ Usable /\ Head(todo).p # Null /\ ~dev.session.up
           /\ Return("OTHER", dev)
           /\ UNCHANGED <<lib, dev, storage, env>>
  <2>1. Came("OTHER" = "SUCCESS")
    BY <1>6, <1>9
  <2>3. ~dev'.session.up /\ Shape' /\ (~lib'.up /\ ~env'.internal => ~lib'.claim)
    BY <1>1, <1>4, <1>9, Zenon DEF Shape, SessionInv, Here
  <2>4. ToolInv'
    BY <1>1, <1>2, <2>1, <2>3, Quiet, Zenon
  <2>5. QED
    BY <1>9, <2>4, Zenon DEF Kept
<1>10. CASE /\ Usable /\ Head(todo).p # Null /\ dev.session.up /\ env.faults < MaxFaults
            /\ Return("OTHER", d)
            /\ dev' \in {dev, d} /\ storage' \in {storage, st} \cup torn
            /\ env' = [env EXCEPT !.lost = @ \cup Watched(Head(todo).f), !.faults = @ + 1]
            /\ UNCHANGED lib
  <2>0. "OTHER" # "SUCCESS"
    OBVIOUS
  <2>1. Came("OTHER" = "SUCCESS")
    BY <1>6, <1>10
  <2>2. /\ DOMAIN env' = DOMAIN env /\ env'.lost = env.lost \cup Watched(todo[1].f)
        /\ env'.faults = env.faults + 1 /\ env'.internal = env.internal
    <3> DEFINE w == Watched(todo[1].f)
    <3>1. env' = [env EXCEPT !.lost = @ \cup w, !.faults = @ + 1]
      BY <1>3, <1>10, Zenon
    <3> HIDE DEF w
    <3>2. /\ DOMAIN env' = DOMAIN env /\ env'.lost = env.lost \cup w
          /\ env'.faults = env.faults + 1 /\ env'.internal = env.internal
      BY <1>1, <3>1, Changed, Zenon
    <3>3. QED
      BY <3>2, Zenon DEF w
  <2>6. env'.faults \in Nat
    <3>1. env.faults \in Nat
      BY <1>4, Zenon DEF Shape
    <3>2. QED
      BY <2>2, <3>1
  <2>3. Lost(r, d, "OTHER" = "SUCCESS")
    BY <1>10, <2>0, <2>2, Zenon DEF Lost
  <2>4. lib' = lib /\ todo[1].p # Null
    BY <1>3, <1>10, Zenon
  <2>5. QED
    BY <1>2, <1>3, <1>10, <2>1, <2>2, <2>3, <2>4, <2>6, Served, Zenon
<1>11. CASE /\ Usable /\ Head(todo).p # Null /\ dev.session.up /\ env.faults < MaxFaults
            /\ Return("INTERNAL", d)
            /\ lib' = [lib EXCEPT !.up = FALSE, !.reason = "ERROR", !.urb = "over"]
            /\ dev' = Dropped
            /\ env' = [env EXCEPT !.lost = {}, !.internal = TRUE, !.faults = @ + 1]
            /\ UNCHANGED storage
  <2>1. Came("INTERNAL" = "SUCCESS")
    BY <1>6, <1>11
  <2>2. /\ DOMAIN env' = DOMAIN env /\ env'.internal /\ env'.faults = env.faults + 1
        /\ DOMAIN lib' = DOMAIN lib /\ DOMAIN dev' = DOMAIN dev
        /\ dev'.session = NoSession /\ dev'.addons = dev.addons
        /\ ~NoSession.up /\ DOMAIN NoSession = {"up", "path", "locked", "authed"}
        /\ NoSession.path = <<>>
    BY <1>1, <1>11, Changed, Zenon
  <2>3. env'.faults \in Nat
    <3>1. env.faults \in Nat
      BY <1>4, Zenon DEF Shape
    <3>2. QED
      BY <2>2, <3>1
  <2>4. ~dev'.session.up /\ Shape' /\ (~lib'.up /\ ~env'.internal => ~lib'.claim)
    BY <1>4, <2>2, <2>3, Zenon DEF Shape, Here, Rooted
  <2>5. ToolInv'
    BY <1>1, <1>2, <2>1, <2>4, Quiet, Zenon
  <2>6. QED
    BY <2>2, <2>5, Zenon DEF Kept
<1>12. QED
  BY <1>7, <1>8, <1>9, <1>10, <1>11, Zenon DEF Transfer

\* The call that a request is made for.
LEMMA Asked ==
  ASSUME ToolInv, NEW STATE f, NEW STATE r, NEW STATE d, NEW STATE st, NEW STATE torn,
         Transfer(f, r, d, st, torn)
  PROVE  Fields /\ todo # <<>> /\ todo[1].f \in f /\ Head(todo) = todo[1]
  BY FirstCall, Zenon DEF Transfer, ToolInv

\* Requests that only ask.
LEMMA AskingKeeps ==
  ASSUME ToolInv, NEW STATE f, NEW STATE r, NEW STATE st, NEW STATE torn,
         Transfer(f, r, dev, st, torn),
         \A x \in f : x \notin {"crash", "setpath", "_setpath", "lock", "challenge"}
  PROVE  ToolInv' /\ Kept
<1>1. Fields /\ todo[1].f \in f
  BY Asked, Zenon
<1>2. Reply(r, dev) /\ "crash" \notin f
  BY <1>1, ReplySame, Zenon
<1>3. QED
  BY <1>2, TransferKeeps, Zenon

\* Requests that change the device if it lets them.
LEMMA TryingKeeps ==
  ASSUME ToolInv, NEW STATE f, NEW STATE may, may \in BOOLEAN, NEW STATE d, NEW STATE st,
         NEW STATE torn, Transfer({f}, Answer(may), When(may, d), st, torn),
         f \notin {"crash", "setpath", "_setpath", "lock"},
         may => Reply("SUCCESS", d),
         f = "challenge" /\ ~may => ~(OnMedium /\ dev.keys[Here[1]] = key)
  PROVE  ToolInv' /\ Kept
<1>1. Fields /\ todo[1].f = f
  <2> DEFINE r == Answer(may)
             e == When(may, d)
  <2>1. Transfer({f}, r, e, st, torn)
    OBVIOUS
  <2> HIDE DEF r, e
  <2>2. Fields /\ todo[1].f \in {f}
    BY <2>1, Asked
  <2>3. QED
    BY <2>2, Zenon
<1>2. Reply(Answer(may), When(may, d))
  <2>1. CASE may
    BY <2>1, Zenon DEF Answer, When
  <2>2. CASE ~may
    <3>1. Answer(may) # "SUCCESS" /\ When(may, d) = dev
      <4>1. "FORBIDDEN" # "SUCCESS"
        OBVIOUS
      <4>2. QED
        BY <2>2, <4>1, Zenon DEF Answer, When
    <3>2. Reply(Answer(may), dev)
      BY <1>1, <2>2, <3>1, ReplySame, Zenon
    <3>3. QED
      BY <3>1, <3>2, Zenon
  <2>3. QED
    BY <2>1, <2>2, Zenon
<1>3. "crash" \notin {f}
  BY Zenon
<1>4. QED
  BY <1>2, <1>3, TransferKeeps, Zenon

\* Every call of the library keeps the invariant.
LEMMA CallKeeps ==
  ASSUME ToolInv, Call
  PROVE  ToolInv' /\ Kept
<1>0. Fields
  BY Zenon DEF ToolInv
<1>1. CASE exword_setpath
  <2> DEFINE o == Head(todo)
             found == Len(o.p) < 2 \/ o.mk \/ o.p[1] \in dev.dirs
             r == IF found THEN "SUCCESS" ELSE "NOT_FOUND"
             d == IF found
                  THEN [dev EXCEPT !.session.path = o.p,
                          !.dirs = IF Len(o.p) = 2 THEN @ \cup {o.p[1]} ELSE @]
                  ELSE [dev EXCEPT !.session.path = <<>>]
  <2>1. Transfer({"setpath", "_setpath"}, r, d, storage, {})
    BY <1>1, Zenon DEF exword_setpath
  <2>2. todo[1].f \in {"setpath", "_setpath"} /\ o = todo[1]
    BY <2>1, Asked
  <2>3. Reply(r, d)
    BY <1>0, <2>2, ReplyPath, Zenon
  <2>4. "crash" \notin {"setpath", "_setpath"}
    OBVIOUS
  <2> HIDE DEF r, d
  <2>5. QED
    BY <2>1, <2>3, <2>4, TransferKeeps, Zenon
<1>2. CASE exword_list
  <2>1. \A x \in {"list", "cards", "scan"} :
          x \notin {"crash", "setpath", "_setpath", "lock", "challenge"}
    OBVIOUS
  <2>2. QED
    BY <1>2, <2>1, AskingKeeps DEF exword_list
<1>3. CASE exword_get_model
  <2>1. \A x \in {"model"} : x \notin {"crash", "setpath", "_setpath", "lock", "challenge"}
    OBVIOUS
  <2>2. QED
    BY <1>3, <2>1, AskingKeeps DEF exword_get_model, Request
<1>4. CASE exword_get_capacity
  <2>1. \A x \in {"capacity"} :
          x \notin {"crash", "setpath", "_setpath", "lock", "challenge"}
    OBVIOUS
  <2>2. QED
    BY <1>4, <2>1, AskingKeeps DEF exword_get_capacity, Request
<1>5. CASE exword_get_file
  <2>1. \A x \in {"download"} :
          x \notin {"crash", "setpath", "_setpath", "lock", "challenge"}
    OBVIOUS
  <2>2. PICK r \in {"SUCCESS", "NOT_FOUND"} : Transfer({"download"}, r, dev, storage, {})
    BY <1>5, Zenon DEF exword_get_file, Request
  <2>3. QED
    BY <2>1, <2>2, AskingKeeps
<1>6. CASE exword_userid
  <2>1. \A x \in {"userid"} :
          x \notin {"crash", "setpath", "_setpath", "lock", "challenge"}
    OBVIOUS
  <2>2. QED
    BY <1>6, <2>1, AskingKeeps DEF exword_userid, Request
<1>7. CASE _find
  <2>1. \A x \in {"find"} : x \notin {"crash", "setpath", "_setpath", "lock", "challenge"}
    OBVIOUS
  <2>2. QED
    BY <1>7, <2>1, AskingKeeps DEF _find, Request
<1>8. CASE exword_send_file
  <2>1. /\ \A x \in {"upload"} :
             x \notin {"crash", "setpath", "_setpath", "lock", "challenge"}
        /\ \A x \in {"send"} :
             x \notin {"crash", "setpath", "_setpath", "lock", "challenge"}
    OBVIOUS
  <2>2. CASE Transfer({"upload"}, "SUCCESS", dev, storage, {})
    BY <2>1, <2>2, AskingKeeps
  <2>3. CASE \E v \in Versions :
               Transfer({"send"}, "SUCCESS", dev,
                        IF PayloadPath THEN Stored(Packed(v)) ELSE storage,
                        IF PayloadPath
                        THEN {Stored(x) : x \in Torn(Packed(v), storage[Here[1]])}
                        ELSE {})
    BY <2>1, <2>3, AskingKeeps
  <2>4. QED
    BY <1>8, <2>2, <2>3, Zenon DEF exword_send_file
<1>9. CASE exword_remove_file
  <2>1. /\ \A x \in {"delete"} :
             x \notin {"crash", "setpath", "_setpath", "lock", "challenge"}
        /\ "remove" \notin {"crash", "setpath", "_setpath", "lock"}
        /\ "remove" # "challenge"
    OBVIOUS
  <2>2. CASE Transfer({"delete"}, "SUCCESS", dev,
                      IF PayloadPath THEN Stored(NoFile) ELSE storage, {})
    BY <2>1, <2>2, AskingKeeps
  <2> DEFINE may == ~dev.session.locked /\ OnMedium
             d == [dev EXCEPT !.addons = @ \ {Here[1]}, !.dirs = @ \ {Here[1]}]
  <2>3. CASE Request("remove", Answer(may), When(may, d))
    <3>1. Transfer({"remove"}, Answer(may), When(may, d), storage, {})
      BY <2>3, Zenon DEF Request
    <3>2. todo[1].f = "remove"
      <4> HIDE DEF may, d
      <4>1. QED
        BY <3>1, Asked
    <3>3. Reply("SUCCESS", d) /\ may \in BOOLEAN
      BY <1>0, <3>2, ReplyAddons, Zenon
    <3> HIDE DEF may, d
    <3>4. QED
      BY <2>1, <3>1, <3>3, TryingKeeps, Zenon
  <2>4. QED
    BY <1>9, <2>2, <2>3, Zenon DEF exword_remove_file
<1>10. CASE exword_sd_format
  <2> DEFINE d == [dev EXCEPT !.addons = @ \ Cards, !.dirs = @ \ Cards]
             r == Answer(Cards # {})
             st == [m \in Media |-> IF m \in Cards THEN NoFile ELSE storage[m]]
  <2>1. Transfer({"format"}, r, d, st, {})
    BY <1>10, Zenon DEF exword_sd_format
  <2>2. todo[1].f = "format" /\ "crash" \notin {"format"}
    <3> HIDE DEF r, d, st
    <3>1. todo[1].f = "format"
      BY <2>1, Asked
    <3>2. "crash" \notin {"format"}
      OBVIOUS
    <3>3. QED
      BY <3>1, <3>2, Zenon
  <2>3. Reply(r, d)
    BY <1>0, <2>2, ReplyAddons, Zenon
  <2> HIDE DEF r, d, st
  <2>4. QED
    BY <2>1, <2>2, <2>3, TransferKeeps, Zenon
<1>11. CASE exword_unlock
  <2> DEFINE d == [dev EXCEPT !.session.locked = FALSE]
             may == dev.session.authed
  <2>1. Transfer({"unlock"}, Answer(may), When(may, d), storage, {})
    BY <1>11, Zenon DEF exword_unlock, Request
  <2>2. /\ "unlock" \notin {"crash", "setpath", "_setpath", "lock", "challenge"}
    OBVIOUS
  <2>3. todo[1].f = "unlock"
    <3> HIDE DEF d, may
    <3>1. QED
      BY <2>1, Asked
  <2>4. \A r : Reply(r, d)
    BY <1>0, <2>3, ReplySession, Zenon
  <2>5. Reply(Answer(may), When(may, d))
    <3>1. Reply(Answer(may), dev)
      BY <1>0, <2>2, <2>3, ReplySame, Zenon
    <3> HIDE DEF d, may
    <3>2. CASE may
      BY <3>2, <2>4, Zenon DEF When
    <3>3. CASE ~may
      BY <3>1, <3>3, Zenon DEF When
    <3>4. QED
      BY <3>2, <3>3, Zenon
  <2>6. "crash" \notin {"unlock"}
    OBVIOUS
  <2> HIDE DEF d, may
  <2>7. QED
    BY <2>1, <2>5, <2>6, TransferKeeps, Zenon
<1>12. CASE exword_lock
  <2> DEFINE d == [dev EXCEPT !.session.locked = TRUE]
  <2>1. Transfer({"lock"}, "SUCCESS", d, storage, {})
    BY <1>12, Zenon DEF exword_lock, Request
  <2>2. todo[1].f = "lock" /\ "crash" \notin {"lock"}
    <3> HIDE DEF d
    <3>1. todo[1].f = "lock"
      BY <2>1, Asked
    <3>2. "crash" \notin {"lock"}
      OBVIOUS
    <3>3. QED
      BY <3>1, <3>2, Zenon
  <2>3. Reply("SUCCESS", d)
    BY <1>0, <2>2, ReplySession, Zenon
  <2> HIDE DEF d
  <2>4. QED
    BY <2>1, <2>2, <2>3, TransferKeeps, Zenon
<1>13. CASE exword_cname
  <2> DEFINE d == [dev EXCEPT !.addons = @ \cup {Here[1]}]
             could == ~dev.session.locked /\ OnMedium
  <2>1. \/ Transfer({"cname"}, Answer(FALSE), When(FALSE, d), storage, {})
        \/ Transfer({"cname"}, Answer(could), When(could, d), storage, {})
    BY <1>13, Zenon DEF exword_cname, Request
  <2>2. todo[1].f = "cname"
    <3> HIDE DEF d, could
    <3>1. CASE Transfer({"cname"}, Answer(FALSE), When(FALSE, d), storage, {})
      <4> DEFINE r == Answer(FALSE)
                 e == When(FALSE, d)
      <4>1. Transfer({"cname"}, r, e, storage, {})
        BY <3>1
      <4> HIDE DEF r, e
      <4>2. QED
        BY <4>1, Asked
    <3>2. CASE Transfer({"cname"}, Answer(could), When(could, d), storage, {})
      BY <3>2, Asked
    <3>3. QED
      BY <2>1, <3>1, <3>2, Zenon
  <2>3. Reply("SUCCESS", d) /\ could \in BOOLEAN /\ FALSE \in BOOLEAN
    BY <1>0, <2>2, ReplyAddons, Zenon
  <2>4. "cname" \notin {"crash", "setpath", "_setpath", "lock"} /\ "cname" # "challenge"
    OBVIOUS
  <2> HIDE DEF d, could
  <2>5. QED
    BY <2>1, <2>3, <2>4, TryingKeeps, Zenon
<1>14. CASE exword_cryptkey
  <2>1. \A x \in {"cryptkey"} :
          x \notin {"crash", "setpath", "_setpath", "lock", "challenge"}
    OBVIOUS
  <2>2. QED
    BY <1>14, <2>1, AskingKeeps DEF exword_cryptkey, Request
<1>15. CASE exword_authchallenge
  <2> DEFINE d == [dev EXCEPT !.session.authed = TRUE]
             may == OnMedium /\ dev.keys[Here[1]] = key
  <2>1. Transfer({"challenge"}, Answer(may), When(may, d), storage, {})
    BY <1>15, Zenon DEF exword_authchallenge, Request
  <2>2. todo[1].f = "challenge"
    <3> HIDE DEF d, may
    <3>1. QED
      BY <2>1, Asked
  <2>3. may => Reply("SUCCESS", d)
    BY <1>0, <2>2, ReplySession, Zenon
  <2>4. ~may => ~(OnMedium /\ dev.keys[Here[1]] = key)
    OBVIOUS
  <2>5. "challenge" \notin {"crash", "setpath", "_setpath", "lock"} /\ may \in BOOLEAN
    OBVIOUS
  <2> HIDE DEF d, may
  <2>6. QED
    BY <2>1, <2>3, <2>4, <2>5, TryingKeeps, Zenon
<1>16. CASE exword_authinfo
  <2>1. PICK k \in Keys, f \in {"authinfo", "newkey"} :
          Request(f, Answer(OnMedium),
                  When(OnMedium, [dev EXCEPT !.keys[Here[1]] = k,
                                    !.addons = {}, !.dirs = {}]))
    BY <1>16, Zenon DEF exword_authinfo
  <2> DEFINE d == [dev EXCEPT !.keys[Here[1]] = k, !.addons = {}, !.dirs = {}]
  <2>2. Transfer({f}, Answer(OnMedium), When(OnMedium, d), storage, {})
    BY <2>1, Zenon DEF Request
  <2>3. todo[1].f = f
    <3> HIDE DEF d
    <3>1. QED
      BY <2>2, Asked
  <2>4. OnMedium => Reply("SUCCESS", d)
    BY <1>0, <2>3, ReplyAddons, Zenon
  <2>5. /\ f \notin {"crash", "setpath", "_setpath", "lock"} /\ f # "challenge"
    OBVIOUS
  <2>6. OnMedium \in BOOLEAN
    BY Zenon DEF OnMedium
  <2> HIDE DEF d
  <2>7. QED
    BY <2>2, <2>4, <2>5, <2>6, TryingKeeps, Zenon
<1>17. QED
  BY <1>1, <1>2, <1>3, <1>4, <1>5, <1>6, <1>7, <1>8, <1>9, <1>10, <1>11, <1>12,
     <1>13, <1>14, <1>15, <1>16, Zenon DEF Call
-----------------------------------------------------------------------------
(* The steps between the calls.                                            *)

\* A step of the host, which changes nothing of the session.
LEMMA HostKeeps ==
  ASSUME ToolInv, todo # <<>>, todo[1].f \in {"local", "ifok", "authok", "authno"},
         NEW n \in {0, todo[1].okskip, todo[1].badskip}, NEW STATE x,
         GoOn(After(n), x, key), lib' = lib, dev' = dev, env' = env,
         DOMAIN s' = DOMAIN s, s'.connected = s.connected, s'.cwd = s.cwd,
         s'.devs = s.devs, s'.running = s.running,
         s'.authenticated => s'.authenticated = s.authenticated
           \/ (s.connected /\ (dev.session.up => dev.session.authed))
  PROVE  ToolInv' /\ Kept
<1> DEFINE o == todo[1]
<1>1. Fields /\ TodoInv /\ SessionInv /\ LockInv /\ AuthInv /\ RemoveInv /\ PathInv
  BY Zenon DEF ToolInv
<1>2. /\ 1 \in 1 .. Len(todo) /\ todo \in Scripts(Work) /\ After(n) = Left(todo, n)
      /\ o.okskip \in Nat /\ o.badskip \in Nat
  BY <1>1, FirstCall, Zenon
<1>3. n \in Nat
  BY <1>2
<1>4. /\ todo' = Left(todo, n) /\ (cmd' = cmd \/ todo' = <<>>)
      /\ key' = key \/ todo' = <<>>
  BY <1>2, Zenon DEF GoOn
<1>5. /\ o.f \notin {"challenge", "setpath", "_setpath", "cards", "crash", "download"}
      /\ o.f \notin {"setpath", "_setpath"} /\ o.f # "challenge" /\ o.f # "lock"
      /\ o.f \notin Staying
  BY DEF Staying
<1> HIDE DEF o
<1>6. TodoInv'
  BY <1>1, <1>3, <1>4, TodoStep, Zenon
<1>7. Fields'
  BY <1>1, Zenon DEF Fields, Here
<1>8. SessionInv'
  <2>1. AuthGuarded(todo) => AuthGuarded(todo')
    BY <1>2, <1>3, <1>4, <1>5, AuthLeft, Zenon DEF o
  <2>2. QED
    BY <1>1, <2>1, Zenon DEF SessionInv
<1>9. LockInv'
  <2>1. LockAhead(todo) => LockAhead(todo')
    BY <1>2, <1>4, <1>5, AheadLeft, Zenon DEF o
  <2>2. QED
    BY <1>1, <2>1, Zenon DEF LockInv
<1>10. AuthInv'
  <2>1. SUFFICES ASSUME cmd' = "auth", dev'.session.up, NEW i \in 1 .. Len(todo'),
                        todo'[i].f = "authinfo"
                 PROVE  Tried(i)'
    BY Zenon DEF AuthInv
  <2>2. /\ Len(todo') \in Nat /\ \A j \in 1 .. Len(todo') :
             j + 1 + n \in 1 .. Len(todo) /\ todo'[j] = todo[j + 1 + n]
    <3>1. LeftOf(Left(todo, n), todo, n)
      BY <1>2, <1>3, LeftKnown, Zenon
    <3>2. LeftOf(todo', todo, n)
      BY <1>4, <3>1, Zenon
    <3>3. QED
      BY <3>2, Zenon DEF LeftOf
  <2>3. todo' # <<>>
    <3>1. 1 .. Len(<<>>) = {}
      OBVIOUS
    <3>2. QED
      BY <2>1, <3>1, Zenon
  <2> DEFINE j == i + 1 + n
  <2>4. j \in 1 .. Len(todo) /\ todo[j].f = "authinfo"
    BY <2>1, <2>2, Zenon
  <2>5. ResetAt(todo, j)
    BY <1>1, <1>4, <2>1, <2>3, <2>4, Zenon DEF TodoInv, ResetsCard
  <2>6. j <= 10
    BY <2>5, Zenon DEF ResetAt
  <2>7. j >= 2 /\ j \in Nat /\ j = i + 1 + n /\ i \in Nat /\ i >= 1
    BY <1>3, <2>1, <2>2
  <2> HIDE DEF j
  <2>8. j \in 2 .. j /\ j + 1 - j = 1 /\ j \in {2, 3, 4, 5, 6, 7, 8, 9, 10}
    BY <2>6, <2>7
  <2>9. Way(o, j)
    BY <2>5, <2>8, Zenon DEF ResetAt, o
  <2>10. j = 4
    BY <2>8, <2>9, <1>5 DEF Way
  <2>11. n = 0 \/ n >= 3
    <3>1. o.okskip = 0 /\ o.badskip >= 3
      BY <2>9, <2>10, Zenon DEF Way
    <3>2. n \in {0, o.okskip, o.badskip}
      BY Zenon DEF o
    <3>3. QED
      BY <3>1, <3>2, Zenon
  <2>12. ~(i <= 2) /\ i # 1 /\ 4 <= 7
    BY <1>3, <2>7, <2>10, <2>11
  <2>13. Tried(4)
    BY <1>1, <1>4, <2>1, <2>3, <2>4, <2>10, Zenon DEF AuthInv
  <2>14. QED
    BY <1>4, <2>3, <2>12, <2>13, Zenon DEF Tried
<1>11. PathInv'
  <2>1. SUFFICES ASSUME s'.connected, dev'.session.up PROVE Homeward(todo', s'.cwd)
    BY Zenon DEF PathInv
  <2>2. s.connected /\ dev.session.up
    BY <2>1, Zenon
  <2>3. ~Stays(todo)
    BY <1>2, <1>5, Zenon DEF Stays, o
  <2>4. Homeward(todo, s.cwd)
    BY <1>1, <2>2, <2>3, Zenon DEF PathInv
  <2>5. TRUE \in BOOLEAN
    OBVIOUS
  <2>6. Homeward(Left(todo, n), s.cwd)
    BY <1>2, <1>5, <2>4, <2>5, HomeStep, Zenon DEF o
  <2>7. QED
    BY <1>4, <2>6, Zenon
<1>12. RemoveInv'
  <2>1. SUFFICES ASSUME cmd' = "remove", dev'.session.up, ~NoRemove(todo')
                 PROVE  NoPathBefore(todo', 0) /\ AtRoot'
    BY Zenon DEF RemoveInv
  <2>2. todo' # <<>>
    <3>1. 1 .. Len(<<>>) = {}
      OBVIOUS
    <3>2. QED
      BY <2>1, <3>1, Zenon DEF NoRemove
  <2>3. cmd = "remove" /\ dev.session.up /\ ~NoRemove(todo)
    BY <1>2, <1>3, <1>4, <2>1, <2>2, RemoveLeft, Zenon
  <2>4. ~Towards(todo, Root)
    BY <1>5, Zenon DEF Towards, o
  <2>5. NoPathBefore(todo, 0) /\ AtRoot
    BY <1>1, <2>3, <2>4, Zenon DEF RemoveInv
  <2>6. NoPathBefore(todo', 0)
    BY <1>2, <1>3, <1>4, <2>5, RemoveLeft, Zenon
  <2>7. QED
    BY <2>5, <2>6, Zenon DEF AtRoot, Here, Root
<1>13. QED
  BY <1>6, <1>7, <1>8, <1>9, <1>10, <1>11, <1>12, Zenon DEF ToolInv, Kept

\* NULL stands for a path that is not known.
LEMMA NullPath == Null \in Cwds
<1>1. "NULL" \in Names
  BY DEF Names
<1>2. <<"NULL">> \in Seq(Names) /\ Len(<<"NULL">>) = 1
  BY <1>1
<1>3. QED
  BY <1>2 DEF Cwds, Null

\* A device without a session.
LEMMA SessionDown ==
  ASSUME Shape', TodoInv', ~dev'.session.up, ~s'.connected => ~s'.authenticated,
         DOMAIN s' = {"running", "connected", "mode", "cwd", "authenticated", "event",
                      "devs"},
         s'.cwd \in Cwds, s'.devs \subseteq Attached,
         ~lib'.up /\ ~env'.internal => ~lib'.claim
  PROVE  ToolInv'
<1>1. Fields'
  BY Zenon DEF Fields, Shape
<1>2. SessionInv' /\ LockInv' /\ AuthInv' /\ RemoveInv' /\ PathInv'
  BY Zenon DEF SessionInv, LockInv, AuthInv, RemoveInv, PathInv
<1>3. QED
  BY <1>1, <1>2, Zenon DEF ToolInv

\* A prompt that knows of no session.
Fresh(x) ==
  /\ DOMAIN x = {"running", "connected", "mode", "cwd", "authenticated", "event", "devs"}
  /\ x.cwd = Null /\ x.devs = {} /\ ~x.connected /\ ~x.authenticated

\* main and disconnect start with one.
LEMMA FreshPrompt == Fresh(Prompt) /\ \A b : Fresh([Prompt EXCEPT !.running = b])
<1>1. Fresh(Prompt)
  BY DEF Fresh, Prompt
<1>2. ASSUME NEW b PROVE Fresh([Prompt EXCEPT !.running = b])
  <2>1. /\ "running" # "cwd" /\ "running" # "devs" /\ "running" # "connected"
        /\ "running" # "authenticated"
    OBVIOUS
  <2>2. QED
    BY <1>1, <2>1, Zenon DEF Fresh
<1>3. QED
  BY <1>1, <1>2, Zenon

\* A prompt that knows of no session, and a device that has none.
LEMMA Alone ==
  ASSUME Shape', Fresh(s'), todo' = <<>>, ~dev'.session.up,
         ~lib'.up /\ ~env'.internal => ~lib'.claim
  PROVE  ToolInv'
<1>1. TodoInv'
  BY NothingLeft, Zenon DEF TodoInv, Fresh
<1>2. QED
  BY <1>1, NullPath, SessionDown, Zenon DEF Fresh

\* The end of the process, at the prompt or in a crash.
LEMMA EndsKeeps ==
  ASSUME ToolInv, Ends
  PROVE  ToolInv' /\ Kept
<1>1. Fields
  BY Zenon DEF ToolInv
<1>2. /\ lib' = LibDown /\ dev' = Dropped
      /\ env' = [env EXCEPT !.lost = {}, !.internal = FALSE]
      /\ s' = [Prompt EXCEPT !.running = FALSE] /\ GoOn(<<>>, ok, key)
  BY Zenon DEF Ends
<1>3. todo' = <<>>
  BY <1>2, Zenon DEF GoOn
<1>4. DOMAIN env' = DOMAIN env /\ env'.faults = env.faults
  BY <1>1, <1>2, Changed, Zenon
<1>5. DOMAIN lib' = {"up", "reason", "claim", "urb"} /\ ~lib'.up /\ ~lib'.claim
  BY <1>2 DEF LibDown
<1>6. /\ DOMAIN dev' = DOMAIN dev /\ dev'.session = NoSession /\ ~NoSession.up
      /\ DOMAIN NoSession = {"up", "path", "locked", "authed"} /\ dev'.addons = dev.addons
      /\ NoSession.path = <<>>
  BY <1>1, <1>2, Changed, Zenon
<1>7. Shape' /\ ~dev'.session.up /\ (~lib'.up /\ ~env'.internal => ~lib'.claim)
  BY <1>1, <1>4, <1>5, <1>6, Zenon DEF Shape, Fields, Here, Rooted
<1>8. Fresh(s')
  BY <1>2, FreshPrompt, Zenon
<1>9. ToolInv'
  BY <1>3, <1>7, <1>8, Alone, Zenon
<1>10. QED
  BY <1>6, <1>9, Zenon DEF Kept

\* Every step between the calls keeps the invariant.
LEMMA BetweenKeeps ==
  ASSUME ToolInv, Between
  PROVE  ToolInv' /\ Kept
<1>0. Fields /\ TodoInv /\ SessionInv
  BY Zenon DEF ToolInv
<1> DEFINE o == todo[1]
<1>1. ASSUME todo # <<>>
      PROVE  /\ Head(todo) = o /\ o.okskip \in Nat /\ o.badskip \in Nat
             /\ 1 \in 1 .. Len(todo) /\ s.connected
  BY <1>0, <1>1, FirstCall, Zenon DEF TodoInv
<1>2. ASSUME Local PROVE lib' = lib /\ dev' = dev /\ env' = env
  BY <1>2, Zenon DEF Local
<1>3. /\ "local" \in {"local", "ifok", "authok", "authno"}
      /\ "ifok" \in {"local", "ifok", "authok", "authno"}
      /\ "authok" \in {"local", "ifok", "authok", "authno"}
      /\ "authno" \in {"local", "ifok", "authok", "authno"}
  OBVIOUS
<1>4. CASE OnHost
  <2>1. /\ todo # <<>> /\ Head(todo).f = "local" /\ s' = s /\ Local
        /\ \E n \in {0, Head(todo).badskip} : GoOn(After(n), ok, key)
    BY <1>4, Zenon DEF OnHost, Goes
  <2>2. PICK n \in {0, Head(todo).badskip} : GoOn(After(n), ok, key)
    BY <2>1, Zenon
  <2>3. o.f = "local" /\ n \in {0, o.okskip, o.badskip}
    BY <2>1, <2>2, <1>1, Zenon
  <2>4. QED
    BY <1>2, <1>3, <2>1, <2>2, <2>3, HostKeeps, Zenon
<1>5. CASE IfOk
  <2> DEFINE n == IF ok THEN 0 ELSE Head(todo).badskip
  <2>1. /\ todo # <<>> /\ Head(todo).f = "ifok" /\ s' = s /\ Local
        /\ GoOn(After(n), ok, key)
    BY <1>5, Zenon DEF IfOk, Goes
  <2>2. o.f = "ifok" /\ n \in {0, o.okskip, o.badskip}
    <3>1. CASE ok
      BY <2>1, <1>1, <3>1, Zenon
    <3>2. CASE ~ok
      BY <2>1, <1>1, <3>2, Zenon
    <3>3. QED
      BY <3>1, <3>2, Zenon
  <2> HIDE DEF n
  <2>3. QED
    BY <1>2, <1>3, <2>1, <2>2, HostKeeps, Zenon
<1>6. ASSUME NEW b
      PROVE  LET y == [s EXCEPT !.authenticated = b]
             IN /\ DOMAIN y = DOMAIN s /\ y.connected = s.connected /\ y.cwd = s.cwd
                /\ y.devs = s.devs /\ y.authenticated = b /\ y.running = s.running
  <2>1. /\ "authenticated" # "connected" /\ "authenticated" # "cwd"
        /\ "authenticated" # "devs" /\ "authenticated" # "running"
    OBVIOUS
  <2>2. QED
    BY <1>0, <2>1, Zenon DEF Fields
<1>7. CASE AuthOk
  <2> DEFINE n == Head(todo).okskip
  <2>1. /\ todo # <<>> /\ Head(todo).f = "authok" /\ Local
        /\ s' = [s EXCEPT !.authenticated = TRUE] /\ GoOn(After(n), ok, key)
    BY <1>7, Zenon DEF AuthOk, Goes
  <2>2. o.f = "authok" /\ n \in {0, o.okskip, o.badskip}
    BY <2>1, <1>1, Zenon
  <2>3. /\ DOMAIN s' = DOMAIN s /\ s'.connected = s.connected /\ s'.cwd = s.cwd
        /\ s'.devs = s.devs /\ s'.running = s.running
    BY <2>1, <1>6, Zenon
  <2>4. ~AuthGuarded(todo)
    <3>1. \A j \in 1 .. Len(todo) : ~(j < 1)
      OBVIOUS
    <3>2. QED
      BY <1>1, <2>1, <2>2, <3>1, Zenon DEF AuthGuarded, NoAuthOk
  <2>5. s.connected /\ (dev.session.up => dev.session.authed)
    BY <1>0, <1>1, <2>1, <2>4, Zenon DEF SessionInv
  <2> HIDE DEF n
  <2>6. QED
    BY <1>2, <1>3, <2>1, <2>2, <2>3, <2>5, HostKeeps, Zenon
<1>8. CASE AuthNo
  <2>1. /\ todo # <<>> /\ Head(todo).f = "authno" /\ Local
        /\ s' = [s EXCEPT !.authenticated = FALSE] /\ GoOn(After(0), ok, key)
    BY <1>8, Zenon DEF AuthNo, Goes
  <2>2. o.f = "authno" /\ 0 \in {0, o.okskip, o.badskip}
    BY <2>1, <1>1, Zenon
  <2>3. /\ DOMAIN s' = DOMAIN s /\ s'.connected = s.connected /\ s'.cwd = s.cwd
        /\ s'.devs = s.devs /\ s'.running = s.running /\ ~s'.authenticated
    BY <2>1, <1>6, Zenon
  <2>4. QED
    BY <1>2, <1>3, <2>1, <2>2, <2>3, HostKeeps, Zenon
<1>9. CASE Crash
  BY <1>9, EndsKeeps, Zenon DEF Crash
<1>10. QED
  BY <1>4, <1>5, <1>7, <1>8, <1>9, Zenon DEF Between
-----------------------------------------------------------------------------
(* The scripts that are not of content.                                    *)

\* A script of calls that every command may make.
LEMMA Plain ==
  ASSUME NEW t \in Scripts(Work), NEW c,
         \A i \in 1 .. Len(t) :
           /\ t[i].f \notin Rare
           /\ t[i].f = "_setpath" => t[i].p \in Cwds
  PROVE  ScriptOK(t, c) /\ NoReset(t) /\ NoRemove(t)
<1>1. \A i \in 1 .. Len(t) :
        /\ t[i].f # "unlock" /\ t[i].f # "authok" /\ t[i].f # "authinfo"
        /\ t[i].f # "remove" /\ t[i].f # "newkey" /\ t[i].f # "format"
  BY Zenon DEF Rare
<1>2. UnlockSafe(t) /\ AuthGuarded(t) /\ CallsOf(t, c) /\ ResetsCard(t) /\ SetsCwd(t)
  BY <1>1, Zenon DEF UnlockSafe, AuthGuarded, NoAuthOk, CallsOf, ResetsCard, SetsCwd
<1>3. QED
  BY <1>1, <1>2, Zenon DEF ScriptOK, NoReset, NoRemove

\* One call.
LEMMA OneCallScript ==
  ASSUME NEW f \in Staying, NEW c, f = "format" => c = "format"
  PROVE  LET t == <<Do(f)>>
         IN ScriptOK(t, c) /\ NoReset(t) /\ NoRemove(t) /\ Stays(t)
<1> DEFINE x == Do(f)
           R == Ops(Work)
<1>1. f \in Work /\ <<>> \in Paths /\ FALSE \in BOOLEAN
  BY SomePaths DEF Work, Common, Staying
<1>2. x \in R /\ x.f = f
  BY <1>1, OneCall, Zenon
<1>3. /\ f # "unlock" /\ f # "authok" /\ f # "authinfo" /\ f # "remove" /\ f # "newkey"
      /\ f # "_setpath"
  BY DEF Staying
<1> HIDE DEF x, R
<1>4. <<x>> \in Seq(R) /\ <<x>>[1] = x /\ \A i \in 1 .. Len(<<x>>) : i = 1
  BY <1>2
<1> DEFINE t == <<x>>
<1>5. t \in Scripts(Work)
  BY <1>4 DEF Scripts, R
<1>6. \A i \in 1 .. Len(t) : t[i].f = f
  BY <1>2, <1>4, Zenon
<1> HIDE DEF t
<1>7. UnlockSafe(t) /\ AuthGuarded(t) /\ CallsOf(t, c) /\ ResetsCard(t) /\ SetsCwd(t)
  BY <1>3, <1>6, Zenon DEF UnlockSafe, AuthGuarded, NoAuthOk, CallsOf, ResetsCard, SetsCwd
<1>8. ScriptOK(t, c) /\ NoReset(t) /\ NoRemove(t) /\ Stays(t)
  BY <1>3, <1>5, <1>6, <1>7, Zenon DEF ScriptOK, NoReset, NoRemove, Stays
<1>9. QED
  BY <1>8 DEF t, x

\* connect: to the root, for the media there are, then to the internal storage.
LEMMA ConnectScript == ScriptOK(connect_script, "connect") /\ HomeOne(connect_script)
<1> DEFINE R == Ops(Work)
           z == Do("scan")
           o == Path(<<>>)
           x == [o EXCEPT !.badskip = Len(<<z>>)]
           y == Op("_setpath", <<"drv0">>, TRUE, 0, 0)
           t == <<x>> \o <<z>> \o <<y>>
<1>1. /\ <<>> \in Paths /\ <<"drv0">> \in Paths /\ <<"drv0">> \in Cwds
      /\ TRUE \in BOOLEAN /\ FALSE \in BOOLEAN
  BY SomePaths, Zenon
<1>2. "setpath" \in Work /\ "_setpath" \in Work /\ "scan" \in Work
  BY DEF Work, Common
<1>3. /\ z \in R /\ z.f = "scan" /\ Zero(z)
      /\ o \in R /\ o.f = "setpath" /\ Zero(o)
      /\ y \in R /\ y.f = "_setpath" /\ y.p = <<"drv0">> /\ Zero(y)
  <2> DEFINE W == Work
             d == <<"drv0">>
  <2>1. "setpath" \in W /\ "_setpath" \in W /\ "scan" \in W /\ d \in Paths
    BY <1>1, <1>2, Zenon
  <2> HIDE DEF W, d
  <2>2. Do("scan") \in Ops(W) /\ Zero(Do("scan")) /\ Do("scan").f = "scan"
    BY <1>1, <2>1, OneCall, Zenon
  <2>3. Path(<<>>) \in Ops(W) /\ Zero(Path(<<>>)) /\ Path(<<>>).f = "setpath"
    BY <1>1, <2>1, OneCall, Zenon
  <2>4. LET e == Op("_setpath", d, TRUE, 0, 0)
        IN e \in Ops(W) /\ e.f = "_setpath" /\ e.p = d /\ Zero(e)
    <3>1. 0 \in Nat
      OBVIOUS
    <3>2. QED
      BY <1>1, <2>1, <3>1, Zenon DEF Op, Ops, Zero
  <2>5. QED
    BY <2>2, <2>3, <2>4, Zenon DEF W, d
<1>4. x \in R /\ x.f = "setpath" /\ x.okskip = 0 /\ x.badskip = 1
  <2> DEFINE n == Len(<<z>>)
  <2>1. n = 1 /\ n \in Nat
    OBVIOUS
  <2>2. x = [o EXCEPT !.badskip = n]
    BY Zenon
  <2> HIDE DEF o, n, x
  <2>3. QED
    BY <1>3, <2>1, <2>2, Zenon DEF Ops, Zero
<1>5. connect_script = t
  BY Zenon DEF connect_script, IfGood
<1> HIDE DEF R, x, y, z, o
<1>6. /\ t \in Seq(R) /\ Len(t) = 3 /\ t[1] = x /\ t[2] = z /\ t[3] = y
      /\ \A i \in 1 .. Len(t) : i = 1 \/ i = 2 \/ i = 3
  BY <1>3, <1>4
<1> HIDE DEF t
<1>7. t \in Scripts(Work)
  BY <1>6, Zenon DEF Scripts, R
<1>8. \A i \in 1 .. Len(t) :
        /\ t[i].f \notin Rare
        /\ t[i].f = "_setpath" => t[i].p \in Cwds
  <2>1. /\ x.f \notin Rare
        /\ z.f \notin Rare
        /\ y.f \notin Rare
        /\ x.f # "_setpath" /\ z.f # "_setpath"
    BY <1>3, <1>4 DEF Rare
  <2>2. QED
    BY <1>1, <1>3, <1>6, <2>1, Zenon
<1>9. ScriptOK(t, "connect")
  BY <1>7, <1>8, Plain, Zenon
<1>10. HomeOne(t)
  <2>1. Len(<<"drv0">>) = 1
    OBVIOUS
  <2>2. /\ t[Len(t)].f = "_setpath" /\ Len(t[Len(t)].p) = 1 /\ Zero(t[Len(t)])
    BY <1>3, <1>6, <2>1, Zenon
  <2>3. Len(t) >= 1
    BY <1>6
  <2>4. ASSUME NEW j \in 1 .. Len(t), j < Len(t)
        PROVE  /\ t[j].f # "_setpath"
               /\ j + t[j].okskip <= Len(t) - 1 /\ j + t[j].badskip <= Len(t) - 1
    <3>1. j = 1 \/ j = 2
      BY <1>6, <2>4
    <3>2. z.okskip = 0 /\ z.badskip = 0
      BY <1>3, Zenon DEF Zero
    <3>3. CASE j = 1
      BY <1>4, <1>6, <3>3
    <3>4. CASE j = 2
      BY <1>3, <1>6, <3>2, <3>4
    <3>5. QED
      BY <3>1, <3>3, <3>4
  <2>5. QED
    BY <2>2, <2>3, <2>4, Zenon DEF HomeOne
<1>11. QED
  BY <1>5, <1>9, <1>10, Zenon

\* setpath: a new path, or back to the one shown.
LEMMA SetpathScript ==
  ASSUME NEW m \in Attached, NEW p \in {<<>>, <<"A">>}, NEW mkdir \in BOOLEAN,
         NEW cwd \in Cwds
  PROVE  LET t == <<Op("_setpath", <<m>> \o p, mkdir, 1, 0),
                    Op("setpath", cwd, FALSE, 0, 0)>>
         IN ScriptOK(t, "setpath") /\ SetTwo(t, cwd) /\ NoReset(t) /\ NoRemove(t)
<1> DEFINE R == Ops(Work)
           q == <<m>> \o p
           x == Op("_setpath", q, mkdir, 1, 0)
           y == Op("setpath", cwd, FALSE, 0, 0)
           t == <<x, y>>
<1>1. m \in Names /\ "A" \in Names
  BY ToolAssumption DEF Attached, Names, Media
<1>2. q \in Cwds
  <2> DEFINE S == Names
             u == <<m>>
  <2>1. u \in Seq(S) /\ Len(u) = 1 /\ p \in Seq(S) /\ Len(p) \in {0, 1}
    <3>1. m \in S /\ "A" \in S
      BY <1>1
    <3> HIDE DEF S
    <3>2. CASE p = <<>>
      BY <3>1, <3>2
    <3>3. CASE p = <<"A">>
      BY <3>1, <3>3
    <3>4. QED
      BY <3>1, <3>2, <3>3
  <2>5. u[1] = m
    OBVIOUS
  <2> HIDE DEF S, u
  <2>2. u \o p \in Seq(S) /\ Len(u \o p) = Len(u) + Len(p)
    BY <2>1, ConcatProperties, Zenon
  <2>3. Len(u \o p) \in {1, 2} /\ (u \o p)[1] = u[1]
    BY <2>1, <2>2
  <2>4. QED
    BY <2>2, <2>3, <2>5, Zenon DEF Cwds, Rooted, S, u
<1>3. q \in Paths /\ cwd \in Paths
  BY <1>2, SomePaths, Zenon
<1> HIDE DEF q
<1>4. "setpath" \in Work /\ "_setpath" \in Work /\ 1 \in Nat /\ 0 \in Nat /\ FALSE \in BOOLEAN
  BY DEF Work, Common
<1>5. /\ x \in R /\ x.f = "_setpath" /\ x.p = q /\ x.okskip = 1 /\ x.badskip = 0
      /\ y \in R /\ y.f = "setpath" /\ y.p = cwd /\ y.okskip = 0 /\ y.badskip = 0
  BY <1>3, <1>4, Zenon DEF Op, Ops
<1> HIDE DEF R, x, y
<1>6. /\ t \in Seq(R) /\ Len(t) = 2 /\ t[1] = x /\ t[2] = y
      /\ \A i \in 1 .. Len(t) : i = 1 \/ i = 2
  BY <1>5
<1> HIDE DEF t
<1>7. t \in Scripts(Work)
  BY <1>6, Zenon DEF Scripts, R
<1>8. \A i \in 1 .. Len(t) :
        /\ t[i].f \notin Rare
        /\ t[i].f = "_setpath" => t[i].p \in Cwds
  <2>1. /\ x.f \notin Rare
        /\ y.f \notin Rare
        /\ y.f # "_setpath"
    BY <1>5 DEF Rare
  <2>2. QED
    BY <1>2, <1>5, <1>6, <2>1, Zenon
<1>9. ScriptOK(t, "setpath") /\ NoReset(t) /\ NoRemove(t)
  BY <1>7, <1>8, Plain, Zenon
<1>10. SetTwo(t, cwd)
  BY <1>5, <1>6, Zenon DEF SetTwo, Zero
<1>11. QED
  BY <1>9, <1>10, Zenon DEF t, x, y, q
-----------------------------------------------------------------------------
(* The prompt.                                                             *)

\* At the prompt the device is locked, and where the prompt says.
LEMMA AtPrompt ==
  ASSUME ToolInv, todo = <<>>
  PROVE  /\ dev.session.up /\ "lock" \notin env.lost => dev.session.locked
         /\ s.connected /\ dev.session.up => "path" \in env.lost \/ Agrees
<1>1. \A i \in 1 .. Len(<<>>) : FALSE
  OBVIOUS
<1>2. Len(<<>>) = 0 /\ ~(0 >= 1) /\ ~(0 >= 2) /\ 0 # 1 /\ 0 # 2
  OBVIOUS
<1>3. ~LockAhead(<<>>)
  BY <1>1, Zenon DEF LockAhead, Ahead
<1>4. \A c : ~Homeward(<<>>, c)
  BY <1>2, Zenon DEF Homeward, HomeTwo, HomeOne, SetTwo, SetOne
<1>5. QED
  BY <1>3, <1>4, Zenon DEF ToolInv, LockInv, PathInv

\* A command is typed.
LEMMA TypedKeeps ==
  ASSUME ToolInv, NEW STATE c, NEW STATE script, Typed(c, script), ScriptOK(script, c),
         c = "auth" => ResetsLate(script) \/ NoReset(script),
         c = "remove" => Towards(script, Root) \/ NoRemove(script),
         Homeward(script, s.cwd) \/ Stays(script)
  PROVE  ToolInv' /\ Kept
<1>1. Fields /\ TodoInv /\ SessionInv
  BY Zenon DEF ToolInv
<1>2. /\ todo = <<>> /\ s.connected /\ cmd' = c /\ todo' = script
      /\ lib' = lib /\ dev' = dev /\ s' = s /\ env' = env
  BY Zenon DEF Typed, Idle
<1>3. /\ dev.session.up /\ "lock" \notin env.lost => dev.session.locked
      /\ s.connected /\ dev.session.up => "path" \in env.lost \/ Agrees
  BY <1>2, AtPrompt, Zenon
<1>4. Fields' /\ TodoInv' /\ SessionInv'
  <2>1. Fields'
    BY <1>1, <1>2, Zenon DEF Fields, Here
  <2>2. TodoInv'
    BY <1>1, <1>2, Zenon DEF TodoInv, ScriptOK
  <2>3. SessionInv'
    BY <1>1, <1>2, Zenon DEF SessionInv, ScriptOK
  <2>4. QED
    BY <2>1, <2>2, <2>3, Zenon
<1>5. LockInv'
  BY <1>2, <1>3, Zenon DEF LockInv
<1>6. AuthInv'
  <2>1. /\ ~(9 <= 7) /\ ~(9 <= 2) /\ 9 # 1
        /\ ~(10 <= 7) /\ ~(10 <= 2) /\ 10 # 1
    OBVIOUS
  <2>2. Tried(9)' /\ Tried(10)'
    BY <2>1, Zenon DEF Tried
  <2>3. QED
    BY <1>2, <2>2, Zenon DEF AuthInv, ResetsLate, ResetOnly, NoReset
<1>7. RemoveInv'
  BY <1>2, Zenon DEF RemoveInv, Root
<1>8. PathInv'
  <2>1. Agrees => Agrees'
    BY <1>2, Zenon DEF Agrees, Here
  <2>2. QED
    BY <1>2, <1>3, <2>1, Zenon DEF PathInv
<1>9. QED
  BY <1>2, <1>4, <1>5, <1>6, <1>7, <1>8, Zenon DEF ToolInv, Kept

\* A command of content is typed and main.c knows of no path.
LEMMA ContentCrashes ==
  ASSUME ToolInv, s.cwd = Null, NEW STATE c, NEW STATE a, Content(c, a)
  PROVE  ToolInv' /\ Kept
<1> DEFINE t == <<Do("crash")>>
<1>1. Typed(c, t)
  BY Zenon DEF Content
<1>2. ScriptOK(t, c) /\ NoReset(t) /\ NoRemove(t) /\ Stays(t)
  <2>1. "crash" \in Staying /\ "crash" # "format"
    BY DEF Staying
  <2>2. QED
    BY <2>1, OneCallScript, Zenon
<1> HIDE DEF t
<1>3. QED
  BY <1>1, <1>2, TypedKeeps, Zenon

\* A command of content is typed.
LEMMA ContentKeeps ==
  ASSUME ToolInv, s.cwd # Null, NEW STATE c, NEW STATE a, Content(c, a), NEW F,
         F \subseteq Work, "_setpath" \notin F, Piece(F, 0, a), UnlockSafe(a),
         AuthGuarded(a), CallsOf(a, c), c = "auth" => ResetsLate(a),
         c = "remove" => Towards(a, Root)
  PROVE  ToolInv' /\ Kept
<1>1. s.cwd \in Cwds /\ Root \in Roots
  BY SomePaths, Zenon DEF ToolInv, Fields, Root
<1> DEFINE t == a \o BackToCwd(Root)
<1>2. Typed(c, t)
  BY Zenon DEF Content
<1>3. t = a \o IfBad(Path(s.cwd), <<Op("_setpath", Root, FALSE, 0, 0)>>)
  BY Zenon DEF BackToCwd
<1>4. /\ ScriptOK(t, c) /\ HomeTwo(t, s.cwd) /\ (c = "auth" => ResetsLate(t))
      /\ c = "remove" => Towards(t, Root)
  BY <1>1, <1>3, HomeScript, Zenon
<1> HIDE DEF t
<1>5. QED
  BY <1>2, <1>4, TypedKeeps, Zenon DEF Homeward

\* Every command of content.
LEMMA ContentCommands ==
  ASSUME ToolInv, content
  PROVE  ToolInv' /\ Kept
<1> DEFINE A == Common
           B == Common \cup {"unlock"}
           C == Common \cup {"unlock", "remove"}
           D == Common \cup {"authinfo", "authok"}
           E == Common \cup {"authinfo", "authok", "newkey"}
<1>0. CASE s.cwd = Null
  BY <1>0, ContentCrashes, Zenon DEF content
<1>12. SUFFICES ASSUME s.cwd # Null PROVE ToolInv' /\ Kept
  BY <1>0, Zenon
<1>13. Root \in Roots
  BY <1>12, SomePaths, Zenon DEF ToolInv, Fields, Root
<1>1. /\ A \subseteq Work /\ B \subseteq Work /\ C \subseteq Work /\ D \subseteq Work
      /\ E \subseteq Work /\ C \ {"remove"} = B
      /\ "unlock" \notin A /\ "authok" \notin A /\ "authinfo" \notin A
      /\ "remove" \notin A /\ "newkey" \notin A
      /\ "authok" \notin B /\ "authinfo" \notin B /\ "remove" \notin B /\ "newkey" \notin B
      /\ "authok" \notin C /\ "authinfo" \notin C /\ "newkey" \notin C
      /\ "unlock" \notin D /\ "remove" \notin D /\ "newkey" \notin D
      /\ "unlock" \notin E /\ "remove" \notin E
      /\ "_setpath" \notin A /\ "_setpath" \notin B /\ "_setpath" \notin C
      /\ "_setpath" \notin D /\ "_setpath" \notin E
      /\ "format" \notin A /\ "format" \notin B /\ "format" \notin C
      /\ "format" \notin D /\ "format" \notin E
  BY DEF Work, Common
<1>2. /\ Common \subseteq A /\ Common \subseteq B /\ Common \subseteq C
      /\ Common \subseteq D /\ Common \subseteq E
      /\ "unlock" \in B /\ "unlock" \in C /\ "remove" \in C
      /\ {"authinfo", "authok"} \subseteq D /\ {"authinfo", "authok"} \subseteq E
      /\ {"authinfo", "authok", "newkey"} \subseteq E
  BY Zenon
<1> HIDE DEF A, B, C, D, E
<1>3. ASSUME NEW STATE c, NEW STATE a, Content(c, a), Piece(A, 0, a),
             c # "auth", c # "remove"
      PROVE  ToolInv' /\ Kept
  <2>1. a \in Scripts(A)
    BY <1>3, Zenon DEF Piece
  <2>2. UnlockSafe(a) /\ AuthGuarded(a) /\ CallsOf(a, c)
    BY <2>1, <1>1, Without, Zenon
  <2>3. QED
    BY <1>1, <1>3, <1>12, <2>2, ContentKeeps, Zenon
<1>4. CASE Content("list", content_list_remote(Root))
  <2>1. Piece(A, 0, content_list_remote(Root)) /\ "list" # "auth" /\ "list" # "remove"
    <3>1. Piece(A, 0, content_list_remote(Root))
      BY <1>13, <1>2, AskingPieces, Zenon
    <3>2. QED
      BY <3>1
  <2>2. QED
    BY <1>3, <1>4, <2>1, Zenon
<1>5. CASE Content("local", content_list_local)
  <2>1. Piece(A, 0, content_list_local) /\ "local" # "auth" /\ "local" # "remove"
    <3>1. Piece(A, 0, content_list_local)
      BY <1>13, <1>2, AskingPieces, Zenon
    <3>2. QED
      BY <3>1
  <2>2. QED
    BY <1>3, <1>5, <2>1, Zenon
<1>6. CASE Content("decrypt", content_decrypt(Root))
  <2>1. Piece(A, 0, content_decrypt(Root)) /\ "decrypt" # "auth" /\ "decrypt" # "remove"
    <3>1. Piece(A, 0, content_decrypt(Root))
      BY <1>13, <1>2, AskingPieces, Zenon
    <3>2. QED
      BY <3>1
  <2>2. QED
    BY <1>3, <1>6, <2>1, Zenon
<1>7. CASE Content("reset", content_reset)
  <2> DEFINE a == content_reset
             c == "reset"
  <2>1. Piece(E, 0, a) /\ AuthGuarded(a)
    BY <1>2, ResetPieces, Zenon
  <2>2. a \in Scripts(E)
    BY <2>1, Zenon DEF Piece
  <2>3. c # "auth" /\ c # "remove" /\ c = "reset" /\ c \in {"auth", "reset"}
    OBVIOUS
  <2>4. Content(c, a)
    BY <1>7, Zenon
  <2> HIDE DEF a, c
  <2>5. UnlockSafe(a) /\ CallsOf(a, c)
    BY <1>1, <2>2, <2>3, Without, Zenon
  <2>6. QED
    BY <1>1, <1>12, <2>1, <2>3, <2>4, <2>5, ContentKeeps, Zenon
<1>14. ASSUME NEW STATE a, Content("auth", a), Piece(D, 0, a), AuthGuarded(a),
               ResetsLate(a)
       PROVE  ToolInv' /\ Kept
  <2> DEFINE c == "auth"
  <2>1. a \in Scripts(D)
    BY <1>14, Zenon DEF Piece
  <2>2. c \in {"auth", "reset"} /\ c # "remove" /\ Content(c, a)
    BY <1>14
  <2> HIDE DEF c
  <2>3. UnlockSafe(a) /\ CallsOf(a, c)
    BY <1>1, <2>1, <2>2, Without, Zenon
  <2>4. QED
    BY <1>1, <1>12, <1>14, <2>2, <2>3, ContentKeeps, Zenon
<1>8. CASE Content("auth", content_auth(<<>>))
  <2> DEFINE a == content_auth(<<>>)
  <2>1. Piece(D, 0, a) /\ AuthGuarded(a)
    <3>1. Piece(D, 0, <<>>)
      BY FewCalls, Zenon
    <3>2. NoAuthOk(<<>>)
      BY DEF NoAuthOk
    <3>3. QED
      BY <1>2, <3>1, <3>2, AuthPieces, Zenon
  <2>2. ResetsLate(a)
    BY <1>2, AuthWay, Zenon DEF ResetsLate
  <2>3. QED
    BY <1>8, <1>14, <2>1, <2>2, Zenon
<1>15. CASE Content("auth", IfGood(Do("download"), content_auth(<<>>)))
  <2> DEFINE a == IfGood(Do("download"), content_auth(<<>>))
  <2>1. Piece(D, 0, a) /\ AuthGuarded(a) /\ ResetsLate(a)
    BY <1>2, NamedAuthWay, Zenon DEF ResetsLate
  <2>2. QED
    BY <1>14, <1>15, <2>1, Zenon
<1>9. CASE Content("install", content_install(Root))
  <2> DEFINE a == content_install(Root)
             c == "install"
  <2>1. Piece(B, 0, a) /\ UnlockSafe(a)
    BY <1>13, <1>1, <1>2, LockingPieces, Zenon
  <2>2. a \in Scripts(B)
    BY <2>1, Zenon DEF Piece
  <2>3. c # "auth" /\ c # "remove"
    OBVIOUS
  <2>4. Content(c, a)
    BY <1>9, Zenon
  <2> HIDE DEF a, c
  <2>5. AuthGuarded(a) /\ CallsOf(a, c)
    BY <1>1, <2>2, Without, Zenon
  <2>6. QED
    BY <1>1, <1>12, <2>1, <2>3, <2>4, <2>5, ContentKeeps, Zenon
<1>10. CASE Content("remove", content_remove(Root))
  <2> DEFINE a == content_remove(Root)
             c == "remove"
  <2>1. Piece(C, 0, a) /\ UnlockSafe(a) /\ Towards(a, Root)
    BY <1>13, <1>2, LockingPieces, RemoveWay, Zenon
  <2>2. a \in Scripts(C)
    BY <2>1, Zenon DEF Piece
  <2>3. c # "auth" /\ c = "remove"
    OBVIOUS
  <2>4. Content(c, a)
    BY <1>10, Zenon
  <2> HIDE DEF a, c
  <2>5. AuthGuarded(a) /\ CallsOf(a, c)
    BY <1>1, <2>2, <2>3, Without, Zenon
  <2>6. QED
    BY <1>1, <1>12, <2>1, <2>3, <2>4, <2>5, ContentKeeps, Zenon
<1>11. QED
  BY <1>4, <1>5, <1>6, <1>7, <1>8, <1>9, <1>10, <1>15, Zenon DEF content

\* A step at the idle prompt that leaves session and path alone, or a step to
\* a session that is new.
LEMMA ConnectKeeps ==
  ASSUME ToolInv, connect
  PROVE  ToolInv' /\ Kept
<1>1. Fields /\ TodoInv /\ SessionInv
  BY Zenon DEF ToolInv
<1>2. todo = <<>> /\ ~s.connected /\ ~s.authenticated /\ s.running
  BY <1>1, Zenon DEF connect, Idle, SessionInv
<1>3. dev.session.up /\ "lock" \notin env.lost => dev.session.locked
  BY <1>2, AtPrompt, Zenon
<1> DEFINE New == [NoSession EXCEPT !.up = TRUE]
<1>4. /\ DOMAIN New = {"up", "path", "locked", "authed"} /\ New.up /\ New.locked
      /\ New.path = <<>>
  BY DEF NoSession
<1>5. \/ /\ lib' = [up |-> TRUE, reason |-> "none", claim |-> TRUE, urb |-> "flying"]
         /\ dev' = [dev EXCEPT !.session = New]
         /\ env' = [env EXCEPT !.lost = {}]
      \/ env' = [env EXCEPT !.faults = @ + 1] /\ lib' = lib /\ dev' = dev
      \/ env' = env /\ lib' = lib /\ dev' = dev
  BY Zenon DEF connect, exword_connect
<1> HIDE DEF New
<1>6. /\ Shape' /\ (dev'.session.up => lib'.up /\ lib'.reason = "none")
      /\ (~lib'.up /\ ~env'.internal => ~lib'.claim) /\ dev'.addons = dev.addons
      /\ (dev'.session.up /\ "lock" \notin env'.lost => dev'.session.locked)
  <2>1. CASE /\ lib' = [up |-> TRUE, reason |-> "none", claim |-> TRUE, urb |-> "flying"]
             /\ dev' = [dev EXCEPT !.session = New]
             /\ env' = [env EXCEPT !.lost = {}]
    <3>1. /\ DOMAIN lib' = {"up", "reason", "claim", "urb"} /\ lib'.up /\ lib'.reason = "none"
      BY <2>1
    <3>2. "session" # "addons" /\ "lost" # "faults"
      OBVIOUS
    <3>3. DOMAIN dev' = DOMAIN dev /\ dev'.session = New /\ dev'.addons = dev.addons
      BY <1>1, <2>1, <3>2, Zenon DEF Fields
    <3>4. DOMAIN env' = DOMAIN env /\ env'.faults = env.faults
      BY <1>1, <2>1, <3>2, Zenon DEF Fields
    <3>5. QED
      BY <1>1, <1>4, <3>1, <3>3, <3>4, Zenon DEF Shape, Fields, Here, Rooted
  <2>2. CASE env' = [env EXCEPT !.faults = @ + 1] /\ lib' = lib /\ dev' = dev
    <3>1. "faults" # "lost" /\ "faults" # "internal"
      OBVIOUS
    <3>2. /\ DOMAIN env' = DOMAIN env /\ env'.faults = env.faults + 1
          /\ env'.lost = env.lost /\ env'.internal = env.internal
      BY <1>1, <2>2, <3>1, Zenon DEF Fields
    <3>3. env.faults \in Nat
      BY <1>1, Zenon DEF Fields
    <3>4. env'.faults \in Nat
      BY <3>2, <3>3
    <3>5. QED
      BY <1>1, <1>3, <2>2, <3>2, <3>4, Zenon DEF Shape, Fields, SessionInv, Here
  <2>3. CASE env' = env /\ lib' = lib /\ dev' = dev
    BY <1>1, <1>3, <2>3, Zenon DEF Shape, Fields, SessionInv, Here
  <2>4. QED
    BY <1>5, <2>1, <2>2, <2>3, Zenon
<1>7. CASE /\ todo' = connect_script
           /\ s' = [s EXCEPT !.connected = TRUE, !.mode = env.mode]
           /\ cmd' = "connect"
  <2>1. /\ "connected" # "authenticated" /\ "connected" # "cwd" /\ "connected" # "devs"
        /\ "connected" # "running" /\ "mode" # "connected" /\ "mode" # "authenticated"
        /\ "mode" # "cwd" /\ "mode" # "devs" /\ "mode" # "running"
    OBVIOUS
  <2>2. /\ DOMAIN s' = DOMAIN s /\ s'.connected /\ s'.cwd = s.cwd /\ s'.devs = s.devs
        /\ s'.authenticated = s.authenticated /\ s'.running = s.running
    BY <1>1, <1>7, <2>1, Zenon DEF Fields
  <2>3. ScriptOK(todo', cmd') /\ HomeOne(todo') /\ cmd' # "auth" /\ cmd' # "remove"
    <3>1. "connect" # "auth" /\ "connect" # "remove"
      OBVIOUS
    <3>2. QED
      BY <1>7, <3>1, ConnectScript, Zenon
  <2>4. TodoInv'
    BY <1>2, <2>2, <2>3, Zenon DEF TodoInv, ScriptOK
  <2>5. Fields'
    BY <1>1, <1>6, <2>2, Zenon DEF Fields, Shape
  <2>6. SessionInv'
    BY <1>2, <1>6, <2>2, <2>3, Zenon DEF SessionInv, ScriptOK
  <2>7. LockInv' /\ AuthInv' /\ RemoveInv'
    BY <1>6, <2>3, Zenon DEF LockInv, AuthInv, RemoveInv
  <2>8. PathInv'
    BY <2>3, Zenon DEF PathInv, Homeward
  <2>9. QED
    BY <1>6, <2>4, <2>5, <2>6, <2>7, <2>8, Zenon DEF ToolInv, Kept
<1>8. CASE todo' = todo /\ s' = s /\ cmd' = cmd
  <2>1. TodoInv' /\ Fields'
    BY <1>1, <1>6, <1>8, Zenon DEF TodoInv, Fields, Shape
  <2>2. SessionInv'
    BY <1>2, <1>6, <1>8, NothingLeft, Zenon DEF SessionInv
  <2>3. \A i \in 1 .. Len(<<>>) : FALSE
    OBVIOUS
  <2>4. LockInv' /\ PathInv' /\ AuthInv' /\ RemoveInv'
    BY <1>2, <1>6, <1>8, <2>3, Zenon DEF LockInv, PathInv, AuthInv, RemoveInv, NoRemove
  <2>5. QED
    BY <1>6, <2>1, <2>2, <2>4, Zenon DEF ToolInv, Kept
<1>9. QED
  BY <1>7, <1>8, Zenon DEF connect

\* exword_disconnect gives the interface back.
LEMMA Released ==
  ASSUME NEW l, DOMAIN l = {"up", "reason", "claim", "urb"}
  PROVE  LET m == exword_disconnect(l)
         IN /\ DOMAIN m = {"up", "reason", "claim", "urb"} /\ ~m.up
            /\ m.claim => ~l.up /\ l.claim
<1>1. CASE l.up
  <2> DEFINE x == IF l.reason = "none" THEN "NORMAL" ELSE l.reason
             m == [up |-> FALSE, claim |-> FALSE, urb |-> "over", reason |-> x]
  <2>1. exword_disconnect(l) = m
    BY <1>1, Zenon DEF exword_disconnect
  <2> HIDE DEF x
  <2>2. DOMAIN m = {"up", "reason", "claim", "urb"} /\ ~m.up /\ ~m.claim
    OBVIOUS
  <2>3. QED
    BY <2>1, <2>2, Zenon
<1>2. CASE ~l.up
  BY <1>2, Zenon DEF exword_disconnect
<1>3. QED
  BY <1>1, <1>2, Zenon

\* The user disconnects.
LEMMA DisconnectKeeps ==
  ASSUME ToolInv, Disconnect
  PROVE  ToolInv' /\ Kept
<1>1. Fields /\ SessionInv
  BY Zenon DEF ToolInv
<1>2. /\ todo' = <<>> /\ dev' = Dropped /\ lib' = exword_disconnect(lib) /\ env' = env
      /\ s' = [Prompt EXCEPT !.running = s.running]
  BY Zenon DEF Disconnect, Idle, disconnect
<1>3. DOMAIN lib = {"up", "reason", "claim", "urb"}
  BY <1>1, Zenon DEF Fields
<1>4. DOMAIN lib' = {"up", "reason", "claim", "urb"} /\ (lib'.claim => ~lib.up /\ lib.claim)
  BY <1>2, <1>3, Released, Zenon
<1>5. /\ DOMAIN dev' = DOMAIN dev /\ dev'.session = NoSession /\ ~NoSession.up
      /\ DOMAIN NoSession = {"up", "path", "locked", "authed"} /\ dev'.addons = dev.addons
      /\ NoSession.path = <<>>
  BY <1>1, <1>2, Changed, Zenon
<1>6. Shape' /\ (~lib'.up /\ ~env'.internal => ~lib'.claim) /\ ~dev'.session.up
  BY <1>1, <1>2, <1>4, <1>5, Zenon DEF Shape, Fields, SessionInv, Here, Rooted
<1>7. Fresh(s')
  BY <1>2, FreshPrompt, Zenon
<1>8. QED
  BY <1>2, <1>5, <1>6, <1>7, Alone, Zenon DEF Kept

\* What the interrupt transfer tells of a session.
LEMMA Interrupted ==
  ASSUME DOMAIN lib = {"up", "reason", "claim", "urb"}
  PROVE  LET l == exword_handle_interrupt(lib)
         IN /\ DOMAIN l = {"up", "reason", "claim", "urb"} /\ l.up = lib.up
            /\ l.claim = lib.claim
            /\ l = lib \/ (l.reason # "none" /\ lib.up /\ ~dev.session.up)
<1> DEFINE g == lib.up /\ lib.urb = "flying" /\ ~dev.session.up
           v == IF lib.reason = "none" THEN "UNPLUGGED" ELSE lib.reason
           l == exword_handle_interrupt(lib)
<1>1. CASE g
  <2>1. l = [lib EXCEPT !.urb = "over", !.reason = v]
    <3>1. l = [lib EXCEPT !.urb = "over",
                          !.reason = IF @ = "none" THEN "UNPLUGGED" ELSE @]
      BY <1>1, Zenon DEF exword_handle_interrupt
    <3>2. "urb" # "reason"
      OBVIOUS
    <3>3. QED
      BY <3>1, <3>2
  <2>2. v # "none"
    OBVIOUS
  <2>3. /\ "urb" # "up" /\ "urb" # "claim" /\ "reason" # "up" /\ "reason" # "claim"
        /\ "reason" # "urb" /\ "reason" \in {"up", "reason", "claim", "urb"}
    OBVIOUS
  <2> HIDE DEF v, l
  <2>4. QED
    BY <1>1, <2>1, <2>2, <2>3, Zenon DEF l
<1>2. CASE ~g
  <2>1. l = lib
    BY <1>2, Zenon DEF exword_handle_interrupt
  <2>2. QED
    BY <2>1, Zenon
<1>3. QED
  BY <1>1, <1>2, Zenon

\* The end of a session is noticed at the prompt.
LEMMA EventsKeep ==
  ASSUME ToolInv, do_events
  PROVE  ToolInv' /\ Kept
<1> DEFINE l == exword_handle_interrupt(lib)
           x == [s EXCEPT !.event = @ \/ disconnect_notify(l.reason)]
<1>1. Fields /\ TodoInv /\ SessionInv
  BY Zenon DEF ToolInv
<1>2. /\ todo = <<>> /\ todo' = <<>> /\ env' = env /\ cmd' = cmd
      /\ lib' = IF l.reason # "none"
                THEN [exword_disconnect(l) EXCEPT !.reason = "none"]
                ELSE IF x.event /\ x.connected THEN exword_disconnect(l) ELSE l
      /\ dev' = IF lib'.up THEN dev ELSE Dropped
      /\ s' = IF x.event THEN disconnect(x) ELSE x
  BY Zenon DEF do_events, Idle
<1>3. /\ DOMAIN x = DOMAIN s /\ x.connected = s.connected /\ x.cwd = s.cwd
      /\ x.devs = s.devs /\ x.authenticated = s.authenticated /\ x.running = s.running
  <2>1. /\ "event" # "connected" /\ "event" # "cwd" /\ "event" # "devs"
        /\ "event" # "authenticated" /\ "event" # "running"
    OBVIOUS
  <2>2. QED
    BY <1>1, <2>1, Zenon DEF Fields
<1>4. /\ DOMAIN l = {"up", "reason", "claim", "urb"} /\ l.up = lib.up
      /\ l.claim = lib.claim /\ (l = lib \/ l.reason # "none")
  BY <1>1, Interrupted, Zenon DEF Fields
<1> HIDE DEF l, x
<1>5. s' = x \/ Fresh(s')
  <2>1. CASE x.event
    <3>1. s' = disconnect(x)
      BY <1>2, <2>1, Zenon
    <3>2. s' = x \/ s' = [Prompt EXCEPT !.running = x.running]
      <4>1. CASE x.connected
        BY <3>1, <4>1, Zenon DEF disconnect
      <4>2. CASE ~x.connected
        BY <3>1, <4>2, Zenon DEF disconnect
      <4>3. QED
        BY <4>1, <4>2, Zenon
    <3>3. QED
      BY <3>2, FreshPrompt, Zenon
  <2>2. CASE ~x.event
    BY <1>2, <2>2, Zenon
  <2>3. QED
    BY <2>1, <2>2, Zenon
<1>6. /\ DOMAIN lib' = {"up", "reason", "claim", "urb"} /\ (lib'.up => lib' = lib)
      /\ lib'.claim => lib.claim /\ (~lib.up \/ lib'.up)
  <2> DEFINE m == exword_disconnect(l)
  <2>1. DOMAIN m = {"up", "reason", "claim", "urb"} /\ ~m.up /\ (m.claim => ~l.up /\ l.claim)
    BY <1>4, Released, Zenon
  <2> HIDE DEF m
  <2>2. CASE l.reason # "none"
    <3>1. lib' = [m EXCEPT !.reason = "none"]
      BY <1>2, <2>2, Zenon DEF m
    <3>2. "reason" # "up" /\ "reason" # "claim"
      OBVIOUS
    <3>3. DOMAIN lib' = DOMAIN m /\ lib'.up = m.up /\ lib'.claim = m.claim
      BY <2>1, <3>1, <3>2, Zenon
    <3>4. QED
      BY <1>4, <2>1, <3>3, Zenon
  <2>3. CASE ~(l.reason # "none") /\ x.event /\ x.connected
    <3>1. lib' = m
      BY <1>2, <2>3, Zenon DEF m
    <3>2. QED
      BY <1>4, <2>1, <3>1, Zenon
  <2>4. CASE ~(l.reason # "none") /\ ~(x.event /\ x.connected)
    <3>1. lib' = l /\ l = lib
      BY <1>2, <1>4, <2>4, Zenon
    <3>2. QED
      BY <1>4, <3>1, Zenon
  <2>5. QED
    BY <2>2, <2>3, <2>4, Zenon
<1>7. /\ DOMAIN s' = {"running", "connected", "mode", "cwd", "authenticated", "event",
                      "devs"}
      /\ s'.cwd \in Cwds /\ s'.devs \subseteq Attached
      /\ (~s'.connected => ~s'.authenticated) /\ (s'.connected => s'.running)
      /\ s'.authenticated => s.authenticated
  BY <1>1, <1>3, <1>5, NullPath, Zenon DEF Fresh, Fields, SessionInv, TodoInv
<1>8. TodoInv'
  BY <1>2, <1>7, NothingLeft, Zenon DEF TodoInv
<1>9. ~lib'.up /\ ~env'.internal => ~lib'.claim
  BY <1>1, <1>2, <1>6, Zenon DEF SessionInv
<1>10. CASE lib'.up
  <2>1. lib' = lib /\ dev' = dev
    BY <1>2, <1>6, <1>10, Zenon
  <2>2. Fields'
    BY <1>1, <1>2, <1>7, <2>1, Zenon DEF Fields, Here
  <2>3. SessionInv'
    BY <1>1, <1>2, <1>7, <2>1, Zenon DEF SessionInv
  <2>4. LockInv' /\ AuthInv' /\ RemoveInv'
    <3>1. \A i \in 1 .. Len(<<>>) : FALSE
      OBVIOUS
    <3>2. dev.session.up /\ "lock" \notin env.lost => dev.session.locked
      BY <1>2, AtPrompt, Zenon
    <3>3. QED
      BY <1>2, <2>1, <3>1, <3>2, Zenon DEF LockInv, AuthInv, RemoveInv, NoRemove
  <2>5. PathInv'
    <3>1. SUFFICES ASSUME s'.connected, dev'.session.up
                   PROVE  Stays(todo') /\ ("path" \in env'.lost \/ Agrees')
      BY Zenon DEF PathInv
    <3>2. s' = x
      BY <1>5, <3>1, Zenon DEF Fresh
    <3>3. "path" \in env.lost \/ Agrees
      BY <1>2, <1>3, <2>1, <3>1, <3>2, AtPrompt, Zenon
    <3>4. Agrees => Agrees'
      BY <1>3, <2>1, <3>2, Zenon DEF Agrees, Here
    <3>5. QED
      BY <1>2, <3>3, <3>4, NothingLeft, Zenon
  <2>6. QED
    BY <1>8, <2>1, <2>2, <2>3, <2>4, <2>5, Zenon DEF ToolInv, Kept
<1>11. CASE ~lib'.up
  <2>1. dev' = Dropped
    BY <1>2, <1>11, Zenon
  <2>2. /\ DOMAIN dev' = DOMAIN dev /\ dev'.session = NoSession /\ ~NoSession.up
        /\ DOMAIN NoSession = {"up", "path", "locked", "authed"} /\ dev'.addons = dev.addons
        /\ NoSession.path = <<>>
    BY <1>1, <2>1, Changed, Zenon
  <2>3. Shape' /\ ~dev'.session.up
    BY <1>1, <1>2, <1>6, <2>2, Zenon DEF Shape, Fields, Here, Rooted
  <2>4. ToolInv'
    BY <1>7, <1>8, <1>9, <2>3, SessionDown, Zenon
  <2>5. QED
    BY <2>2, <2>4, Zenon DEF Kept
<1>12. QED
  BY <1>10, <1>11, Zenon

\* The other commands of the prompt.
LEMMA CommandKeeps ==
  ASSUME ToolInv, Command
  PROVE  ToolInv' /\ Kept
<1>1. CASE connect
  BY <1>1, ConnectKeeps, Zenon
<1>2. CASE Disconnect
  BY <1>2, DisconnectKeeps, Zenon
<1>3. CASE quit
  BY <1>3, EndsKeeps, Zenon DEF quit
<1>4. CASE Simple
  <2>1. PICK f \in {"model", "format", "delete", "send"} : Typed(f, <<Do(f)>>)
    BY <1>4, Zenon DEF Simple
  <2>2. f \in Staying /\ f # "auth" /\ f # "remove"
    BY DEF Staying
  <2> DEFINE t == <<Do(f)>>
  <2>3. ScriptOK(t, f) /\ Stays(t)
    BY <2>2, OneCallScript, Zenon
  <2>4. Typed(f, t)
    BY <2>1
  <2> HIDE DEF t
  <2>5. QED
    BY <2>2, <2>3, <2>4, TypedKeeps, Zenon
<1>5. CASE setpath
  <2>1. \E m \in s.devs, p \in Below, mkdir \in set :
          Typed("setpath", <<Op("_setpath", <<m>> \o p, mkdir, 1, 0),
                             Op("setpath", s.cwd, FALSE, 0, 0)>>)
    BY <1>5, Zenon DEF setpath
  <2>2. PICK m \in s.devs, p \in Below, mkdir \in set :
          Typed("setpath", <<Op("_setpath", <<m>> \o p, mkdir, 1, 0),
                             Op("setpath", s.cwd, FALSE, 0, 0)>>)
    BY <2>1, Zenon
  <2>3. s.cwd \in Cwds /\ s.devs \subseteq Attached
    BY Zenon DEF ToolInv, Fields
  <2>4. m \in Attached /\ mkdir \in BOOLEAN
    BY <2>2, <2>3, Zenon DEF set
  <2>5. p \in {<<>>, <<"A">>}
    <3>1. Below = {<<>>} \/ Below = {<<>>, <<"A">>}
      BY DEF Below
    <3>2. QED
      BY <2>2, <3>1, Zenon
  <2> DEFINE t == <<Op("_setpath", <<m>> \o p, mkdir, 1, 0),
                    Op("setpath", s.cwd, FALSE, 0, 0)>>
             c == "setpath"
  <2>6. ScriptOK(t, c) /\ SetTwo(t, s.cwd)
    BY <2>3, <2>4, <2>5, SetpathScript, Zenon
  <2>7. Typed(c, t) /\ c # "auth" /\ c # "remove"
    <3>1. c # "auth" /\ c # "remove"
      OBVIOUS
    <3>2. QED
      BY <2>2, <3>1, Zenon
  <2> HIDE DEF t, c
  <2>8. QED
    BY <2>6, <2>7, TypedKeeps, Zenon DEF Homeward
<1>6. CASE content
  BY <1>6, ContentCommands, Zenon
<1>7. QED
  BY <1>1, <1>2, <1>3, <1>4, <1>5, <1>6, Zenon DEF Command

\* A step that leaves alone what the invariant is about.
LEMMA Alike ==
  ASSUME ToolInv, s' = s, todo' = todo, cmd' = cmd, key' = key,
         DOMAIN lib' = DOMAIN lib, lib'.up = lib.up, lib'.reason = lib.reason,
         lib'.claim = lib.claim, DOMAIN dev' = DOMAIN dev, dev'.session = dev.session,
         dev'.dirs = dev.dirs, dev'.keys = dev.keys, DOMAIN env' = DOMAIN env,
         env'.faults \in Nat, env'.lost = env.lost, env'.internal = env.internal
  PROVE  ToolInv'
<1>1. Fields' /\ TodoInv' /\ SessionInv'
  BY Zenon DEF ToolInv, Fields, TodoInv, SessionInv, Here
<1>2. \A i : Tried(i) => Tried(i)'
  BY Zenon DEF Tried, OnMedium, Here
<1>3. LockInv' /\ AuthInv'
  BY <1>2, Zenon DEF ToolInv, LockInv, AuthInv
<1>4. RemoveInv'
  BY Zenon DEF ToolInv, RemoveInv, AtRoot, Root, Here
<1>5. PathInv'
  BY Zenon DEF ToolInv, PathInv, Agrees, Here
<1>6. QED
  BY <1>1, <1>3, <1>4, <1>5, Zenon DEF ToolInv

\* The cable, the process and the interrupt transfer.
LEMMA AroundKeeps ==
  ASSUME ToolInv, Unplug \/ Replug \/ interactive \/ HandleEvents \/ Stall
  PROVE  ToolInv' /\ Kept
<1>1. Fields /\ TodoInv /\ SessionInv
  BY Zenon DEF ToolInv
<1>2. CASE Unplug
  <2>1. /\ dev' = [Dropped EXCEPT !.present = FALSE]
        /\ env' = [env EXCEPT !.lost = {}, !.internal = FALSE]
        /\ s' = s /\ todo' = todo /\ cmd' = cmd
        /\ \/ lib.up /\ lib' = lib
           \/ dev.session.up /\ lib' = [lib EXCEPT !.urb = "over"]
           \/ ~lib.up /\ lib' = [lib EXCEPT !.claim = FALSE]
    BY <1>2, Zenon DEF Unplug
  <2>2. /\ "present" # "session" /\ "present" # "addons" /\ "claim" # "up"
        /\ "urb" # "up"
    OBVIOUS
  <2>3. /\ DOMAIN Dropped = DOMAIN dev /\ Dropped.session = NoSession /\ ~NoSession.up
        /\ DOMAIN NoSession = {"up", "path", "locked", "authed"}
        /\ Dropped.addons = dev.addons /\ NoSession.path = <<>>
    BY <1>1, Changed, Zenon
  <2>4. DOMAIN dev' = DOMAIN dev /\ dev'.session = NoSession /\ dev'.addons = dev.addons
    BY <1>1, <2>1, <2>2, <2>3, Zenon DEF Fields
  <2>5. DOMAIN env' = DOMAIN env /\ env'.faults = env.faults
    BY <1>1, <2>1, Changed, Zenon
  <2>6. DOMAIN lib' = DOMAIN lib /\ (~lib'.up => ~lib'.claim)
    <3>1. CASE lib.up /\ lib' = lib
      BY <3>1, Zenon
    <3>2. CASE dev.session.up /\ lib' = [lib EXCEPT !.urb = "over"]
      <4>1. lib.up
        BY <1>1, <3>2, Zenon DEF SessionInv
      <4>2. QED
        BY <1>1, <3>2, <4>1, <2>2, Zenon DEF Fields
    <3>3. CASE ~lib.up /\ lib' = [lib EXCEPT !.claim = FALSE]
      BY <1>1, <3>3, <2>2, Zenon DEF Fields
    <3>4. QED
      BY <2>1, <3>1, <3>2, <3>3, Zenon
  <2>7. Shape' /\ ~dev'.session.up
    BY <1>1, <2>3, <2>4, <2>5, <2>6, Zenon DEF Shape, Fields, Here, Rooted
  <2>8. TodoInv'
    BY <1>1, <2>1, Zenon DEF TodoInv
  <2>9. ToolInv'
    BY <1>1, <2>1, <2>6, <2>7, <2>8, SessionDown, Zenon DEF Fields, SessionInv
  <2>10. QED
    BY <2>4, <2>9, Zenon DEF Kept
<1>3. CASE Replug
  <2>1. /\ dev' = [dev EXCEPT !.present = TRUE] /\ lib' = lib /\ env' = env
        /\ s' = s /\ todo' = todo /\ cmd' = cmd /\ key' = key
    BY <1>3, Zenon DEF Replug
  <2>2. /\ "present" # "session" /\ "present" # "addons" /\ "present" # "dirs"
        /\ "present" # "keys"
    OBVIOUS
  <2>3. /\ DOMAIN dev' = DOMAIN dev /\ dev'.session = dev.session
        /\ dev'.addons = dev.addons /\ dev'.dirs = dev.dirs /\ dev'.keys = dev.keys
    BY <1>1, <2>1, <2>2, Zenon DEF Fields
  <2>4. env'.faults \in Nat
    BY <1>1, <2>1, Zenon DEF Fields
  <2>5. QED
    BY <2>1, <2>3, <2>4, Alike, Zenon DEF Kept
<1>4. CASE interactive
  <2>1. /\ ~s.running /\ s' = Prompt /\ dev' = dev /\ lib' = lib /\ env' = env
        /\ todo' = todo /\ cmd' = cmd /\ key' = key
    BY <1>4, Zenon DEF interactive
  <2>2. todo = <<>>
    BY <1>1, <2>1, Zenon DEF TodoInv
  <2>3. Fresh(s')
    BY <2>1, FreshPrompt, Zenon
  <2>4. Fields'
    BY <1>1, <2>1, <2>3, NullPath, Zenon DEF Fields, Fresh, Here
  <2>5. TodoInv' /\ SessionInv'
    BY <1>1, <2>1, <2>2, <2>3, Zenon DEF TodoInv, SessionInv, Fresh
  <2>6. LockInv' /\ AuthInv' /\ RemoveInv' /\ PathInv'
    <3>1. \A i \in 1 .. Len(<<>>) : FALSE
      OBVIOUS
    <3>2. QED
      BY <2>1, <2>2, <2>3, <3>1, Zenon
         DEF ToolInv, LockInv, AuthInv, RemoveInv, NoRemove, PathInv, Fresh
  <2>7. QED
    BY <2>1, <2>4, <2>5, <2>6, Zenon DEF ToolInv, Kept
<1>5. CASE HandleEvents
  <2>1. /\ lib' = exword_handle_interrupt(lib) /\ lib' # lib
        /\ dev' = dev /\ env' = env /\ s' = s /\ todo' = todo /\ cmd' = cmd
    BY <1>5, Zenon DEF HandleEvents
  <2>2. DOMAIN lib' = DOMAIN lib /\ lib'.up /\ ~dev.session.up
    BY <1>1, <2>1, Interrupted, Zenon DEF Fields
  <2>3. Shape' /\ TodoInv' /\ ~dev'.session.up
    BY <1>1, <2>1, <2>2, Zenon DEF Shape, Fields, TodoInv, Here
  <2>4. ToolInv'
    BY <1>1, <2>1, <2>2, <2>3, SessionDown, Zenon DEF Fields, SessionInv
  <2>5. QED
    BY <2>1, <2>4, Zenon DEF Kept
<1>6. CASE Stall
  <2>1. /\ lib' = [lib EXCEPT !.urb = "over"] /\ env' = [env EXCEPT !.faults = @ + 1]
        /\ dev' = dev /\ s' = s /\ todo' = todo /\ cmd' = cmd /\ key' = key
    BY <1>6, Zenon DEF Stall
  <2>2. /\ "urb" # "up" /\ "urb" # "reason" /\ "urb" # "claim"
        /\ "faults" # "lost" /\ "faults" # "internal"
    OBVIOUS
  <2>3. /\ DOMAIN lib' = DOMAIN lib /\ lib'.up = lib.up /\ lib'.reason = lib.reason
        /\ lib'.claim = lib.claim
    BY <1>1, <2>1, <2>2, Zenon DEF Fields
  <2>4. /\ DOMAIN env' = DOMAIN env /\ env'.faults = env.faults + 1
        /\ env'.lost = env.lost /\ env'.internal = env.internal
    BY <1>1, <2>1, <2>2, Zenon DEF Fields
  <2>5. env'.faults \in Nat
    <3>1. env.faults \in Nat
      BY <1>1, Zenon DEF Fields
    <3>2. QED
      BY <2>4, <3>1
  <2>6. QED
    BY <2>1, <2>3, <2>4, <2>5, Alike, Zenon DEF Kept
<1>7. QED
  BY <1>2, <1>3, <1>4, <1>5, <1>6, Zenon

\* Every step of the system keeps the invariant of the transfer tool.
LEMMA ToolNext ==
  ASSUME ToolInv, [Next]_vars
  PROVE  ToolInv' /\ Kept
<1>1. CASE Next /\ ~AtDevice
  BY <1>1, CallKeeps, BetweenKeeps, CommandKeeps, EventsKeep, AroundKeeps, Zenon DEF Next
<1>2. CASE AtDevice \/ UNCHANGED vars
  <2>1. /\ lib' = lib /\ dev' = dev /\ s' = s /\ todo' = todo /\ cmd' = cmd
        /\ key' = key /\ env' = env
    BY <1>2, Zenon DEF AtDevice, vars, toolVars
  <2>2. env.faults \in Nat
    BY Zenon DEF ToolInv, Fields
  <2>3. QED
    BY <2>1, <2>2, Alike, Zenon DEF Kept
<1>3. QED
  BY <1>1, <1>2, Zenon

\* It holds before the first command.
LEMMA ToolStarts == ASSUME ToolInit PROVE ToolInv
<1>1. /\ lib = LibDown /\ s = Prompt /\ todo = <<>>
      /\ \E m \in Modes, installed \in SUBSET Attached, k, c \in Keys :
           /\ env = [mode |-> m, faults |-> 0, lost |-> {}, internal |-> FALSE]
           /\ dev = [present |-> TRUE, session |-> NoSession, addons |-> installed,
                     dirs |-> installed,
                     keys |-> [x \in Attached |-> IF x = "drv0" THEN k ELSE c]]
  BY Zenon DEF ToolInit
<1>2. /\ DOMAIN dev = {"present", "session", "addons", "dirs", "keys"}
      /\ dev.session = NoSession
  <2>1. \E a, b, c : dev = [present |-> TRUE, session |-> NoSession, addons |-> a,
                            dirs |-> b, keys |-> c]
    BY <1>1, Zenon
  <2>2. QED
    BY <2>1
<1>3. /\ DOMAIN env = {"mode", "faults", "lost", "internal"} /\ env.faults = 0
  <2>1. \E m : env = [mode |-> m, faults |-> 0, lost |-> {}, internal |-> FALSE]
    BY <1>1, Zenon
  <2>2. QED
    BY <2>1
<1>4. /\ ~NoSession.up /\ DOMAIN NoSession = {"up", "path", "locked", "authed"}
      /\ DOMAIN LibDown = {"up", "reason", "claim", "urb"} /\ ~LibDown.claim
      /\ NoSession.path = <<>>
  BY DEF NoSession, LibDown
<1>5. 0 \in Nat
  OBVIOUS
<1>6. Fresh(s)
  BY <1>1, FreshPrompt, Zenon
<1>7. Fields
  BY <1>1, <1>2, <1>3, <1>4, <1>5, <1>6, NullPath, Zenon DEF Fields, Fresh, Here, Rooted
<1>8. TodoInv
  BY <1>1, <1>6, NothingLeft, Zenon DEF TodoInv, Fresh
<1>9. SessionInv /\ LockInv /\ AuthInv /\ RemoveInv /\ PathInv
  BY <1>1, <1>2, <1>4, <1>6, Zenon
     DEF SessionInv, LockInv, AuthInv, RemoveInv, PathInv, Fresh
<1>10. QED
  BY <1>7, <1>8, <1>9, Zenon DEF ToolInv

\* Whatever the device answers, loses or refuses, and whenever it is unplugged,
\* the rest of a command of exword.c and content.c stays one that locks the
\* device again, authenticates only behind a challenge and leads back to the
\* path that main.c shows.
THEOREM ToolInvariant == Spec => []ToolInv
<1>1. Init => ToolInv
  BY ToolStarts, Zenon DEF Init
<1>2. ToolInv /\ [Next]_vars => ToolInv'
  BY ToolNext, Zenon
<1>3. QED
  BY <1>1, <1>2, PTL DEF Spec

\* At the prompt the device is where s.cwd says (main.c), also after refused
\* and lost requests - except in a directory that is gone, and until the next
\* path request when the last one of the session got no answer.
THEOREM PathAlwaysAgrees == Spec => []PathAgrees
<1>1. ToolInv => PathAgrees
  BY AtPrompt, Zenon DEF PathAgrees, Idle, Agrees
<1>2. QED
  BY <1>1, ToolInvariant, PTL

\* content_install and content_remove never leave the device unlocked at the
\* prompt, whichever of their requests was refused or lost, unless it is the
\* last lock request of the session.
THEOREM AlwaysLockedWhenIdle == Spec => []LockedWhenIdle
<1>1. ToolInv => LockedWhenIdle
  BY AtPrompt, Zenon DEF LockedWhenIdle, Idle
<1>2. QED
  BY <1>1, ToolInvariant, PTL

\* The state of the prompt that belongs to a session ends with it, and the
\* interface is given back except after an internal server error.
THEOREM SessionsAlwaysSeparate == Spec => []SessionsSeparate
<1>1. ToolInv => SessionsSeparate
  BY Zenon DEF SessionsSeparate, ToolInv, SessionInv
<1>2. QED
  BY <1>1, ToolInvariant, PTL

\* Add-ons go only by content_remove on the medium shown, by a format of the
\* card, by content_reset, or by content_auth when a card refuses a key that a
\* medium has accepted; a lost path or challenge widens the first and the last.
THEOREM AddonsAlwaysKept == Spec => AddonsKept
<1>1. ToolInv /\ [Next]_vars =>
        [ \A m \in dev.addons \ dev'.addons :
            \/ cmd = "remove" /\ (m = s.cwd[1] \/ "path" \in env.lost)
            \/ cmd = "format" /\ m \in Cards
            \/ cmd = "reset"
            \/ cmd = "auth" /\ CardRefuses ]_vars
  BY ToolNext, Zenon DEF Kept, MayGo
<1>2. QED
  BY <1>1, ToolInvariant, PTL DEF Spec, AddonsKept
=============================================================================
