-------------------------- MODULE SublcdTestProofs --------------------------
(* Proofs about the framebuffer driver (ExwordFb) and the sub-LCD tool     *)
(* beside it (SublcdTest), for every set of drawers and runs, any panel    *)
(* height and any number of drawing operations.                            *)
EXTENDS SublcdTest, TLAPS

-----------------------------------------------------------------------------
(* The driver alone.                                                       *)

FbInv ==
  /\ drawer \in [Drawers -> {"idle", "drawn", "counted"}]
  /\ work \in {"idle", "pending", "canceling"}
  /\ worker \in {"idle", "read", "yield", "refresh"}
  /\ RefreshInv

\* A driver that has just been probed shows its framebuffer.
LEMMA FbInvInit == FbInit => FbInv
  BY DEF FbInit, FbInv, RefreshInv, NoLostRefresh

\* FbInv speaks about the drawing tasks, the work item and what is shown.
LEMMA FbInvFrame ==
  FbInv /\ UNCHANGED <<drawer, content, work, worker, panning, shown>> => FbInv'
  BY DEF FbInv, RefreshInv, NoLostRefresh

\* A drawing operation (fillrect, copyarea, imageblit, write, blank) keeps
\* FbInv at each of its steps.
LEMMA DrawKeepsFbInv ==
  ASSUME FbInv, NEW d \in Drawers, Draw(d) \/ exwordfb_blank(d) \/ Operation(d)
  PROVE  FbInv'
<1> USE DEF FbInv, RefreshInv, NoLostRefresh
<1>1. CASE Draw(d)
  BY <1>1 DEF Draw, workVars, panelVars
<1>2. CASE exwordfb_blank(d)
  BY <1>2 DEF exwordfb_blank, workVars, panelVars
<1>3. CASE CountOperation(d)
  BY <1>3 DEF CountOperation, workVars, panelVars
<1>4. CASE QueueRefresh(d)
  BY <1>4 DEF QueueRefresh, schedule_work, panelVars
<1>5. QED
  BY <1>1, <1>2, <1>3, <1>4 DEF Operation

\* The worker keeps FbInv.
LEMMA WorkerKeepsFbInv ==
  ASSUME FbInv, Worker
  PROVE  FbInv'
<1> USE DEF FbInv, RefreshInv, NoLostRefresh
<1>1. CASE WorkStart
  BY <1>1 DEF WorkStart, drawVars, panelVars
<1>2. CASE ReadGeneration
  BY <1>2 DEF ReadGeneration, drawVars, panelVars
<1>3. CASE CheckGeneration
  BY <1>3 DEF CheckGeneration, drawVars, panelVars
<1>4. CASE WorkRefresh
  BY <1>4 DEF WorkRefresh, exwordfb_refresh, drawVars
<1>5. QED
  BY <1>1, <1>2, <1>3, <1>4 DEF Worker

\* Panning keeps FbInv.
LEMMA PanKeepsFbInv ==
  ASSUME FbInv, PanBegin \/ PanEnd
  PROVE  FbInv'
<1> USE DEF FbInv, RefreshInv, NoLostRefresh
<1>1. CASE PanBegin
  BY <1>1 DEF PanBegin, cancel_work_sync, drawVars, panelVars
<1>2. CASE PanEnd
  BY <1>2 DEF PanEnd, exwordfb_refresh, drawVars
<1>3. QED
  BY <1>1, <1>2

\* No drawing is lost by the driver on its own, whoever draws and pans.
THEOREM FbLosesNothing == FbSpec => []NoLostRefresh
<1>1. FbInv /\ [FbNext]_fbVars => FbInv'
  <2> SUFFICES ASSUME FbInv, [FbNext]_fbVars PROVE FbInv'
    OBVIOUS
  <2>1. CASE FbNext
    BY <2>1, DrawKeepsFbInv, WorkerKeepsFbInv, PanKeepsFbInv DEF FbNext
  <2>2. CASE UNCHANGED fbVars
    BY <2>2, FbInvFrame DEF fbVars, drawVars, workVars, panelVars
  <2>3. QED
    BY <2>1, <2>2
<1>2. FbInv => NoLostRefresh
  BY DEF FbInv, RefreshInv
<1>3. QED
  BY <1>1, <1>2, FbInvInit, PTL DEF FbSpec

-----------------------------------------------------------------------------
(* The tool: the lock and the two lines.  A run that is neither before its *)
(* lock nor done holds it, alone; what it read of port R before a command  *)
(* had the main line high, so writing it back later cannot lower it.       *)

Labels == {"start", "prepare", "quiet", "setmode", "drain", "drained",
           "recheck", "read", "low", "command", "high", "data", "finish",
           "leave", "close", "unlock", "done"}

LockInv ==
  /\ tpc \in [Tests -> Labels]
  /\ \A t \in Tests : tpc[t] \notin {"start", "done"} => flock = {t}

PhaseInv ==
  /\ saved \in [Tests -> SUBSET Lines] /\ prdr \subseteq Lines
  /\ \A t \in Tests : tpc[t] \in {"low", "command", "high"} => "main" \in saved[t]
  /\ LinesInPhase

\* Only the worker and the end of a pan touch port R in the driver, and they
\* only raise the main line.
LEMMA DriverOnPort ==
  ASSUME Drawing \/ Worker
  PROVE  prdr' = prdr \/ prdr' = prdr \cup {"main"}
<1>1. CASE Drawing
  <2>1. PICK d \in Drawers : Draw(d) \/ exwordfb_blank(d) \/ Operation(d)
    BY <1>1 DEF Drawing
  <2>2. QED
    BY <2>1 DEF Draw, exwordfb_blank, Operation, CountOperation, QueueRefresh,
                panelVars
<1>2. CASE Worker
  BY <1>2 DEF Worker, WorkStart, ReadGeneration, CheckGeneration, WorkRefresh,
              exwordfb_refresh, panelVars
<1>3. QED
  BY <1>1, <1>2

\* Every step of a run keeps its lock to itself.
LEMMA TestKeepsLock ==
  ASSUME LockInv, NEW t \in Tests, Test(t) \/ Kill(t)
  PROVE  LockInv'
<1> USE DEF LockInv, Labels, Goto
<1>1. CASE acquire_lock(t)
  BY <1>1 DEF acquire_lock
<1>2. CASE Prepare(t) \/ CheckConsole(t) \/ QuietConsole(t)
  BY <1>2 DEF Prepare, CheckConsole, QuietConsole
<1>3. CASE DrainRefused(t) \/ Drain(t) \/ Drained(t) \/ Recheck(t)
  BY <1>3 DEF DrainRefused, Drain, Drained, Recheck
<1>4. CASE ReadPrdr(t) \/ LineLow(t) \/ Command(t) \/ LineHigh(t)
  BY <1>4 DEF ReadPrdr, LineLow, Command, LineHigh, TestOnly
<1>5. CASE RowData(t) \/ LeaveDataMode(t)
  BY <1>5 DEF RowData, LeaveDataMode, TestOnly
<1>6. CASE LeaveQuiet(t) \/ Close(t)
  BY <1>6 DEF LeaveQuiet, Close
<1>7. CASE Unlock(t) \/ Kill(t)
  BY <1>7 DEF Unlock, Kill
<1>8. QED
  BY <1>1, <1>2, <1>3, <1>4, <1>5, <1>6, <1>7 DEF Test

\* Every step of a run keeps the lines in phase.
LEMMA TestKeepsPhase ==
  ASSUME LockInv, PhaseInv, NEW t \in Tests, Test(t) \/ Kill(t)
  PROVE  PhaseInv'
<1> USE DEF PhaseInv, LinesInPhase, LockInv, Labels, Lines, Goto
<1>0. \A s \in Tests : tpc[t] \notin {"start", "done"} /\ s # t
                         => tpc[s] \in {"start", "done"}
  OBVIOUS
<1>1. CASE acquire_lock(t)
  BY <1>1 DEF acquire_lock, fbVars, panelVars
<1>2. CASE Prepare(t) \/ CheckConsole(t) \/ QuietConsole(t)
  BY <1>2 DEF Prepare, CheckConsole, QuietConsole, fbVars, panelVars
<1>3. CASE DrainRefused(t) \/ Recheck(t)
  BY <1>3 DEF DrainRefused, Recheck, fbVars, panelVars
<1>4. CASE Drain(t)
  BY <1>4 DEF Drain, PanBegin, panelVars
<1>5. CASE Drained(t)
  BY <1>0, <1>5 DEF Drained, PanEnd, exwordfb_refresh
<1>6. CASE ReadPrdr(t)
  BY <1>6 DEF ReadPrdr
<1>7. CASE LineLow(t)
  BY <1>0, <1>7 DEF LineLow
<1>8. CASE Command(t)
  BY <1>8 DEF Command
<1>9. CASE LineHigh(t)
  BY <1>0, <1>9 DEF LineHigh
<1>10. CASE RowData(t)
  BY <1>10 DEF RowData
<1>11. CASE LeaveDataMode(t)
  BY <1>0, <1>11 DEF LeaveDataMode
<1>12. CASE LeaveQuiet(t) \/ Close(t) \/ Unlock(t) \/ Kill(t)
  BY <1>12 DEF LeaveQuiet, Close, Unlock, Kill, fbVars, panelVars
<1>13. QED
  BY <1>1, <1>2, <1>3, <1>4, <1>5, <1>6, <1>7, <1>8, <1>9, <1>10, <1>11,
     <1>12 DEF Test

\* The lock and the phase of the lines, over every step of driver and tool.
THEOREM LinesInductive == Spec => [](LockInv /\ PhaseInv)
<1>1. Init => LockInv /\ PhaseInv
  BY DEF Init, FbInit, LockInv, PhaseInv, LinesInPhase, Labels, Lines
<1>2. LockInv /\ PhaseInv /\ [Next]_vars => (LockInv /\ PhaseInv)'
  <2> SUFFICES ASSUME LockInv, PhaseInv, [Next]_vars
               PROVE  LockInv' /\ PhaseInv'
    OBVIOUS
  <2>1. CASE Driver
    <3>1. UNCHANGED <<tpc, flock, saved>>
      BY <2>1 DEF Driver
    <3>2. prdr' = prdr \/ prdr' = prdr \cup {"main"}
      BY <2>1, DriverOnPort DEF Driver
    <3>3. QED
      BY <3>1, <3>2 DEF LockInv, PhaseInv, LinesInPhase, Lines
  <2>2. CASE \E t \in Tests : Test(t) \/ Kill(t)
    BY <2>2, TestKeepsLock, TestKeepsPhase
  <2>3. CASE UNCHANGED vars
    BY <2>3 DEF vars, testVars, fbVars, panelVars, LockInv, PhaseInv,
                LinesInPhase
  <2>4. QED
    BY <2>1, <2>2, <2>3 DEF Next
<1>3. QED
  BY <1>1, <1>2, PTL DEF Spec

\* Commands go out with the sub line low, pixels with it high, and the main
\* line is high between refreshes, for any number of runs and drawers.
THEOREM LinesAlwaysInPhase == Spec => []LinesInPhase
<1>1. LockInv /\ PhaseInv => LinesInPhase
  BY DEF PhaseInv
<1>2. QED
  BY <1>1, LinesInductive, PTL

\* At most one run is writing.
THEOREM AlwaysOneWriter == Spec => []OneWriter
<1>1. LockInv /\ PhaseInv => OneWriter
  BY DEF LockInv, OneWriter, Writing
<1>2. QED
  BY <1>1, LinesInductive, PTL

-----------------------------------------------------------------------------
(* The tool: no refresh while it writes.  From the moment the console is   *)
(* quiet its drawing operations are over; the pan then leaves the worker   *)
(* idle and the work item off the queue, and nobody is left to queue it.   *)

Quiet == {"drain", "drained", "recheck", "read", "low", "command", "high",
          "data", "finish"}
AfterPan == Quiet \ {"drain", "drained"}

QuietInv ==
  /\ ~intruded => \A d \in Drawers \ ConsoleDrawers : drawer[d] = "idle"
  /\ \A t \in Tests :
       /\ tpc[t] \in Quiet =>
            /\ console = "graphics"
            /\ \A d \in ConsoleDrawers : drawer[d] = "idle"
       /\ tpc[t] = "drained" => panning
       /\ tpc[t] \in AfterPan /\ ~intruded =>
            worker = "idle" /\ work # "pending"

\* The driver keeps QuietInv: a quiet console draws nothing, and an operation
\* of anybody else is recorded in intruded.
LEMMA DriverKeepsQuiet ==
  ASSUME LockInv, FbInv, QuietInv, Driver
  PROVE  QuietInv'
<1>1. UNCHANGED <<tpc, console>>
  BY DEF Driver
<1>2. CASE Worker /\ UNCHANGED intruded
  <2>1. UNCHANGED <<drawer, panning>>
    BY <1>2 DEF Worker, WorkStart, ReadGeneration, CheckGeneration,
                WorkRefresh, drawVars
  <2>2. worker # "idle" \/ work = "pending"
    BY <1>2 DEF Worker, WorkStart, ReadGeneration, CheckGeneration,
                WorkRefresh
  <2>3. QED
    BY <1>1, <1>2, <2>1, <2>2 DEF QuietInv
<1>3. CASE Drawing
  <2>1. PICK d \in Drawers :
          /\ \/ (d \in ConsoleDrawers => console = "text")
                /\ (Draw(d) \/ exwordfb_blank(d))
             \/ Operation(d)
          /\ intruded' = (intruded \/ d \notin ConsoleDrawers)
    BY <1>3 DEF Drawing
  <2>2. ~intruded' => ~intruded /\ d \in ConsoleDrawers
    BY <2>1, Zenon
  <2>3. /\ \A e \in Drawers : e # d => drawer'[e] = drawer[e]
        /\ UNCHANGED <<worker, panning>>
    BY <2>1 DEF FbInv, Draw, exwordfb_blank, Operation, CountOperation,
                QueueRefresh, workVars
  <2>4. d \in ConsoleDrawers =>
          \A t \in Tests : tpc[t] \notin Quiet
    BY <2>1 DEF QuietInv, Draw, exwordfb_blank, Operation, CountOperation,
                QueueRefresh
  <2>5. d \notin ConsoleDrawers =>
          \A e \in ConsoleDrawers : drawer'[e] = drawer[e]
    BY <2>3, ConsoleAssumption
  <2>6. QED
    BY <1>1, <2>2, <2>3, <2>4, <2>5 DEF QuietInv, AfterPan, Quiet
<1>4. QED
  BY <1>2, <1>3 DEF Driver

\* A run keeps QuietInv.
LEMMA TestKeepsQuiet ==
  ASSUME LockInv, FbInv, QuietInv, NEW t \in Tests, Test(t) \/ Kill(t)
  PROVE  QuietInv'
<1> USE DEF QuietInv, AfterPan, Quiet, LockInv, Labels, Goto
<1>0. \A s \in Tests : tpc[t] \notin {"start", "done"} /\ s # t
                         => tpc[s] \in {"start", "done"}
  OBVIOUS
<1>1. CASE acquire_lock(t) \/ Prepare(t) \/ CheckConsole(t)
  BY <1>1 DEF acquire_lock, Prepare, CheckConsole, fbVars, drawVars, workVars
<1>2. CASE QuietConsole(t)
  BY <1>0, <1>2 DEF QuietConsole, fbVars, drawVars, workVars
<1>3. CASE DrainRefused(t)
  BY <1>0, <1>3 DEF DrainRefused, fbVars, drawVars, workVars
<1>4. CASE Drain(t)
  BY <1>0, <1>4 DEF Drain, PanBegin, cancel_work_sync, drawVars
<1>5. CASE Drained(t)
  <2>1. worker' = "idle" /\ work' # "pending"
    BY <1>5 DEF Drained, PanEnd, FbInv, RefreshInv
  <2>2. UNCHANGED <<drawer, console, intruded>>
    BY <1>5 DEF Drained, PanEnd, drawVars
  <2>3. tpc' = [tpc EXCEPT ![t] = "recheck"] /\ tpc[t] = "drained"
    BY <1>5 DEF Drained
  <2>4. QED
    BY <1>0, <2>1, <2>2, <2>3
<1>6. CASE Recheck(t)
  BY <1>6 DEF Recheck, fbVars, drawVars, workVars
<1>7. CASE ReadPrdr(t) \/ LineLow(t) \/ Command(t) \/ LineHigh(t)
  BY <1>7 DEF ReadPrdr, LineLow, Command, LineHigh, TestOnly, drawVars, workVars
<1>8. CASE RowData(t) \/ LeaveDataMode(t)
  BY <1>8 DEF RowData, LeaveDataMode, TestOnly, drawVars, workVars
<1>9. CASE LeaveQuiet(t)
  BY <1>0, <1>9 DEF LeaveQuiet, fbVars, drawVars, workVars
<1>10. CASE Close(t)
  BY <1>0, <1>10 DEF Close, fbVars, drawVars, workVars
<1>11. CASE Unlock(t) \/ Kill(t)
  BY <1>11 DEF Unlock, Kill, fbVars, drawVars, workVars
<1>12. QED
  BY <1>1, <1>2, <1>3, <1>4, <1>5, <1>6, <1>7, <1>8, <1>9, <1>10, <1>11
     DEF Test

\* A run disturbs the driver only by panning.
LEMMA TestKeepsFbInv ==
  ASSUME FbInv, NEW t \in Tests, Test(t) \/ Kill(t)
  PROVE  FbInv'
<1>1. CASE Drain(t) \/ Drained(t)
  BY <1>1, PanKeepsFbInv DEF Drain, Drained
<1>2. CASE UNCHANGED <<drawVars, workVars, shown>>
  BY <1>2, FbInvFrame DEF drawVars, workVars
<1>3. CASE acquire_lock(t) \/ Prepare(t) \/ CheckConsole(t) \/ QuietConsole(t)
           \/ DrainRefused(t) \/ Recheck(t)
  BY <1>2, <1>3 DEF acquire_lock, Prepare, CheckConsole, QuietConsole,
                    DrainRefused, Recheck, fbVars, panelVars
<1>4. CASE ReadPrdr(t) \/ LineLow(t) \/ Command(t) \/ LineHigh(t) \/ RowData(t)
           \/ LeaveDataMode(t)
  BY <1>2, <1>4 DEF ReadPrdr, LineLow, Command, LineHigh, RowData,
                    LeaveDataMode, TestOnly
<1>5. CASE LeaveQuiet(t) \/ Close(t) \/ Unlock(t) \/ Kill(t)
  BY <1>2, <1>5 DEF LeaveQuiet, Close, Unlock, Kill, fbVars, panelVars
<1>6. QED
  BY <1>1, <1>3, <1>4, <1>5 DEF Test

\* Driver and tool together keep the driver's invariant and QuietInv.
THEOREM QuietInductive == Spec => [](FbInv /\ QuietInv)
<1>1. Init => FbInv /\ QuietInv
  <2>1. Init => QuietInv
    BY DEF Init, FbInit, QuietInv, AfterPan, Quiet
  <2>2. QED
    BY <2>1, FbInvInit DEF Init
<1>2. LockInv /\ FbInv /\ QuietInv /\ [Next]_vars => (FbInv /\ QuietInv)'
  <2> SUFFICES ASSUME LockInv, FbInv, QuietInv, [Next]_vars
               PROVE  FbInv' /\ QuietInv'
    OBVIOUS
  <2>1. CASE Driver
    BY <2>1, DriverKeepsQuiet, DrawKeepsFbInv, WorkerKeepsFbInv
       DEF Driver, Drawing
  <2>2. CASE \E t \in Tests : Test(t) \/ Kill(t)
    BY <2>2, TestKeepsQuiet, TestKeepsFbInv
  <2>3. CASE UNCHANGED vars
    <3>1. FbInv'
      BY <2>3, FbInvFrame DEF vars, fbVars, drawVars, workVars, panelVars
    <3>2. QuietInv'
      BY <2>3 DEF vars, testVars, fbVars, drawVars, workVars, QuietInv
    <3>3. QED
      BY <3>1, <3>2
  <2>4. QED
    BY <2>1, <2>2, <2>3 DEF Next
<1>3. QED
  BY <1>1, <1>2, LinesInductive, PTL DEF Spec

\* No refresh is queued, running or about to be queued while a run writes
\* rows, unless somebody other than the console draws.
THEOREM NeverRefreshWhileWriting == Spec => []NoRefreshWhileWriting
<1>1. FbInv /\ QuietInv => NoRefreshWhileWriting
  BY DEF QuietInv, NoRefreshWhileWriting, Writing, AfterPan, Quiet
<1>2. QED
  BY <1>1, QuietInductive, PTL
-----------------------------------------------------------------------------
(* The tool: the console comes back.  While the console is in graphics     *)
(* mode and no restore has failed, the one run that holds the lock is      *)
(* still on its way to close_mmio and remembers that it quieted it.        *)

BeforeClose == Quiet \cup {"leave", "close"}

ConsoleInv ==
  /\ DOMAIN quieted = Tests
  /\ \/ console = "text"
     \/ unrestored
     \/ \E t \in Tests : tpc[t] \in BeforeClose /\ quieted[t]

\* Every step of a run keeps ConsoleInv: only the run that quieted the
\* console can take one that matters, since it alone holds the lock.
LEMMA TestKeepsConsole ==
  ASSUME LockInv, ConsoleInv, NEW t \in Tests, Test(t) \/ Kill(t)
  PROVE  ConsoleInv'
<1> USE DEF ConsoleInv, BeforeClose, Quiet, LockInv, Labels, Goto
<1>0. \A s \in Tests : tpc[t] \notin {"start", "done"} /\ s # t
                         => tpc[s] \in {"start", "done"}
  OBVIOUS
<1>1. CASE acquire_lock(t)
  BY <1>1 DEF acquire_lock
<1>2. CASE Prepare(t) \/ CheckConsole(t)
  BY <1>0, <1>2 DEF Prepare, CheckConsole
<1>3. CASE QuietConsole(t)
  BY <1>0, <1>3 DEF QuietConsole
<1>4. CASE DrainRefused(t)
  BY <1>0, <1>4 DEF DrainRefused
<1>5. CASE Drain(t) \/ Drained(t) \/ Recheck(t)
  BY <1>0, <1>5 DEF Drain, Drained, Recheck
<1>6. CASE ReadPrdr(t) \/ LineLow(t) \/ Command(t) \/ LineHigh(t)
  BY <1>0, <1>6 DEF ReadPrdr, LineLow, Command, LineHigh, TestOnly
<1>7. CASE RowData(t) \/ LeaveDataMode(t)
  BY <1>0, <1>7 DEF RowData, LeaveDataMode, TestOnly
<1>8. CASE LeaveQuiet(t)
  BY <1>0, <1>8 DEF LeaveQuiet
<1>9. CASE Close(t)
  BY <1>0, <1>9 DEF Close
<1>10. CASE Unlock(t)
  BY <1>0, <1>10 DEF Unlock
<1>11. CASE Kill(t)
  BY <1>11 DEF Kill
<1>12. QED
  BY <1>1, <1>2, <1>3, <1>4, <1>5, <1>6, <1>7, <1>8, <1>9, <1>10, <1>11
     DEF Test

\* However a run ends, it has put the text console back, unless the last
\* attempt to restore it failed or a run was killed.
THEOREM ConsoleAlwaysRestored == Spec => []ConsoleRestored
<1>1. Init => ConsoleInv
  BY DEF Init, ConsoleInv
<1>2. LockInv /\ PhaseInv /\ ConsoleInv /\ [Next]_vars => ConsoleInv'
  <2> SUFFICES ASSUME LockInv, ConsoleInv, [Next]_vars PROVE ConsoleInv'
    OBVIOUS
  <2>1. CASE Driver
    BY <2>1 DEF Driver, ConsoleInv
  <2>2. CASE \E t \in Tests : Test(t) \/ Kill(t)
    BY <2>2, TestKeepsConsole
  <2>3. CASE UNCHANGED vars
    BY <2>3 DEF vars, testVars, ConsoleInv
  <2>4. QED
    BY <2>1, <2>2, <2>3 DEF Next
<1>3. ConsoleInv => ConsoleRestored
  BY DEF ConsoleInv, ConsoleRestored, BeforeClose, Quiet
<1>4. QED
  BY <1>1, <1>2, <1>3, LinesInductive, PTL DEF Spec
=============================================================================
