--------------------------- MODULE SessionProofs ---------------------------
(* Proofs about Session, for every bound on the polls and every choice of  *)
(* the scripts that may be signalled.                                      *)
EXTENDS Session, TLAPS

-----------------------------------------------------------------------------
(* The two scripts.  startx reaches "reap" only over a dead server, and    *)
(* cleans up either before its window manager ran or after it ended; the   *)
(* window-manager script knows its helper from RecordHelper on.            *)

ScriptInv ==
  /\ resume \in {"poll", "wm", "exited"}
  /\ sx = "launch" => x = "none"
  /\ sx \in {"reap", "exited"} => x = "dead"
  /\ sx = "exited" => ~socket
  /\ wm \in {"none", "mouse", "mouse_pid", "run", "cleanup", "wait", "exited"}
  /\ sx \in {"launch", "record", "trap", "poll"} => wm = "none"
  /\ sx \in {"kill", "reap"} /\ resume # "exited" => wm = "none"
  /\ sx \in {"kill", "reap", "exited"} => wm \in {"none", "exited"}
  /\ wm = "none" => helper = "none"
  /\ wm \in {"run", "cleanup", "wait"} => mouse_pid \/ wmsignal
  /\ wm = "exited" => helper = "gone" \/ wmsignal

\* Every step of every process keeps ScriptInv.
THEOREM ScriptInductive == Spec => []ScriptInv
<1>1. Init => ScriptInv
  BY DEF Init, ScriptInv
<1>2. ScriptInv /\ [Next]_vars => ScriptInv'
  <2> SUFFICES ASSUME ScriptInv, [Next]_vars PROVE ScriptInv'
    OBVIOUS
  <2> USE DEF ScriptInv
  <2>1. CASE Launch \/ RecordXpid \/ SetTraps
    BY <2>1 DEF Launch, RecordXpid, SetTraps, SxRuns, gateVars, wmVars
  <2>2. CASE Poll
    BY <2>2 DEF Poll, SxRuns, gateVars, wmVars
  <2>3. CASE RunWm
    BY <2>3 DEF RunWm, SxRuns, gateVars
  <2>4. CASE CleanupKill \/ CleanupRemove
    BY <2>4 DEF CleanupKill, CleanupRemove, SxRuns, gateVars, wmVars
  <2>5. CASE SignalStartX \/ TakeSignal
    BY <2>5 DEF SignalStartX, TakeSignal, gateVars, wmVars
  <2>6. CASE Gate
    BY <2>6 DEF Gate, Wrapper, GateStop, GateFork, GateWait, ServerListens,
                ServerReady, XEnds, XUnchanged, gateVars, wmVars
  <2>7. CASE NotifierForks \/ ServerDies \/ wait_for_x_ready
    BY <2>7 DEF NotifierForks, ServerDies, wait_for_x_ready, XEnds,
                XUnchanged, gateVars, wmVars
  <2>8. CASE StartHelper \/ RecordHelper \/ WmEnds \/ SignalWm
    BY <2>8 DEF StartHelper, RecordHelper, WmEnds, SignalWm, WmUnchanged,
                sxVars, gateVars
  <2>9. CASE CleanupHelper \/ WaitHelper \/ HelperEnds
    BY <2>9 DEF CleanupHelper, WaitHelper, HelperEnds, WmUnchanged, sxVars,
                gateVars
  <2>10. CASE UNCHANGED vars
    BY <2>10 DEF vars, sxVars, gateVars, wmVars
  <2>11. QED
    BY <2>1, <2>2, <2>3, <2>4, <2>5, <2>6, <2>7, <2>8, <2>9, <2>10
       DEF Next, StartX, Wm
<1>3. QED
  BY <1>1, <1>2, PTL DEF Spec

\* A startx that ran its traps leaves neither a server nor its socket.
THEOREM SessionAlwaysCleanedUp == Spec => []SessionCleanedUp
<1>1. ScriptInv => SessionCleanedUp
  BY DEF ScriptInv, SessionCleanedUp
<1>2. QED
  BY <1>1, ScriptInductive, PTL

\* As long as nobody signals the window-manager script, the touch helper is
\* gone when startx exits.
THEOREM HelperSupervised == Spec => []HelperGoneUnsignalled
<1>1. ScriptInv => HelperGoneUnsignalled
  BY DEF ScriptInv, HelperGoneUnsignalled, HelperGone
<1>2. QED
  BY <1>1, ScriptInductive, PTL

-----------------------------------------------------------------------------
(* The stop of startx.  StopIsAnswered speaks about one moment; what makes *)
(* it inductive is the order of the gate's steps: nothing is forked before *)
(* the stop, the notifier's write end goes with the notifier, and once the *)
(* notifier has succeeded a stopped startx has a waiter.                   *)

GateInv ==
  /\ writers \subseteq {"x", "notifier"}
  /\ "notifier" \in writers => notifier = "running"
  /\ x \in {"none", "wrapper", "stop"} => ~stopped
  /\ x \in {"none", "wrapper", "stop", "fork"} =>
       notifier = "none" /\ waiter = "none"
  /\ stopped /\ notifier = "ok" => waiter = "reading"
  /\ stopped => x = "fork" \/ notifier \in {"running", "ok"}

\* Every step of every process keeps GateInv.
THEOREM GateInductive == Spec => []GateInv
<1>1. Init => GateInv
  BY DEF Init, GateInv
<1>2. GateInv /\ ScriptInv /\ [Next]_vars => GateInv'
  <2> SUFFICES ASSUME GateInv, ScriptInv, [Next]_vars PROVE GateInv'
    OBVIOUS
  <2> USE DEF GateInv
  <2>1. CASE Launch
    BY <2>1 DEF Launch, SxRuns, gateVars, ScriptInv
  <2>2. CASE CleanupKill
    BY <2>2 DEF CleanupKill, SxRuns
  <2>3. CASE Wrapper
    BY <2>3 DEF Wrapper, XEnds
  <2>4. CASE GateStop
    <3>1. CASE XEnds /\ UNCHANGED stopped
      BY <2>4, <3>1 DEF GateStop, XEnds
    <3>2. CASE x' = "fork" /\ UNCHANGED writers
      BY <2>4, <3>2 DEF GateStop
    <3>3. QED
      BY <2>4, <3>1, <3>2 DEF GateStop
  <2>5. CASE GateFork
    BY <2>5 DEF GateFork, XEnds
  <2>6. CASE NotifierForks
    BY <2>6 DEF NotifierForks
  <2>7. CASE GateWait
    <3>1. CASE XEnds /\ stopped' = FALSE
      BY <2>7, <3>1 DEF GateWait, XEnds
    <3>2. CASE x' = "server" /\ UNCHANGED <<writers, stopped>>
      BY <2>7, <3>2 DEF GateWait
    <3>3. QED
      BY <2>7, <3>1, <3>2 DEF GateWait
  <2>8. CASE ServerListens
    BY <2>8 DEF ServerListens, gateVars
  <2>9. CASE ServerReady
    BY <2>9 DEF ServerReady
  <2>10. CASE ServerDies
    BY <2>10 DEF ServerDies, XEnds
  <2>11. CASE wait_for_x_ready
    BY <2>11 DEF wait_for_x_ready
  <2>12. CASE UNCHANGED <<x, stopped, notifier, waiter, writers>>
    BY <2>12
  <2>13. CASE RecordXpid \/ SetTraps \/ Poll \/ RunWm \/ CleanupRemove
    BY <2>12, <2>13 DEF RecordXpid, SetTraps, Poll, RunWm, CleanupRemove,
                        gateVars
  <2>14. CASE SignalStartX \/ TakeSignal
    BY <2>12, <2>14 DEF SignalStartX, TakeSignal, gateVars
  <2>15. CASE Wm \/ SignalWm \/ HelperEnds
    BY <2>12, <2>15 DEF Wm, StartHelper, RecordHelper, WmEnds, CleanupHelper,
                        WaitHelper, SignalWm, HelperEnds, WmUnchanged,
                        sxVars, gateVars
  <2>16. CASE UNCHANGED vars
    BY <2>12, <2>16 DEF vars, sxVars, gateVars
  <2>17. QED
    BY <2>1, <2>2, <2>3, <2>4, <2>5, <2>6, <2>7, <2>8, <2>9, <2>10, <2>11,
       <2>13, <2>14, <2>15, <2>16 DEF Next, StartX, Gate
<1>3. QED
  BY <1>1, <1>2, ScriptInductive, PTL DEF Spec

\* Whenever startx is stopped somebody is left who will continue it,
\* whichever call of the gate fails and whoever dies.
THEOREM StopAlwaysAnswered == Spec => []StopIsAnswered
<1>1. GateInv => StopIsAnswered
  BY DEF GateInv, StopIsAnswered
<1>2. QED
  BY <1>1, GateInductive, PTL
=============================================================================
