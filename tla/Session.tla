------------------------------ MODULE Session ------------------------------
(***************************************************************************)
(* Starting and ending an X session: startx                                *)
(* (rootfs/overlay/usr/bin/startx), the Xfbdev wrapper and its start gate  *)
(* (x11/apps/x11-start-gate.c), the X server, and the window-manager       *)
(* script that supervises the touch helper                                 *)
(* (x11/config/usr/bin/subpad-awesome, installed as twm).                  *)
(*                                                                         *)
(* The gate stops startx, leaves a detached waiter behind on the read end  *)
(* of a pipe and becomes the X server, which inherits the write end.  The  *)
(* waiter continues startx when the server reports that it is ready or     *)
(* when the last write end closes.                                         *)
(*                                                                         *)
(* Any process of the chain may fail or crash where the code says it can;  *)
(* SIGTERM may reach startx and the window-manager script.  The touch      *)
(* helper stands for its promise in SubpadMouse: it ends some time after a *)
(* stop signal or the death of X.                                          *)
(***************************************************************************)
EXTENDS Naturals, FiniteSets

CONSTANTS
  MaxAttempts,   \* polls of the startx loop, 32768 in the code
  Signals        \* who may get SIGTERM: a subset of {"startx", "wm"}

ASSUME AttemptsAssumption == MaxAttempts \in Nat \ {0}
ASSUME SignalsAssumption == Signals \subseteq {"startx", "wm"}

VARIABLES
  sx,        \* next command of startx
  attempts,  \* polls done
  stopped,   \* is startx stopped by SIGSTOP?
  term,      \* SIGTERM for startx: pending, taken once it may run
  resume,    \* where startx goes on after cleanup: "poll", "wm" or "exited"
  x,         \* the process that becomes the X server
  notifier, waiter, \* the gate's child and grandchild
  writers,   \* processes that hold the write end of the pipe
  newline,   \* is the readiness line in the pipe?
  socket,    \* does /tmp/.X11-unix/X0 exist?
  wm,        \* next command of the window-manager script
  mouse_pid, \* has it recorded the helper's pid?
  helper,    \* the touch helper: "none", "running", "stopping" or "gone"
  wmsignal   \* history: was the script signalled?

sxVars == <<sx, attempts, stopped, term, resume>>
gateVars == <<notifier, waiter, writers, newline>>
wmVars == <<wm, mouse_pid, helper, wmsignal>>
vars == <<sxVars, x, gateVars, socket, wmVars>>

Init ==
  /\ sx = "launch" /\ attempts = 0 /\ stopped = FALSE
  /\ term = FALSE /\ resume = "poll"
  /\ x = "none" /\ notifier = "none" /\ waiter = "none"
  /\ writers = {} /\ newline = FALSE /\ socket = FALSE
  /\ wm = "none" /\ mouse_pid = FALSE /\ helper = "none" /\ wmsignal = FALSE

-----------------------------------------------------------------------------
(* startx.  A stopped process takes no step. *)

SxRuns(label) == sx = label /\ ~stopped

Launch ==
  /\ SxRuns("launch") /\ sx' = "record"
  /\ x' = "wrapper"
  /\ UNCHANGED <<attempts, stopped, term, resume, gateVars, socket,
                 wmVars>>

RecordXpid ==
  /\ SxRuns("record") /\ sx' = "trap"
  /\ UNCHANGED <<attempts, stopped, term, resume, x, gateVars, socket, wmVars>>

SetTraps ==
  /\ SxRuns("trap") /\ sx' = "poll"
  /\ UNCHANGED <<attempts, stopped, term, resume, x, gateVars, socket,
                 wmVars>>

\* Seeded fault: the loop waits for the socket and looks at nothing else.
PollSocketOnly ==
  /\ SxRuns("poll") /\ socket /\ sx' = "wm"
  /\ UNCHANGED <<attempts, stopped, term, resume, x, gateVars, socket,
                 wmVars>>

\* One poll: the socket is there, the server is gone, or try again.
Poll ==
  /\ SxRuns("poll")
  /\ \/ /\ socket /\ sx' = "wm"
        /\ UNCHANGED <<attempts, resume>>
     \/ /\ ~socket /\ (x = "dead" \/ attempts = MaxAttempts)
        /\ sx' = "kill" /\ resume' = "exited"
        /\ UNCHANGED attempts
     \/ /\ ~socket /\ x # "dead" /\ attempts < MaxAttempts
        /\ attempts' = attempts + 1
        /\ UNCHANGED <<sx, resume>>
  /\ UNCHANGED <<stopped, term, x, gateVars, socket, wmVars>>

\* The window manager runs in the foreground; when it ends, startx exits.
RunWm ==
  /\ SxRuns("wm")
  /\ \/ wm = "none" /\ wm' = "mouse" /\ UNCHANGED <<sx, resume>>
     \/ wm = "exited" /\ sx' = "kill" /\ resume' = "exited" /\ UNCHANGED wm
  /\ UNCHANGED <<attempts, stopped, term, x, gateVars, socket, mouse_pid,
                 helper, wmsignal>>

\* cleanup: kill the server, wait for it, remove its socket.
CleanupKill ==
  /\ SxRuns("kill") /\ sx' = "reap"
  /\ x' = "dead" /\ writers' = writers \ {"x"}
  /\ UNCHANGED <<attempts, stopped, term, resume, notifier, waiter,
                 newline, socket, wmVars>>

\* Seeded fault: cleanup keeps the socket.
KeepSocket ==
  /\ SxRuns("reap") /\ x = "dead" /\ sx' = resume
  /\ UNCHANGED <<attempts, stopped, term, resume, x, gateVars, socket,
                 wmVars>>

CleanupRemove ==
  /\ SxRuns("reap") /\ x = "dead" /\ sx' = resume
  /\ socket' = FALSE
  /\ UNCHANGED <<attempts, stopped, term, resume, x, gateVars, wmVars>>

StartX == Launch \/ RecordXpid \/ SetTraps \/ Poll \/ RunWm \/ CleanupKill
          \/ CleanupRemove

\* SIGTERM stays pending while startx is stopped.
SignalStartX ==
  /\ "startx" \in Signals /\ sx # "exited" /\ ~term
  /\ term' = TRUE
  /\ UNCHANGED <<sx, attempts, stopped, resume, x, gateVars, socket,
                 wmVars>>

\* Before the trap the signal kills startx; later it runs cleanup, and the
\* script goes on where it was - after the window manager, when one runs.
\* Between the last poll and the window manager the socket is looked for once
\* more: gone before that, it ends the script as in the loop.
TakeSignal ==
  /\ term /\ ~stopped /\ term' = FALSE
  /\ \/ /\ sx \in {"launch", "record", "trap"} /\ sx' = "killed"
        /\ UNCHANGED resume
     \/ sx = "poll" /\ sx' = "kill" /\ resume' = "poll"
     \/ sx = "wm" /\ wm = "none" /\ sx' = "kill" /\ resume' \in {"poll", "wm"}
     \/ sx = "wm" /\ wm = "exited" /\ sx' = "kill" /\ resume' = "exited"
     \/ sx \in {"kill", "reap"} /\ UNCHANGED <<sx, resume>>
  /\ UNCHANGED <<attempts, stopped, x, gateVars, socket, wmVars>>

-----------------------------------------------------------------------------
(* The Xfbdev process: wrapper, gate, server. *)

XUnchanged == UNCHANGED <<sx, attempts, term, resume, wmVars>>

\* The process ends: its write end closes.
XEnds == x' = "dead" /\ writers' = writers \ {"x"}

\* The wrapper draws the pad and becomes the gate; the gate finds its parent
\* gone, or an argument, the pipe or the descriptor is refused.
Wrapper ==
  /\ x = "wrapper"
  /\ \/ XEnds
     \/ sx # "killed" /\ x' = "stop" /\ writers' = {"x"}
  /\ XUnchanged /\ UNCHANGED <<stopped, notifier, waiter, newline, socket>>

\* kill(parent, SIGSTOP) fails when startx is gone.
GateStop ==
  /\ x = "stop"
  /\ \/ sx = "killed" /\ XEnds /\ UNCHANGED stopped
     \/ sx # "killed" /\ x' = "fork" /\ stopped' = TRUE /\ UNCHANGED writers
  /\ XUnchanged /\ UNCHANGED <<notifier, waiter, newline, socket>>

\* Seeded fault: returns without continuing startx when fork fails.
GateForkForgets ==
  /\ x = "fork"
  /\ \/ XEnds /\ UNCHANGED <<stopped, notifier>>
     \/ /\ x' = "wait" /\ notifier' = "running"
        /\ writers' = writers \cup {"notifier"} /\ UNCHANGED stopped
  /\ XUnchanged /\ UNCHANGED <<waiter, newline, socket>>

GateFork ==
  /\ x = "fork"
  /\ \/ XEnds /\ stopped' = FALSE /\ UNCHANGED notifier
     \/ /\ x' = "wait" /\ notifier' = "running"
        /\ writers' = writers \cup {"notifier"} /\ UNCHANGED stopped
  /\ XUnchanged /\ UNCHANGED <<waiter, newline, socket>>

\* The notifier forks the waiter and exits, or continues startx and fails.
NotifierForks ==
  /\ notifier = "running" /\ writers' = writers \ {"notifier"}
  /\ \/ notifier' = "ok" /\ waiter' = "reading" /\ UNCHANGED stopped
     \/ notifier' = "failed" /\ stopped' = FALSE /\ UNCHANGED waiter
  /\ XUnchanged /\ UNCHANGED <<x, newline, socket>>

\* waitpid, then exec; a failed notifier or exec ends the gate.
GateWait ==
  /\ x = "wait" /\ notifier # "running"
  /\ \/ notifier = "failed" /\ XEnds /\ stopped' = FALSE
     \/ notifier = "ok" /\ XEnds /\ stopped' = FALSE
     \/ notifier = "ok" /\ x' = "server" /\ UNCHANGED <<writers, stopped>>
  /\ XUnchanged /\ UNCHANGED <<notifier, waiter, newline, socket>>

\* The server creates its socket, then writes its display number and a
\* newline to -displayfd.
ServerListens ==
  /\ x = "server" /\ x' = "listening" /\ socket' = TRUE
  /\ XUnchanged /\ UNCHANGED <<stopped, gateVars>>

ServerReady ==
  /\ x = "listening" /\ x' = "ready"
  /\ newline' = TRUE /\ writers' = writers \ {"x"}
  /\ XUnchanged /\ UNCHANGED <<stopped, notifier, waiter, socket>>

\* The server may die at any time; its socket stays.
ServerDies ==
  /\ x \in {"server", "listening", "ready"}
  /\ XEnds
  /\ XUnchanged /\ UNCHANGED <<stopped, notifier, waiter, newline, socket>>

Gate == Wrapper \/ GateStop \/ GateFork \/ GateWait \/ ServerListens
        \/ ServerReady

\* Seeded fault: the waiter ends at end of file without continuing startx.
WaitForNewlineOnly ==
  /\ waiter = "reading" /\ (newline \/ writers = {})
  /\ waiter' = "gone" /\ stopped' = (stopped /\ ~newline)
  /\ XUnchanged /\ UNCHANGED <<x, notifier, writers, newline, socket>>

\* A newline, end of file or an error: continue startx.
wait_for_x_ready ==
  /\ waiter = "reading" /\ (newline \/ writers = {})
  /\ waiter' = "gone" /\ stopped' = FALSE
  /\ XUnchanged /\ UNCHANGED <<x, notifier, writers, newline, socket>>

-----------------------------------------------------------------------------
(* subpad-awesome. *)

WmUnchanged == UNCHANGED <<sxVars, x, gateVars, socket>>

StartHelper ==
  /\ wm = "mouse" /\ wm' = "mouse_pid" /\ helper' = "running"
  /\ WmUnchanged /\ UNCHANGED <<mouse_pid, wmsignal>>

RecordHelper ==
  /\ wm = "mouse_pid" /\ wm' = "run" /\ mouse_pid' = TRUE
  /\ WmUnchanged /\ UNCHANGED <<helper, wmsignal>>

\* The window manager is closed by its user, or loses its server.
WmEnds ==
  /\ wm = "run" /\ wm' = "cleanup"
  /\ WmUnchanged /\ UNCHANGED <<mouse_pid, helper, wmsignal>>

\* The traps exit, and the EXIT trap runs cleanup.
SignalWm ==
  /\ "wm" \in Signals /\ wm \in {"mouse", "mouse_pid", "run"}
  /\ wm' = "cleanup" /\ wmsignal' = TRUE
  /\ WmUnchanged /\ UNCHANGED <<mouse_pid, helper>>

\* Seeded fault: cleanup signals the helper but does not wait for it.
CleanupHelperNoWait ==
  /\ wm = "cleanup" /\ wm' = "exited"
  /\ helper' = IF mouse_pid /\ helper = "running" THEN "stopping" ELSE helper
  /\ WmUnchanged /\ UNCHANGED <<mouse_pid, wmsignal>>

CleanupHelper ==
  /\ wm = "cleanup"
  /\ wm' = IF mouse_pid THEN "wait" ELSE "exited"
  /\ helper' = IF mouse_pid /\ helper = "running" THEN "stopping" ELSE helper
  /\ WmUnchanged /\ UNCHANGED <<mouse_pid, wmsignal>>

WaitHelper ==
  /\ wm = "wait" /\ helper = "gone" /\ wm' = "exited"
  /\ WmUnchanged /\ UNCHANGED <<mouse_pid, helper, wmsignal>>

\* The helper ends: told to, refused by the lock or the hardware, or X died.
HelperEnds ==
  /\ helper \in {"running", "stopping"} /\ helper' = "gone"
  /\ WmUnchanged /\ UNCHANGED <<wm, mouse_pid, wmsignal>>

Wm == StartHelper \/ RecordHelper \/ WmEnds \/ CleanupHelper \/ WaitHelper

-----------------------------------------------------------------------------
Next == \/ StartX \/ SignalStartX \/ TakeSignal
        \/ Gate \/ NotifierForks \/ ServerDies \/ wait_for_x_ready
        \/ Wm \/ SignalWm \/ HelperEnds

Spec == Init /\ [][Next]_vars

(* Processes that can run do.  The server is assumed to become ready, or   *)
(* to die, in the end; nobody has to signal anyone or to close the window  *)
(* manager; a helper that was told to stop, or lost X, ends (SubpadMouse). *)
FairSpec ==
  /\ Spec
  /\ WF_vars(StartX) /\ WF_vars(TakeSignal)
  /\ WF_vars(Gate) /\ WF_vars(NotifierForks) /\ WF_vars(wait_for_x_ready)
  /\ WF_vars(StartHelper \/ RecordHelper \/ CleanupHelper \/ WaitHelper)
  /\ WF_vars(HelperEnds /\ (helper = "stopping" \/ x = "dead"))

-----------------------------------------------------------------------------
\* Whenever startx is stopped, somebody is left who will continue it: the
\* gate before its forks, the notifier, or the waiter - and the waiter cannot
\* be kept from its end of file by a write end it or the notifier forgot.
StopIsAnswered ==
  stopped =>
    \/ x \in {"fork", "wait"}
    \/ notifier = "running"
    \/ waiter = "reading" /\ (writers \subseteq {"x"})

\* The gate's promise: startx is not left stopped, also when the server dies
\* before it is ready ("EOF or an error also releases startx").
StartxContinued == stopped ~> ~stopped

\* startx gets to its window manager, or exits; it does not poll for ever,
\* unless it is signalled for ever (its traps return to the loop).
StartxProgress ==
  <>[](~term) => (sx = "poll" ~> sx \in {"wm", "exited"})

\* A startx that ran its traps leaves neither a server nor a socket behind.
SessionCleanedUp == sx = "exited" => x = "dead" /\ ~socket

\* The comment in subpad-awesome: the helper is supervised "so every X
\* shutdown restores the pad hardware and releases its lock before another
\* startx can run".
HelperGone == sx = "exited" => helper \in {"none", "gone"}

\* The same as long as nobody signals the window-manager script.
HelperGoneUnsignalled == ~wmsignal => HelperGone
=============================================================================
