---------------------------- MODULE SubpadMouse ----------------------------
(***************************************************************************)
(* The userspace touch-pad helper (x11/apps/subpad-mouse.c).               *)
(*                                                                         *)
(* A run takes the lock /tmp/exword-subpad.lock, saves the pin routing,    *)
(* opens the ADC clock, samples the pad and sends X button and motion      *)
(* requests until it is told to stop, and puts the hardware back.  Several *)
(* runs may be started; a run may get a stop signal, or be killed, at any  *)
(* point, the ADC may hang, and X may refuse a request or die.             *)
(*                                                                         *)
(* The pin registers are two fields: the pins that normal_rest and         *)
(* read_pen set up (route) and those that only read_adc changes and only   *)
(* restore_pfc puts back (mux).  A stop signal that arrives while blocked  *)
(* is delivered when the mask is restored, so it is a step that is         *)
(* disabled meanwhile.                                                     *)
(***************************************************************************)
EXTENDS Naturals, FiniteSets

CONSTANTS
  Runs,            \* the processes
  Zones,           \* touch zones a valid sample can fall into
  DebouncePolls,   \* DEBOUNCE_POLLS
  ReleasePolls,    \* RELEASE_POLLS
  MoveRepeatPolls, \* MOVE_REPEAT_POLLS
  Kills            \* may a run be killed without notice?

AllZones == {"LEFT", "UP", "RIGHT", "BUTTON_LEFT", "DOWN", "BUTTON_RIGHT"}

ASSUME ZonesAssumption == Zones \subseteq AllZones
ASSUME PollsAssumption ==
  /\ DebouncePolls \in Nat \ {0, 1}
  /\ ReleasePolls \in Nat \ {0}
  /\ MoveRepeatPolls \in Nat \ {0}
ASSUME KillsAssumption == Kills \in BOOLEAN

VARIABLES
  pc, stop,          \* next step and stop_requested of each run
  flock,             \* holders of the lock
  route, mux,        \* pin routing: "original", "rest", "pen" or "adc"
  gated,             \* MSTPCR2: is the ADC clock gated?
  adc,               \* "idle" or "busy"
  conn, xdown,       \* each run's X connection; buttons X holds down
  \* locals of main
  snapshot, clock_was_gated, hardware_safe, fatal_error, result,
  sample,            \* outcome of the poll: a zone, or an adc_result
  candidate, candidate_polls, active, release_polls, repeat_polls,
  unclean, untold   \* history: was a run killed or the hardware given up?
                     \* did X refuse a request, or was a run killed?

hwVars == <<route, mux, gated, adc>>
padVars == <<candidate, candidate_polls, active, release_polls, repeat_polls>>
exitVars == <<hardware_safe, fatal_error, result, unclean>>
xVars == <<conn, xdown, untold>>
vars == <<pc, stop, flock, hwVars, xVars, snapshot, clock_was_gated,
          exitVars, sample, padVars>>

Set(f, p, v) == [f EXCEPT ![p] = v]
Goto(p, label) == pc' = Set(pc, p, label)

Button(z) == IF z = "BUTTON_LEFT" THEN "1"
             ELSE IF z = "BUTTON_RIGHT" THEN "3" ELSE "none"

direction_zone(z) == z \in {"LEFT", "UP", "RIGHT", "DOWN"}

Init ==
  /\ pc = [p \in Runs |-> "start"] /\ stop = [p \in Runs |-> FALSE]
  /\ flock = {}
  /\ route = "original" /\ mux = "original"
  /\ gated \in BOOLEAN /\ adc \in {"idle", "busy"}
  /\ conn = [p \in Runs |-> FALSE] /\ xdown = {}
  /\ snapshot = [p \in Runs |-> <<"original", "original">>]
  /\ clock_was_gated = [p \in Runs |-> FALSE]
  /\ hardware_safe = [p \in Runs |-> FALSE]
  /\ fatal_error = [p \in Runs |-> FALSE]
  /\ result = [p \in Runs |-> 1]
  /\ sample = [p \in Runs |-> "INVALID"]
  /\ candidate = [p \in Runs |-> "NONE"]
  /\ candidate_polls = [p \in Runs |-> 0]
  /\ active = [p \in Runs |-> "NONE"]
  /\ release_polls = [p \in Runs |-> 0] /\ repeat_polls = [p \in Runs |-> 0]
  /\ unclean = FALSE /\ untold = FALSE

\* The process ends, and its locals, its lock and its connection with it.
Exit(p) ==
  /\ Goto(p, "exited")
  /\ flock' = flock \ {p}
  /\ conn' = Set(conn, p, FALSE) /\ stop' = Set(stop, p, FALSE)
  /\ snapshot' = Set(snapshot, p, <<"original", "original">>)
  /\ clock_was_gated' = Set(clock_was_gated, p, FALSE)
  /\ hardware_safe' = Set(hardware_safe, p, FALSE)
  /\ fatal_error' = Set(fatal_error, p, FALSE)
  /\ result' = Set(result, p, 1)
  /\ sample' = Set(sample, p, "INVALID")
  /\ candidate' = Set(candidate, p, "NONE")
  /\ candidate_polls' = Set(candidate_polls, p, 0)
  /\ active' = Set(active, p, "NONE")
  /\ release_polls' = Set(release_polls, p, 0)
  /\ repeat_polls' = Set(repeat_polls, p, 0)

-----------------------------------------------------------------------------
(* Before the hardware: signals, X, the lock. *)

\* The checks and configure_signals, then open_x, which releases every button.
open_x(p) ==
  /\ pc[p] = "start"
  /\ \/ Goto(p, "exited") /\ UNCHANGED <<conn, xdown>>
     \/ Goto(p, "lock") /\ conn' = Set(conn, p, TRUE) /\ xdown' = {}
  /\ UNCHANGED <<stop, flock, hwVars, untold, snapshot, clock_was_gated,
                 exitVars, sample, padVars>>

\* flock(LOCK_EX | LOCK_NB)
acquire_lock(p) ==
  /\ pc[p] = "lock"
  /\ \/ flock # {} /\ Exit(p)
     \/ /\ flock = {} /\ Goto(p, "setup") /\ flock' = {p}
        /\ UNCHANGED <<stop, conn, snapshot, clock_was_gated, hardware_safe,
                       fatal_error, result, sample, padVars>>
  /\ UNCHANGED <<hwVars, xdown, untold, unclean>>

-----------------------------------------------------------------------------
(* Setup, with the stop signals blocked. *)

\* open_maps, block_stopping_signals and the second driver check may fail.
capture_pfc(p) ==
  /\ pc[p] = "setup"
  /\ \/ Goto(p, "close") /\ UNCHANGED snapshot
     \/ Goto(p, "clock") /\ snapshot' = Set(snapshot, p, <<route, mux>>)
  /\ UNCHANGED <<stop, flock, hwVars, xVars, clock_was_gated, exitVars,
                 sample, padVars>>

\* A gated clock that does not open is gated again, and the run gives up.
open_adc_clock(p) ==
  /\ pc[p] = "clock"
  /\ clock_was_gated' = Set(clock_was_gated, p, gated)
  /\ \/ gated' = FALSE /\ Goto(p, "first_rest")
     \/ gated /\ UNCHANGED gated /\ Goto(p, "close")
  /\ UNCHANGED <<stop, flock, route, mux, adc, xVars, snapshot,
                 exitVars, sample, padVars>>

\* normal_rest proves the ADC idle before it changes anything: either the ADC
\* is, or becomes, idle and the pins are at rest, or a wait gives up.
Rested == /\ adc' = "idle" /\ route' = "rest"
          /\ UNCHANGED <<mux, gated>>
RestFails == adc = "busy" /\ UNCHANGED hwVars

\* The clock stays open when the ADC does not become idle.
FirstRest(p) ==
  /\ pc[p] = "first_rest"
  /\ \/ /\ Rested
        /\ hardware_safe' = Set(hardware_safe, p, TRUE)
        /\ \/ Goto(p, "loop") /\ UNCHANGED fatal_error
           \/ Goto(p, "shutdown") /\ fatal_error' = Set(fatal_error, p, TRUE)
        /\ UNCHANGED unclean
     \/ /\ RestFails
        /\ Goto(p, "close")
        /\ unclean' = TRUE
        /\ UNCHANGED <<hardware_safe, fatal_error>>
  /\ UNCHANGED <<stop, flock, xVars, snapshot, clock_was_gated, result,
                 sample, padVars>>

-----------------------------------------------------------------------------
(* One turn of the loop: look at the flags, sample, act on the sample.     *)

\* Seeded fault: a held zone keeps the loop going.
LoopHeadWhenIdle(p) ==
  /\ pc[p] = "loop"
  /\ Goto(p, IF (stop[p] /\ active[p] = "NONE") \/ ~conn[p] THEN "stopping"
             ELSE "pen")
  /\ UNCHANGED <<stop, flock, hwVars, xVars, snapshot, clock_was_gated,
                 exitVars, sample, padVars>>

\* The loop's condition; then block_stopping_signals, which may fail.
LoopHead(p) ==
  /\ pc[p] = "loop"
  /\ \/ /\ stop[p] \/ ~conn[p]
        /\ Goto(p, "stopping") /\ UNCHANGED fatal_error
     \/ /\ ~stop[p] /\ conn[p]
        /\ Goto(p, "pen") /\ UNCHANGED fatal_error
     \/ /\ ~stop[p] /\ conn[p]
        /\ Goto(p, "stopping") /\ fatal_error' = Set(fatal_error, p, TRUE)
  /\ UNCHANGED <<stop, flock, hwVars, xVars, snapshot, clock_was_gated,
                 hardware_safe, result, unclean, sample, padVars>>

PenRoute(p) ==
  /\ pc[p] = "pen" /\ Goto(p, "pen_read")
  /\ route' = "pen"
  /\ UNCHANGED <<stop, flock, mux, gated, adc, xVars, snapshot,
                 clock_was_gated, exitVars, sample, padVars>>

\* The pen is up (no sample), or down (read_adc).
read_pen(p) ==
  /\ pc[p] = "pen_read" /\ route' = "rest"
  /\ \/ Goto(p, "unmask") /\ sample' = Set(sample, p, "INVALID")
     \/ Goto(p, "adc_rest") /\ UNCHANGED sample
  /\ UNCHANGED <<stop, flock, mux, gated, adc, xVars, snapshot,
                 clock_was_gated, exitVars, padVars>>

AdcUnchanged == UNCHANGED <<stop, flock, xVars, snapshot,
                            clock_was_gated, exitVars, padVars>>

\* read_adc: rest, then the ADC's own routing, which needs it idle ...
AdcRest(p) ==
  /\ pc[p] = "adc_rest"
  /\ \/ Rested /\ Goto(p, "adc_route") /\ UNCHANGED sample
     \/ RestFails /\ Goto(p, "unmask") /\ sample' = Set(sample, p, "DIRTY")
  /\ AdcUnchanged

AdcRoute(p) ==
  /\ pc[p] = "adc_route" /\ Goto(p, "adc_start")
  /\ route' = "adc" /\ mux' = "adc"
  /\ AdcUnchanged /\ UNCHANGED <<gated, adc, sample>>

\* ... then a conversion ...
AdcStart(p) ==
  /\ pc[p] = "adc_start" /\ Goto(p, "adc_wait")
  /\ adc' = "busy"
  /\ AdcUnchanged /\ UNCHANGED <<route, mux, gated, sample>>

\* ... which ends with a valid or an invalid sample, or does not end.
AdcDone(p) ==
  /\ pc[p] = "adc_wait"
  /\ Rested /\ Goto(p, "unmask")
  /\ sample' \in {Set(sample, p, z) : z \in Zones \cup {"INVALID"}}
  /\ AdcUnchanged

AdcTimeout(p) ==
  /\ pc[p] = "adc_wait" /\ adc = "busy" /\ Goto(p, "abort")
  /\ AdcUnchanged /\ UNCHANGED <<hwVars, sample>>

\* Seeded fault: the pins are put to rest whether or not the abort worked.
AbortAnyway(p) ==
  /\ pc[p] = "abort" /\ Goto(p, "unmask")
  /\ route' = "rest" /\ UNCHANGED <<mux, gated, adc>>
  /\ sample' = Set(sample, p, "CLEAN")
  /\ AdcUnchanged

emergency_abort_idle(p) ==
  /\ pc[p] = "abort" /\ Goto(p, "unmask")
  /\ \/ Rested /\ sample' = Set(sample, p, "CLEAN")
     \/ RestFails /\ sample' = Set(sample, p, "DIRTY")
  /\ AdcUnchanged

\* Restore the signal mask, which may fail, and sort out the ADC's result.
Unmask(p) ==
  /\ pc[p] = "unmask"
  /\ \/ /\ sample[p] \notin {"CLEAN", "DIRTY"}
        /\ Goto(p, "act") /\ UNCHANGED <<hardware_safe, fatal_error>>
     \/ /\ sample[p] \in {"CLEAN", "DIRTY"}
        /\ Goto(p, "stopping")
        /\ hardware_safe' = Set(hardware_safe, p, sample[p] # "DIRTY")
        /\ fatal_error' = Set(fatal_error, p, TRUE)
     \/ /\ Goto(p, "stopping")
        /\ fatal_error' = Set(fatal_error, p, TRUE)
        /\ UNCHANGED hardware_safe
  /\ UNCHANGED <<stop, flock, hwVars, xVars, snapshot, clock_was_gated,
                 result, unclean, sample, padVars>>

-----------------------------------------------------------------------------
(* Acting on the sample: the same debounce as the kernel driver's, but a   *)
(* failed X request leaves the loop.                                       *)

\* x_checked_button and emit_motion: X takes the request, or it fails.  A
\* direction needs no release request.
Press(p, b) ==
  /\ conn[p] /\ xdown' = xdown \cup ({b} \ {"none"})
  /\ UNCHANGED untold
Release(p, b) ==
  /\ conn[p] \/ b = "none"
  /\ xdown' = xdown \ {b}
  /\ UNCHANGED untold
RequestFails(p) == UNCHANGED xdown /\ untold' = (untold \/ conn[p])

ActUnchanged == UNCHANGED <<stop, flock, hwVars, conn, snapshot,
                            clock_was_gated, exitVars, sample>>

NoContact(p) ==
  /\ pc[p] = "act" /\ sample[p] = "INVALID"
  /\ candidate' = Set(candidate, p, "NONE")
  /\ candidate_polls' = Set(candidate_polls, p, 0)
  /\ \/ /\ active[p] = "NONE" /\ Goto(p, "loop")
        /\ UNCHANGED <<active, release_polls, repeat_polls, xdown, untold>>
     \/ /\ active[p] # "NONE" /\ release_polls[p] + 1 < ReleasePolls
        /\ release_polls' = Set(release_polls, p, release_polls[p] + 1)
        /\ Goto(p, "loop")
        /\ UNCHANGED <<active, repeat_polls, xdown, untold>>
     \/ /\ active[p] # "NONE" /\ release_polls[p] + 1 >= ReleasePolls
        /\ Release(p, Button(active[p]))
        /\ active' = Set(active, p, "NONE")
        /\ release_polls' = Set(release_polls, p, 0)
        /\ repeat_polls' = Set(repeat_polls, p, 0)
        /\ Goto(p, "loop")
     \/ /\ active[p] # "NONE" /\ release_polls[p] + 1 >= ReleasePolls
        /\ Button(active[p]) # "none" /\ RequestFails(p)
        /\ release_polls' = Set(release_polls, p, release_polls[p] + 1)
        /\ Goto(p, "stopping")
        /\ UNCHANGED <<active, repeat_polls>>
  /\ ActUnchanged

Contact(p) == pc[p] = "act" /\ sample[p] \in Zones

\* A held direction repeats; a held button does nothing.
Held(p) ==
  /\ Contact(p) /\ active[p] # "NONE"
  /\ release_polls' = Set(release_polls, p, 0)
  /\ \/ /\ ~direction_zone(active[p])
        /\ Goto(p, "loop") /\ UNCHANGED <<repeat_polls, untold>>
     \/ /\ direction_zone(active[p]) /\ repeat_polls[p] + 1 < MoveRepeatPolls
        /\ repeat_polls' = Set(repeat_polls, p, repeat_polls[p] + 1)
        /\ Goto(p, "loop") /\ UNCHANGED untold
     \/ /\ direction_zone(active[p]) /\ repeat_polls[p] + 1 >= MoveRepeatPolls
        /\ repeat_polls' = Set(repeat_polls, p, 0)
        /\ \/ conn[p] /\ Goto(p, "loop") /\ UNCHANGED untold
           \/ Goto(p, "stopping") /\ untold' = (untold \/ conn[p])
  /\ UNCHANGED <<candidate, candidate_polls, active, xdown>>
  /\ ActUnchanged

\* near: both coordinates are within RAW_JITTER_LIMIT of the last sample.
CandidatePolls(p, near) == IF sample[p] = candidate[p] /\ near
                           THEN candidate_polls[p] + 1 ELSE 1

Touch(p, near) ==
  /\ Contact(p) /\ active[p] = "NONE"
  /\ release_polls' = Set(release_polls, p, 0)
  /\ \/ /\ CandidatePolls(p, near) < DebouncePolls
        /\ candidate' = Set(candidate, p, sample[p])
        /\ candidate_polls' = Set(candidate_polls, p, CandidatePolls(p, near))
        /\ Goto(p, "loop")
        /\ UNCHANGED <<active, repeat_polls, xdown, untold>>
     \/ /\ CandidatePolls(p, near) >= DebouncePolls
        /\ active' = Set(active, p, sample[p])
        /\ candidate' = Set(candidate, p, "NONE")
        /\ candidate_polls' = Set(candidate_polls, p, 0)
        /\ repeat_polls' = Set(repeat_polls, p, 0)
        /\ \/ Press(p, Button(sample[p])) /\ Goto(p, "loop")
           \/ RequestFails(p) /\ Goto(p, "stopping")
  /\ ActUnchanged

-----------------------------------------------------------------------------
(* Shutdown. *)

\* Seeded fault: the held zone is not released.
KeepHeld(p) ==
  /\ pc[p] \in {"stopping", "shutdown"} /\ Goto(p, "restore")
  /\ fatal_error' = Set(fatal_error, p,
                        fatal_error[p] \/ (pc[p] = "stopping" /\ ~stop[p]))
  /\ UNCHANGED <<stop, flock, hwVars, xVars, snapshot, clock_was_gated,
                 hardware_safe, result, unclean, sample, padVars>>

\* "if (stop_requested == 0) fatal_error = true", then the held zone is
\* released; the outcome of that request is ignored.
ReleaseHeld(p) ==
  /\ pc[p] \in {"stopping", "shutdown"} /\ Goto(p, "restore")
  /\ fatal_error' = Set(fatal_error, p,
                        fatal_error[p] \/ (pc[p] = "stopping" /\ ~stop[p]))
  /\ Release(p, Button(active[p])) \/ RequestFails(p)
  /\ UNCHANGED <<stop, flock, hwVars, conn, snapshot, clock_was_gated,
                 hardware_safe, result, unclean, sample, padVars>>

\* The hardware is given up: it may be unsafe, the mask may not be
\* blockable, the ADC may not come to rest.
GiveUp(p) ==
  /\ pc[p] = "restore" /\ Goto(p, "close")
  /\ \/ UNCHANGED hwVars
     \/ hardware_safe[p] /\ Rested
  /\ hardware_safe' = Set(hardware_safe, p, FALSE)
  /\ unclean' = TRUE
  /\ UNCHANGED <<stop, flock, xVars, snapshot, clock_was_gated,
                 fatal_error, result, sample, padVars>>

\* Seeded fault: restores only what normal_rest changed.
RestoreRouteOnly(p) ==
  /\ pc[p] = "restore" /\ hardware_safe[p] /\ Goto(p, "restore_clock")
  /\ adc' = "idle" /\ route' = snapshot[p][1]
  /\ UNCHANGED <<mux, gated, stop, flock, xVars, snapshot,
                 clock_was_gated, exitVars, sample, padVars>>

restore_pfc(p) ==
  /\ pc[p] = "restore" /\ hardware_safe[p] /\ Goto(p, "restore_clock")
  /\ adc' = "idle"
  /\ route' = snapshot[p][1] /\ mux' = snapshot[p][2]
  /\ UNCHANGED <<gated, stop, flock, xVars, snapshot, clock_was_gated,
                 exitVars, sample, padVars>>

\* The clock may refuse to be gated again: exit status 1.
restore_adc_clock(p) ==
  /\ pc[p] = "restore_clock" /\ Goto(p, "close")
  /\ \/ /\ gated' = clock_was_gated[p]
        /\ result' = Set(result, p, IF fatal_error[p] THEN 1 ELSE 0)
        /\ UNCHANGED unclean
     \/ /\ clock_was_gated[p]
        /\ unclean' = TRUE /\ UNCHANGED <<gated, result>>
  /\ UNCHANGED <<stop, flock, route, mux, adc, xVars, snapshot,
                 clock_was_gated, hardware_safe, fatal_error, sample, padVars>>

Close(p) ==
  /\ pc[p] = "close" /\ Exit(p)
  /\ UNCHANGED <<hwVars, xdown, untold, unclean>>

-----------------------------------------------------------------------------
(* The environment. *)

\* The labels at which the stop signals are blocked.
Masked == {"clock", "first_rest", "pen", "pen_read", "adc_rest", "adc_route",
           "adc_start", "adc_wait", "abort", "unmask", "restore_clock"}

\* SIGTERM, SIGINT, SIGHUP or SIGQUIT; fatal before configure_signals.
Stop(p) ==
  /\ pc[p] \notin Masked \cup {"exited"}
  /\ \/ pc[p] = "start" /\ Goto(p, "exited") /\ UNCHANGED stop
     \/ pc[p] # "start" /\ stop' = Set(stop, p, TRUE) /\ UNCHANGED pc
  /\ UNCHANGED <<flock, hwVars, xVars, snapshot, clock_was_gated,
                 exitVars, sample, padVars>>

Kill(p) ==
  /\ Kills /\ pc[p] # "exited" /\ Exit(p)
  /\ unclean' = TRUE /\ untold' = TRUE
  /\ UNCHANGED <<hwVars, xdown>>

\* X goes away, and its idea of the buttons with it; runs started later
\* connect to its successor.
XDies ==
  /\ conn' = [p \in Runs |-> FALSE] /\ xdown' = {}
  /\ UNCHANGED <<pc, stop, flock, hwVars, untold, snapshot, clock_was_gated,
                 exitVars, sample, padVars>>

\* A conversion nobody waits for ends by itself.
AdcSettles ==
  /\ adc = "busy" /\ adc' = "idle"
  /\ UNCHANGED <<pc, stop, flock, route, mux, gated, xVars, snapshot,
                 clock_was_gated, exitVars, sample, padVars>>

-----------------------------------------------------------------------------
Poll(p) ==
  \/ PenRoute(p) \/ read_pen(p) \/ AdcRest(p) \/ AdcRoute(p) \/ AdcStart(p)
  \/ AdcDone(p) \/ AdcTimeout(p) \/ emergency_abort_idle(p) \/ Unmask(p)

Act(p) == NoContact(p) \/ Held(p) \/ \E near \in BOOLEAN : Touch(p, near)

Main(p) ==
  \/ open_x(p) \/ acquire_lock(p) \/ capture_pfc(p) \/ open_adc_clock(p)
  \/ FirstRest(p) \/ LoopHead(p) \/ Poll(p) \/ Act(p) \/ ReleaseHeld(p)
  \/ GiveUp(p) \/ restore_pfc(p) \/ restore_adc_clock(p) \/ Close(p)

Next == \/ \E p \in Runs : Main(p) \/ Stop(p) \/ Kill(p)
        \/ XDies
        \/ AdcSettles

Spec == Init /\ [][Next]_vars

(* Every loop of a run yields the processor but stays runnable. *)
FairSpec == Spec /\ \A p \in Runs : WF_vars(Main(p))

-----------------------------------------------------------------------------
\* "restore the touch hardware when X exits" (x11/README.md), over any number
\* of runs: when nobody holds the lock, the pins are as the firmware left
\* them, unless a run was killed or reported that it gave the hardware up;
\* and a run that exits with status 0 leaves pins, clock gate and ADC as it
\* found them.
HardwareRestored ==
  /\ flock = {} /\ ~unclean => route = "original" /\ mux = "original"
  /\ \A p \in Runs :
       pc[p] = "close" /\ result[p] = 0 =>
         /\ <<route, mux>> = snapshot[p]
         /\ gated = clock_was_gated[p] /\ adc = "idle"

\* The comments of normal_rest and restore_pfc: the pins are moved only once
\* the ADC is proved idle - also after a run was killed in the middle of a
\* conversion, and after a conversion that had to be aborted.
PinsMoveWhenIdle ==
  [][<<route, mux>>' # <<route, mux>> => adc' = "idle"]_vars

\* A button X holds down is held by a running helper whose pad is touched:
\* no exit path forgets it, unless X refused a request or a run was killed;
\* also a run that gives the hardware up releases what it holds.
NoStuckClick ==
  \A b \in xdown :
    \/ untold
    \/ \E p \in Runs : pc[p] # "exited" /\ Button(active[p]) = b

\* A helper that was told to stop, or whose X server is gone, exits, whatever
\* the pad, the ADC and X do meanwhile.
StopsWhenAsked ==
  \A p \in Runs :
    stop[p] \/ (pc[p] = "loop" /\ ~conn[p]) ~> pc[p] = "exited"
=============================================================================
