----------------------------- MODULE TouchDiag -----------------------------
(***************************************************************************)
(* The touch diagnostics tool (x11/apps/touchdiag.c) beside the touch-pad  *)
(* helper: both take pins, clock and ADC for themselves, kept apart only   *)
(* by /tmp/exword-subpad.lock.  touchdiag wants the text console before X, *)
(* but looks at it before it has the lock, so X and a helper may start in  *)
(* between.                                                                *)
(*                                                                         *)
(* The commands that write are modelled: pen, clock-on and adc-once; info, *)
(* pfc and clock only read.                                                *)
(***************************************************************************)
EXTENDS SubpadMouse

VARIABLES
  dpc,         \* next step of touchdiag, "none" when it does not run
  command,
  saved,       \* capture_pfc
  was_gated,   \* the clock as open_adc_clock found it
  attempted,   \* clock_attempted
  accessed,    \* adc_accessed
  good         \* have restore_pfc and restore_adc_clock verified so far?

diagVars == <<dpc, command, saved, was_gated, attempted, accessed, good>>
helperVars == <<pc, stop, xVars, snapshot, clock_was_gated, hardware_safe,
                fatal_error, result, sample, padVars>>
allVars == <<vars, diagVars>>

Tool == "touchdiag"

ASSUME ToolAssumption == Tool \notin Runs

DiagInit ==
  /\ Init
  /\ dpc = "none" /\ command = "none" /\ saved = <<>>
  /\ was_gated = FALSE /\ attempted = FALSE /\ accessed = FALSE /\ good = TRUE

At(label) == dpc = label /\ UNCHANGED helperVars
Then(label) == dpc' = label
Asked == UNCHANGED command
Flags == <<was_gated, attempted, accessed, good>>

\* The process ends; its lock and its locals go with it.
Gone ==
  /\ Then("none")
  /\ flock' = flock \ {Tool}
  /\ command' = "none" /\ saved' = <<>>
  /\ was_gated' = FALSE /\ attempted' = FALSE /\ accessed' = FALSE /\ good' = TRUE

Started == dpc = "none" /\ UNCHANGED helperVars
             /\ command' \in {"pen", "clock-on", "adc-once"} /\ Then("capture")

\* parse_command, preflight_write and acquire_lock; a tool that any of them
\* refuses ends without a trace.
acquire_touch_lock ==
  /\ Started
  /\ flock = {} /\ flock' = {Tool}
  /\ UNCHANGED <<hwVars, unclean, saved, Flags>>

\* open_maps, block_async_signals and a second look for the driver may fail.
Capture ==
  /\ At("capture")
  /\ \/ Then("close") /\ UNCHANGED saved
     \/ command = "clock-on" /\ Then("clock") /\ UNCHANGED saved
     \/ command # "clock-on" /\ Then("rest") /\ saved' = <<route, mux>>
  /\ Asked /\ UNCHANGED <<flock, hwVars, unclean, Flags>>

\* The ADC is not looked at.
force_rest_high ==
  /\ At("rest") /\ Then("pen") /\ route' = "rest"
  /\ Asked /\ UNCHANGED <<flock, mux, gated, adc, unclean, saved, Flags>>

RoutePen ==
  /\ At("pen") /\ Then("pen_read") /\ route' = "pen"
  /\ Asked /\ UNCHANGED <<flock, mux, gated, adc, unclean, saved, Flags>>

ReadPen ==
  /\ At("pen_read") /\ route' = "rest"
  /\ \/ Then("restore")
     \/ command = "adc-once" /\ Then("clock")
  /\ Asked /\ UNCHANGED <<flock, mux, gated, adc, unclean, saved, Flags>>

\* A clock that does not open ends adc-once before its first ADC access.
OpenClock ==
  /\ At("clock")
  /\ was_gated' = gated /\ attempted' = TRUE
  /\ \/ /\ gated' = FALSE
        /\ Then(IF command = "clock-on" THEN "restore_clock" ELSE "adc")
        /\ accessed' = (command = "adc-once")
     \/ /\ gated /\ UNCHANGED <<gated, accessed>>
        /\ Then(IF command = "clock-on" THEN "restore_clock" ELSE "restore")
  /\ Asked /\ UNCHANGED <<flock, route, mux, adc, unclean, saved, good>>

\* adc_once: an ADC that is busy is not touched; otherwise its routing ...
adc_once ==
  /\ At("adc")
  /\ \/ adc = "busy" /\ Then("cleanup") /\ UNCHANGED hwVars
     \/ /\ adc' = "idle" /\ route' = "adc" /\ mux' = "adc"
        /\ \E l \in {"convert", "cleanup"} : Then(l)
        /\ UNCHANGED gated
  /\ Asked /\ UNCHANGED <<flock, unclean, saved, Flags>>

\* ... and a conversion, which ends or does not.
Convert ==
  /\ At("convert") /\ Then("cleanup")
  /\ adc' \in {"busy", "idle"}
  /\ Asked /\ UNCHANGED <<flock, route, mux, gated, unclean, saved, Flags>>

\* Seeded fault: the outcome of the clean-up is ignored.
CleanupIgnored ==
  /\ At("cleanup") /\ Then("restore")
  /\ adc' \in {adc, "idle"}
  /\ Asked /\ UNCHANGED <<flock, route, mux, gated, unclean, saved, Flags>>

\* Without an idle ADC its routing and clock are left: "RESET REQUIRED".
adc_cleanup ==
  /\ At("cleanup")
  /\ \/ adc' = "idle" /\ Then("restore") /\ UNCHANGED <<unclean, good>>
     \/ /\ adc = "busy" /\ UNCHANGED adc
        /\ Then("close") /\ unclean' = TRUE /\ good' = FALSE
  /\ Asked /\ UNCHANGED <<flock, route, mux, gated, saved, was_gated, attempted,
                          accessed>>

\* restore_pfc rests the pins, puts them back and reads them back; what was
\* not taken is reported.
RestorePins ==
  /\ At("restore") /\ Then(IF attempted THEN "restore_clock" ELSE "close")
  /\ \/ route' = saved[1] /\ mux' = saved[2] /\ UNCHANGED <<unclean, good>>
     \/ /\ route' \in {"rest", saved[1]} /\ mux' \in {mux, saved[2]}
        /\ unclean' = TRUE /\ good' = FALSE
  /\ Asked /\ UNCHANGED <<flock, gated, adc, saved, was_gated, attempted, accessed>>

RestoreClock ==
  /\ At("restore_clock") /\ Then("close")
  /\ \/ gated' = (gated \/ was_gated) /\ UNCHANGED <<unclean, good>>
     \/ was_gated /\ UNCHANGED gated /\ unclean' = TRUE /\ good' = FALSE
  /\ Asked /\ UNCHANGED <<flock, route, mux, adc, saved, was_gated, attempted,
                          accessed>>

CloseAll == At("close") /\ Gone /\ UNCHANGED <<hwVars, unclean>>

\* Signals are blocked while the pins are in use; SIGKILL is not.
DiagKill ==
  /\ Kills /\ dpc # "none" /\ UNCHANGED helperVars /\ Gone
  /\ unclean' = TRUE
  /\ UNCHANGED hwVars

Diag ==
  \/ acquire_touch_lock \/ Capture \/ force_rest_high
  \/ RoutePen \/ ReadPen \/ OpenClock \/ adc_once \/ Convert \/ adc_cleanup
  \/ RestorePins \/ RestoreClock \/ CloseAll \/ DiagKill

DiagNext == (Next /\ UNCHANGED diagVars) \/ Diag

DiagSpec ==
  /\ DiagInit /\ [][DiagNext]_allVars
  /\ \A p \in Runs : WF_allVars(Main(p) /\ UNCHANGED diagVars)
-----------------------------------------------------------------------------
\* The helper moves the pins only once the ADC is proved idle (comments of
\* normal_rest and restore_pfc), also when touchdiag or a killed run left a
\* conversion going.  touchdiag itself does not look (force_rest_high).
HelperMovesWhenIdle ==
  [][ UNCHANGED diagVars /\ <<route, mux>>' # <<route, mux>> => adc' = "idle"
    ]_allVars

\* A touchdiag that reports its restores as OK leaves pins and clock gate as
\* it found them, whatever the helper does meanwhile; and neither is given
\* back under a conversion that it started and that still runs: then they are
\* "deliberately left in place".
DiagLeavesAsFound ==
  /\ dpc = "close" /\ good =>
       /\ saved # <<>> => <<route, mux>> = saved
       /\ attempted => gated = was_gated
  /\ dpc \in {"restore", "restore_clock"} /\ accessed => adc = "idle"
=============================================================================
