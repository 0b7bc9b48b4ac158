----------------------------- MODULE SublcdTest -----------------------------
(***************************************************************************)
(* Drawing on the secondary LCD from user space                            *)
(* (perform_write of x11/apps/sublcd-test.c) beside the framebuffer driver.*)
(*                                                                         *)
(* Both panels hang on port R: the driver moves the main line, the tool    *)
(* the secondary one, each by writing back a whole byte read earlier.  The *)
(* tool therefore takes a lock, puts the text console into graphics mode,  *)
(* which stops it drawing, and pans the framebuffer, which drains the      *)
(* driver's worker, before its first write.                                *)
(*                                                                         *)
(* The seven commands that select a row run the same code and stand as     *)
(* one.  All catchable signals are blocked; when Kills, a run may be       *)
(* killed.                                                                 *)
(***************************************************************************)
EXTENDS ExwordFb

CONSTANTS
  Tests,            \* runs of sublcd-test
  ConsoleDrawers,   \* the drawers that are the text console
  Height,           \* SUBLCD_HEIGHT
  Kills             \* may a run be killed?

ASSUME ConsoleAssumption == ConsoleDrawers \subseteq Drawers
ASSUME HeightAssumption == Height \in Nat \ {0}
ASSUME KillsAssumption == Kills \in BOOLEAN

VARIABLES
  tpc,      \* next step of each run
  flock,    \* holder of /tmp/exword-subpad.lock, as a set
  console,  \* mode of the active VT: "text" or "graphics"
  quieted,  \* has the run put the console into graphics mode?
  saved,    \* prdr as read by lcd_command
  row, rows,\* rows written, rows to write
  result,   \* exit status
  unrestored, \* history: a restore of the console failed, or a kill
  intruded  \* history: has somebody other than the console drawn?

testVars == <<tpc, flock, console, quieted, saved, row, rows, result,
              unrestored, intruded>>
vars == <<fbVars, testVars>>

Goto(t, label) == tpc' = [tpc EXCEPT ![t] = label]

Init ==
  /\ FbInit
  /\ tpc = [t \in Tests |-> "start"]
  /\ flock = {}
  /\ console = "text"
  /\ quieted = [t \in Tests |-> FALSE]
  /\ saved = [t \in Tests |-> {}]
  /\ row = [t \in Tests |-> 0] /\ rows \in [Tests -> {1, Height}]
  /\ result = [t \in Tests |-> 1]
  /\ unrestored = FALSE /\ intruded = FALSE

-----------------------------------------------------------------------------
(* Getting ready. *)

\* Seeded fault: a shared lock.
AcquireShared(t) ==
  /\ tpc[t] = "start"
  /\ \/ Goto(t, "done") /\ UNCHANGED flock
     \/ flock' = flock \cup {t} /\ Goto(t, "prepare")
  /\ UNCHANGED <<fbVars, console, quieted, saved, row, rows, result,
                 unrestored, intruded>>

\* The checks, then flock(LOCK_EX | LOCK_NB).
acquire_lock(t) ==
  /\ tpc[t] = "start"
  /\ \/ Goto(t, "done") /\ UNCHANGED flock
     \/ flock = {} /\ flock' = {t} /\ Goto(t, "prepare")
  /\ UNCHANGED <<fbVars, console, quieted, saved, row, rows, result,
                 unrestored, intruded>>

\* open_maps, fflush and block_signals; any of them may fail.
Prepare(t) ==
  /\ tpc[t] = "prepare"
  /\ Goto(t, "quiet") \/ Goto(t, "close")
  /\ UNCHANGED <<fbVars, flock, console, quieted, saved, row, rows, result,
                 unrestored, intruded>>

\* KDGETMODE and the checks that standard input is the active text console.
CheckConsole(t) ==
  /\ tpc[t] = "quiet"
  /\ Goto(t, "close") \/ (console = "text" /\ Goto(t, "setmode"))
  /\ UNCHANGED <<fbVars, flock, console, quieted, saved, row, rows, result,
                 unrestored, intruded>>

\* KDSETMODE waits for the console lock, which a console operation holds
\* until it has queued its refresh.
QuietConsole(t) ==
  /\ tpc[t] = "setmode"
  /\ \/ Goto(t, "close") /\ UNCHANGED <<console, quieted>>
     \/ /\ \A d \in ConsoleDrawers : drawer[d] = "idle"
        /\ console' = "graphics"
        /\ quieted' = [quieted EXCEPT ![t] = TRUE]
        /\ Goto(t, "drain")
  /\ UNCHANGED <<fbVars, flock, saved, row, rows, result, unrestored,
                 intruded>>

\* The framebuffer is not the expected one: text mode again at once, or, when
\* that fails, at the end.
DrainRefused(t) ==
  /\ tpc[t] = "drain" /\ Goto(t, "close")
  /\ \/ console' = "text" /\ quieted' = [quieted EXCEPT ![t] = FALSE]
     \/ UNCHANGED <<console, quieted>>
  /\ UNCHANGED <<fbVars, flock, saved, row, rows, result, unrestored,
                 intruded>>

\* Seeded fault: the framebuffer is opened and checked but not panned.
DrainSkipsPan(t) ==
  /\ tpc[t] = "drain" /\ Goto(t, "recheck")
  /\ UNCHANGED <<fbVars, flock, console, quieted, saved, row, rows, result,
                 unrestored, intruded>>

\* FBIOPAN_DISPLAY.
Drain(t) ==
  /\ tpc[t] = "drain" /\ Goto(t, "drained")
  /\ PanBegin
  /\ UNCHANGED <<flock, console, quieted, saved, row, rows, result,
                 unrestored, intruded>>

Drained(t) ==
  /\ tpc[t] = "drained" /\ Goto(t, "recheck")
  /\ PanEnd
  /\ UNCHANGED <<flock, console, quieted, saved, row, rows, result,
                 unrestored, intruded>>

\* subpad_mode() again, immediately before the first write.
Recheck(t) ==
  /\ tpc[t] = "recheck"
  /\ Goto(t, "read") \/ Goto(t, "close")
  /\ UNCHANGED <<fbVars, flock, console, quieted, saved, row, rows, result,
                 unrestored, intruded>>

-----------------------------------------------------------------------------
(* Writing rows: lcd_command and lcd_data. *)

TestOnly == UNCHANGED <<drawVars, workVars, shown, flock, console, quieted,
                           unrestored, intruded>>

ReadPrdr(t) ==
  /\ tpc[t] = "read" /\ Goto(t, "low")
  /\ saved' = [saved EXCEPT ![t] = prdr]
  /\ TestOnly /\ UNCHANGED <<prdr, row, rows, result>>

LineLow(t) ==
  /\ tpc[t] = "low" /\ Goto(t, "command")
  /\ prdr' = saved[t] \ {"sub"}
  /\ TestOnly /\ UNCHANGED <<saved, row, rows, result>>

\* The command word goes out, then the line is raised.
Command(t) ==
  /\ tpc[t] = "command" /\ Goto(t, "high")
  /\ TestOnly /\ UNCHANGED <<prdr, saved, row, rows, result>>

\* Seeded fault: writes back the byte as it was read.
LineBack(t) ==
  /\ tpc[t] = "high" /\ Goto(t, "data")
  /\ prdr' = saved[t]
  /\ TestOnly /\ UNCHANGED <<saved, row, rows, result>>

LineHigh(t) ==
  /\ tpc[t] = "high" /\ Goto(t, "data")
  /\ prdr' = saved[t] \cup {"sub"}
  /\ TestOnly /\ UNCHANGED <<saved, row, rows, result>>

\* One row of pixels, with the line high.
RowData(t) ==
  /\ tpc[t] = "data"
  /\ row' = [row EXCEPT ![t] = row[t] + 1]
  /\ Goto(t, IF row[t] + 1 = rows[t] THEN "finish" ELSE "read")
  /\ TestOnly /\ UNCHANGED <<prdr, saved, rows, result>>

LeaveDataMode(t) ==
  /\ tpc[t] = "finish" /\ Goto(t, "leave")
  /\ prdr' = prdr \cup {"sub"}
  /\ result' = [result EXCEPT ![t] = 0]
  /\ TestOnly /\ UNCHANGED <<saved, row, rows>>

-----------------------------------------------------------------------------
(* Leaving. *)

\* leave_quiet_console: a failure turns the exit status into 1.
LeaveQuiet(t) ==
  /\ tpc[t] = "leave" /\ Goto(t, "close")
  /\ \/ /\ console' = "text"
        /\ quieted' = [quieted EXCEPT ![t] = FALSE]
        /\ UNCHANGED result
     \/ /\ result' = [result EXCEPT ![t] = 1]
        /\ UNCHANGED <<console, quieted>>
  /\ UNCHANGED <<fbVars, flock, saved, row, rows, unrestored,
                 intruded>>

\* Seeded fault: the error paths leave the console as it is.
CloseKeepsQuiet(t) ==
  /\ tpc[t] = "close" /\ Goto(t, "unlock")
  /\ UNCHANGED <<fbVars, flock, console, quieted, saved, row, rows, result,
                 unrestored, intruded>>

\* close_mmio: the last attempt to restore the console.
Close(t) ==
  /\ tpc[t] = "close" /\ Goto(t, "unlock")
  /\ \/ ~quieted[t] /\ UNCHANGED <<console, unrestored>>
     \/ quieted[t] /\ console' = "text" /\ UNCHANGED unrestored
     \/ quieted[t] /\ unrestored' = TRUE /\ UNCHANGED console
  /\ UNCHANGED <<fbVars, flock, quieted, saved, row, rows, result, intruded>>

Unlock(t) ==
  /\ tpc[t] = "unlock" /\ Goto(t, "done")
  /\ flock' = flock \ {t}
  /\ UNCHANGED <<fbVars, console, quieted, saved, row, rows, result,
                 unrestored, intruded>>

\* The kernel closes a killed run's lock; a pan it is in completes first.
Kill(t) ==
  /\ Kills /\ tpc[t] \notin {"drained", "done"}
  /\ Goto(t, "done")
  /\ flock' = flock \ {t}
  /\ unrestored' = TRUE
  /\ UNCHANGED <<fbVars, console, quieted, saved, row, rows, result, intruded>>

-----------------------------------------------------------------------------
Test(t) ==
  \/ acquire_lock(t) \/ Prepare(t) \/ CheckConsole(t) \/ QuietConsole(t)
  \/ DrainRefused(t) \/ Drain(t) \/ Drained(t) \/ Recheck(t)
  \/ ReadPrdr(t) \/ LineLow(t) \/ Command(t) \/ LineHigh(t) \/ RowData(t)
  \/ LeaveDataMode(t)
  \/ LeaveQuiet(t) \/ Close(t) \/ Unlock(t)

\* In graphics mode the console draws nothing.
Drawing ==
  \E d \in Drawers :
    /\ \/ /\ d \in ConsoleDrawers => console = "text"
          /\ Draw(d) \/ exwordfb_blank(d)
       \/ Operation(d)
    /\ intruded' = (intruded \/ d \notin ConsoleDrawers)

Driver ==
  /\ Drawing \/ (Worker /\ UNCHANGED intruded)
  /\ UNCHANGED <<tpc, flock, console, quieted, saved, row, rows, result,
                 unrestored>>

Next == Driver \/ \E t \in Tests : Test(t) \/ Kill(t)

Spec == Init /\ [][Next]_vars

-----------------------------------------------------------------------------
Writing == {t \in Tests : tpc[t] \in {"read", "low", "command", "high",
                                       "data", "finish"}}

\* The comment in enter_quiet_console: with the console quiet and the worker
\* drained, the main and the secondary LCD do not race on port R.  From the
\* pan to the last row no refresh is queued, running or about to be queued,
\* unless somebody other than the console draws.
NoRefreshWhileWriting ==
  Writing # {} /\ ~intruded =>
                  /\ worker = "idle" /\ work # "pending"
                  /\ \A d \in ConsoleDrawers : drawer[d] = "idle"

\* Commands reach the secondary controller with its line low and pixels with
\* it high, and the main panel's line is high between two refreshes - even
\* when a writer of /dev/fb0, whom nothing stops, makes the driver refresh in
\* the middle of lcd_command.
LinesInPhase ==
  /\ "main" \in prdr
  /\ \A t \in Tests : /\ tpc[t] = "command" => "sub" \notin prdr
                      /\ tpc[t] = "data" => "sub" \in prdr

\* One run at a time drives the secondary panel.
OneWriter == \A s, t \in Writing : s = t

\* A console that was quieted is given back by every path, unless the last
\* attempt to restore it failed or the run was killed.
ConsoleRestored ==
  (\A t \in Tests : tpc[t] = "done") => console = "text" \/ unrestored
=============================================================================
