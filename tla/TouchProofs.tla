---------------------------- MODULE TouchProofs ----------------------------
(* Proofs about the touch-pad helper (SubpadMouse), for any number of      *)
(* runs, any zones and any debounce limits, with stop signals, kills, a    *)
(* hanging ADC and a failing X server; and about touchdiag beside any      *)
(* number of helpers (TouchDiag): what the helper promises alone it still  *)
(* promises with the tool around, and the tool leaves the hardware as it   *)
(* found it.                                                               *)
EXTENDS TouchDiag, TLAPS

-----------------------------------------------------------------------------
(* The lock.                                                               *)

Labels == {"start", "lock", "setup", "clock", "first_rest", "loop", "pen",
           "pen_read", "adc_rest", "adc_route", "adc_start", "adc_wait",
           "abort", "unmask", "act", "stopping", "shutdown", "restore",
           "restore_clock", "close", "exited"}
Working == Labels \ {"start", "lock", "exited"}

\* The holder of the lock is the one run between acquire_lock and its exit.
LockInv ==
  /\ pc \in [Runs -> Labels]
  /\ \A p \in Runs : pc[p] \in Working => flock = {p}
  /\ \A p \in Runs : p \in flock => pc[p] \in Working

\* Every step of a run, and every signal, keeps the lock exclusive.
LEMMA RunKeepsLock ==
  ASSUME LockInv, NEW p \in Runs, Main(p) \/ Stop(p) \/ Kill(p)
  PROVE  LockInv'
<1> USE DEF LockInv, Working, Labels, Goto, Set
<1>1. CASE open_x(p) \/ acquire_lock(p)
  BY <1>1 DEF open_x, acquire_lock, Exit
<1>2. CASE capture_pfc(p) \/ open_adc_clock(p) \/ FirstRest(p) \/ LoopHead(p)
  BY <1>2 DEF capture_pfc, open_adc_clock, FirstRest, LoopHead
<1>3. CASE PenRoute(p) \/ read_pen(p)
  BY <1>3 DEF PenRoute, read_pen
<1>4. CASE AdcRest(p) \/ AdcRoute(p) \/ AdcStart(p)
  BY <1>4 DEF AdcRest, AdcRoute, AdcStart, AdcUnchanged
<1>5. CASE AdcDone(p) \/ AdcTimeout(p) \/ emergency_abort_idle(p)
  BY <1>5 DEF AdcDone, AdcTimeout, emergency_abort_idle, AdcUnchanged
<1>6. CASE Unmask(p)
  BY <1>6 DEF Unmask
<1>7. CASE NoContact(p)
  BY <1>7 DEF NoContact, ActUnchanged
<1>8. CASE Held(p)
  BY <1>8 DEF Held, Contact, ActUnchanged
<1>9. CASE \E near \in BOOLEAN : Touch(p, near)
  BY <1>9 DEF Touch, Contact, ActUnchanged
<1>10. CASE ReleaseHeld(p) \/ GiveUp(p) \/ restore_pfc(p)
            \/ restore_adc_clock(p)
  BY <1>10 DEF ReleaseHeld, GiveUp, restore_pfc, restore_adc_clock
<1>11. CASE Close(p) \/ Kill(p)
  BY <1>11 DEF Close, Kill, Exit
<1>12. CASE Stop(p)
  BY <1>12 DEF Stop
<1>13. QED
  BY <1>1, <1>2, <1>3, <1>4, <1>5, <1>6, <1>7, <1>8, <1>9, <1>10, <1>11,
     <1>12 DEF Main, Poll, Act

-----------------------------------------------------------------------------
(* The hardware.  While nothing has been given up, a holder of the lock    *)
(* saved the firmware's pins, and they are in place before it starts and   *)
(* after it restored them; the ADC is idle wherever the loop moves pins    *)
(* without waiting for it.                                                 *)

Pins == {"original", "rest", "pen", "adc"}

PinTypes ==
  /\ route \in Pins /\ mux \in Pins
  /\ snapshot \in [Runs -> Pins \X Pins]
  /\ result \in [Runs -> {0, 1}]
  /\ sample \in [Runs -> Zones \cup {"INVALID", "CLEAN", "DIRTY"}]

ClockFn == clock_was_gated = [p \in Runs |-> clock_was_gated[p]]

Original == route = "original" /\ mux = "original"

PinsInv ==
  ~unclean =>
    /\ flock = {} => Original
    /\ \A p \in Runs :
         /\ pc[p] \in {"setup", "clock", "first_rest", "restore_clock",
                       "close"} => Original
         /\ pc[p] \in Working \ {"setup", "close"} =>
              snapshot[p] = <<"original", "original">>

RestoredInv ==
  \A p \in Runs :
    /\ pc[p] # "close" => result[p] = 1
    /\ pc[p] = "restore_clock" => <<route, mux>> = snapshot[p] /\ adc = "idle"
    /\ pc[p] = "close" /\ result[p] = 0 =>
         /\ <<route, mux>> = snapshot[p]
         /\ gated = clock_was_gated[p] /\ adc = "idle"

IdleInv ==
  \A p \in Runs :
    /\ pc[p] \in {"loop", "pen", "pen_read", "adc_route", "adc_start", "act"}
         => adc = "idle"
    /\ pc[p] = "unmask" /\ sample[p] # "DIRTY" => adc = "idle"

HwInv == PinTypes /\ ClockFn /\ PinsInv /\ RestoredInv /\ IdleInv

\* Two runs are not at work at once.
LEMMA Exclusive ==
  ASSUME LockInv, NEW p \in Runs, NEW q \in Runs, p # q, pc[p] \in Working
  PROVE  pc[q] \notin Working
  BY DEF LockInv

\* Acting on a sample leaves the hardware and what was saved of it alone.
LEMMA ActSteps ==
  ASSUME NEW p \in Runs, Act(p)
  PROVE  /\ UNCHANGED <<flock, hwVars, snapshot, clock_was_gated, result,
                        unclean, sample>>
         /\ pc[p] = "act"
         /\ Goto(p, "loop") \/ Goto(p, "stopping")
  BY DEF Act, NoContact, Held, Touch, Contact, ActUnchanged, exitVars

\* Every step of a run keeps the types.
LEMMA RunKeepsTypes ==
  ASSUME PinTypes, NEW p \in Runs, Main(p) \/ Stop(p) \/ Kill(p)
  PROVE  PinTypes'
<1> USE DEF PinTypes, Pins, Set, hwVars, exitVars
<1>1. CASE open_x(p)
  BY <1>1 DEF open_x
<1>2. CASE acquire_lock(p)
  <2>1. CASE flock # {}
    <3>1. Exit(p) /\ UNCHANGED hwVars /\ pc[p] = "lock"
      BY <1>2, <2>1 DEF acquire_lock
    <3>2. QED
      BY <3>1 DEF Exit
  <2>2. CASE flock = {}
    BY <1>2, <2>2 DEF acquire_lock
  <2>3. QED
    BY <2>1, <2>2
<1>3. CASE capture_pfc(p)
  BY <1>3 DEF capture_pfc
<1>4. CASE open_adc_clock(p)
  BY <1>4 DEF open_adc_clock
<1>5. CASE FirstRest(p)
  BY <1>5 DEF FirstRest, Rested, RestFails
<1>6. CASE LoopHead(p)
  BY <1>6 DEF LoopHead
<1>7. CASE PenRoute(p)
  BY <1>7 DEF PenRoute
<1>8. CASE read_pen(p)
  BY <1>8 DEF read_pen
<1>9. CASE AdcRest(p)
  BY <1>9 DEF AdcRest, AdcUnchanged, Rested, RestFails
<1>10. CASE AdcRoute(p)
  BY <1>10 DEF AdcRoute, AdcUnchanged
<1>11. CASE AdcStart(p)
  BY <1>11 DEF AdcStart, AdcUnchanged
<1>12. CASE AdcDone(p)
  BY <1>12 DEF AdcDone, AdcUnchanged, Rested
<1>13. CASE AdcTimeout(p)
  BY <1>13 DEF AdcTimeout, AdcUnchanged
<1>14. CASE emergency_abort_idle(p)
  BY <1>14 DEF emergency_abort_idle, AdcUnchanged, Rested, RestFails
<1>15. CASE Unmask(p)
  BY <1>15 DEF Unmask
<1>16. CASE Act(p)
  BY <1>16, ActSteps DEF hwVars
<1>17. CASE ReleaseHeld(p)
  BY <1>17 DEF ReleaseHeld
<1>18. CASE GiveUp(p)
  BY <1>18 DEF GiveUp, Rested
<1>19. CASE restore_pfc(p)
  BY <1>19 DEF restore_pfc
<1>20. CASE restore_adc_clock(p)
  BY <1>20 DEF restore_adc_clock
<1>21. CASE Close(p)
  BY <1>21 DEF Close, Exit
<1>22. CASE Kill(p)
  BY <1>22 DEF Kill, Exit
<1>23. CASE Stop(p)
  BY <1>23 DEF Stop
<1>24. QED
  BY <1>1, <1>2, <1>3, <1>4, <1>5, <1>6, <1>7, <1>8, <1>9, <1>10, <1>11,
     <1>12, <1>13, <1>14, <1>15, <1>16, <1>17, <1>18, <1>19, <1>20, <1>21,
     <1>22, <1>23 DEF Main, Poll

\* Every step of a run keeps clock_was_gated a function on the runs.
LEMMA RunKeepsClockFn ==
  ASSUME ClockFn, NEW p \in Runs, Main(p) \/ Stop(p) \/ Kill(p)
  PROVE  ClockFn'
<1> USE DEF ClockFn, Set, exitVars
<1>1. CASE open_x(p)
  BY <1>1 DEF open_x
<1>2. CASE acquire_lock(p)
  BY <1>2 DEF acquire_lock, Exit
<1>3. CASE capture_pfc(p)
  BY <1>3 DEF capture_pfc
<1>4. CASE open_adc_clock(p)
  BY <1>4 DEF open_adc_clock
<1>5. CASE FirstRest(p)
  BY <1>5 DEF FirstRest, Rested, RestFails
<1>6. CASE LoopHead(p)
  BY <1>6 DEF LoopHead
<1>7. CASE PenRoute(p)
  BY <1>7 DEF PenRoute
<1>8. CASE read_pen(p)
  BY <1>8 DEF read_pen
<1>9. CASE AdcRest(p)
  BY <1>9 DEF AdcRest, AdcUnchanged, Rested, RestFails
<1>10. CASE AdcRoute(p)
  BY <1>10 DEF AdcRoute, AdcUnchanged
<1>11. CASE AdcStart(p)
  BY <1>11 DEF AdcStart, AdcUnchanged
<1>12. CASE AdcDone(p)
  BY <1>12 DEF AdcDone, AdcUnchanged, Rested
<1>13. CASE AdcTimeout(p)
  BY <1>13 DEF AdcTimeout, AdcUnchanged
<1>14. CASE emergency_abort_idle(p)
  BY <1>14 DEF emergency_abort_idle, AdcUnchanged, Rested, RestFails
<1>15. CASE Unmask(p)
  BY <1>15 DEF Unmask
<1>16. CASE Act(p)
  BY <1>16, ActSteps DEF hwVars
<1>17. CASE ReleaseHeld(p)
  BY <1>17 DEF ReleaseHeld
<1>18. CASE GiveUp(p)
  BY <1>18 DEF GiveUp, Rested
<1>19. CASE restore_pfc(p)
  BY <1>19 DEF restore_pfc
<1>20. CASE restore_adc_clock(p)
  BY <1>20 DEF restore_adc_clock
<1>21. CASE Close(p)
  BY <1>21 DEF Close, Exit
<1>22. CASE Kill(p)
  BY <1>22 DEF Kill, Exit
<1>23. CASE Stop(p)
  BY <1>23 DEF Stop
<1>24. QED
  BY <1>1, <1>2, <1>3, <1>4, <1>5, <1>6, <1>7, <1>8, <1>9, <1>10, <1>11,
     <1>12, <1>13, <1>14, <1>15, <1>16, <1>17, <1>18, <1>19, <1>20, <1>21,
     <1>22, <1>23 DEF Main, Poll

\* Every step of a run keeps the ADC idle where IdleInv says so.
LEMMA RunKeepsIdle ==
  ASSUME LockInv, PinTypes, IdleInv, NEW p \in Runs,
     Main(p) \/ Stop(p) \/ Kill(p)
  PROVE  IdleInv'
<1> USE DEF IdleInv, PinTypes, Working, Labels, LockInv, Goto, Set, hwVars,
   exitVars
<1>0. \A q \in Runs : pc[p] \in Working /\ q # p => pc[q] \notin Working
  BY Exclusive
<1>1. CASE open_x(p)
  BY <1>0, <1>1 DEF open_x
<1>2. CASE acquire_lock(p)
  BY <1>0, <1>2 DEF acquire_lock, Exit
<1>3. CASE capture_pfc(p)
  BY <1>0, <1>3 DEF capture_pfc
<1>4. CASE open_adc_clock(p)
  BY <1>0, <1>4 DEF open_adc_clock
<1>5. CASE FirstRest(p)
  BY <1>0, <1>5 DEF FirstRest, Rested, RestFails
<1>6. CASE LoopHead(p)
  BY <1>0, <1>6 DEF LoopHead
<1>7. CASE PenRoute(p)
  BY <1>0, <1>7 DEF PenRoute
<1>8. CASE read_pen(p)
  BY <1>0, <1>8 DEF read_pen
<1>9. CASE AdcRest(p)
  BY <1>0, <1>9 DEF AdcRest, AdcUnchanged, Rested, RestFails
<1>10. CASE AdcRoute(p)
  BY <1>0, <1>10 DEF AdcRoute, AdcUnchanged
<1>11. CASE AdcStart(p)
  BY <1>0, <1>11 DEF AdcStart, AdcUnchanged
<1>12. CASE AdcDone(p)
  BY <1>0, <1>12 DEF AdcDone, AdcUnchanged, Rested
<1>13. CASE AdcTimeout(p)
  BY <1>0, <1>13 DEF AdcTimeout, AdcUnchanged
<1>14. CASE emergency_abort_idle(p)
  BY <1>0, <1>14 DEF emergency_abort_idle, AdcUnchanged, Rested, RestFails
<1>15. CASE Unmask(p)
  BY <1>0, <1>15 DEF Unmask
<1>16. CASE Act(p)
  BY <1>0, <1>16, ActSteps DEF hwVars
<1>17. CASE ReleaseHeld(p)
  BY <1>0, <1>17 DEF ReleaseHeld
<1>18. CASE GiveUp(p)
  BY <1>0, <1>18 DEF GiveUp, Rested
<1>19. CASE restore_pfc(p)
  BY <1>0, <1>19 DEF restore_pfc
<1>20. CASE restore_adc_clock(p)
  BY <1>0, <1>20 DEF restore_adc_clock
<1>21. CASE Close(p)
  BY <1>0, <1>21 DEF Close, Exit
<1>22. CASE Kill(p)
  BY <1>0, <1>22 DEF Kill, Exit
<1>23. CASE Stop(p)
  BY <1>0, <1>23 DEF Stop
<1>24. QED
  BY <1>1, <1>2, <1>3, <1>4, <1>5, <1>6, <1>7, <1>8, <1>9, <1>10, <1>11,
     <1>12, <1>13, <1>14, <1>15, <1>16, <1>17, <1>18, <1>19, <1>20, <1>21,
     <1>22, <1>23 DEF Main, Poll

\* While a run polls, it may move the pins as it likes: nothing is promised of
\* them before it restores them, as long as its snapshot is kept.
LEMMA PollKeepsPins ==
  ASSUME LockInv, PinsInv, NEW p \in Runs,
     NEW here \in Working \ {"setup", "close"},
     NEW there \in Working \ {"setup", "clock", "first_rest",
                              "restore_clock", "close"},
     pc[p] = here, Goto(p, there), UNCHANGED <<flock, snapshot, unclean>>
  PROVE  PinsInv'
<1>0. flock = {p} /\ \A q \in Runs : q # p => pc[q] \notin Working
  BY Exclusive DEF LockInv
<1>1. pc'[p] = there /\ \A q \in Runs : q # p => pc'[q] \notin Working
  BY <1>0 DEF Goto, Set, LockInv
<1>2. SUFFICES ASSUME ~unclean, NEW q \in Runs
               PROVE  /\ flock # {}
                      /\ pc'[q] \notin {"setup", "clock", "first_rest",
                                        "restore_clock", "close"}
                      /\ pc'[q] \in Working \ {"setup", "close"} =>
                           snapshot[q] = <<"original", "original">>
  BY DEF PinsInv
<1>3. CASE q = p
  BY <1>0, <1>1, <1>2, <1>3 DEF PinsInv
<1>4. CASE q # p
  BY <1>0, <1>1, <1>4 DEF Working, Labels
<1>5. QED
  BY <1>3, <1>4

\* Every step of a run keeps PinsInv.
LEMMA RunKeepsPins ==
  ASSUME LockInv, PinTypes, PinsInv, NEW p \in Runs,
     Main(p) \/ Stop(p) \/ Kill(p)
  PROVE  PinsInv'
<1> USE DEF PinsInv, Original, PinTypes, Working, Labels, LockInv, Goto, Set,
   hwVars, exitVars
<1>0. \A q \in Runs : pc[p] \in Working /\ q # p => pc[q] \notin Working
  BY Exclusive
<1>1. CASE open_x(p)
  BY <1>0, <1>1 DEF open_x
<1>2. CASE acquire_lock(p)
  <2>1. CASE flock # {}
    <3>1. Exit(p) /\ UNCHANGED <<hwVars, unclean>> /\ pc[p] = "lock"
      BY <1>2, <2>1 DEF acquire_lock
    <3>2. flock' # {}
      BY <2>1, <3>1 DEF Exit
    <3>3. QED
      BY <1>0, <3>1, <3>2 DEF Exit
  <2>2. CASE flock = {}
    BY <1>0, <1>2, <2>2 DEF acquire_lock
  <2>3. QED
    BY <2>1, <2>2
<1>3. CASE capture_pfc(p)
  BY <1>0, <1>3 DEF capture_pfc
<1>4. CASE open_adc_clock(p)
  BY <1>0, <1>4 DEF open_adc_clock
<1>5. CASE FirstRest(p)
  <2>1. CASE unclean'
    BY <2>1
  <2>2. CASE ~unclean'
    <3>1. /\ pc[p] = "first_rest" /\ UNCHANGED <<flock, snapshot, unclean>>
          /\ Goto(p, "loop") \/ Goto(p, "shutdown")
      BY <1>5, <2>2 DEF FirstRest
    <3>2. QED
      BY ONLY LockInv, PinsInv, <3>1, PollKeepsPins DEF Working, Labels
  <2>3. QED
    BY <2>1, <2>2
<1>6. CASE LoopHead(p)
  BY <1>0, <1>6 DEF LoopHead
<1>7. CASE PenRoute(p)
  BY <1>0, <1>7 DEF PenRoute
<1>8. CASE read_pen(p)
  <2>1. /\ pc[p] = "pen_read" /\ UNCHANGED <<flock, snapshot, unclean>>
        /\ Goto(p, "unmask") \/ Goto(p, "adc_rest")
    BY <1>8 DEF read_pen
  <2>2. QED
    BY ONLY LockInv, PinsInv, <2>1, PollKeepsPins DEF Working, Labels
<1>9. CASE AdcRest(p)
  <2>1. /\ pc[p] = "adc_rest" /\ UNCHANGED <<flock, snapshot, unclean>>
        /\ Goto(p, "adc_route") \/ Goto(p, "unmask")
    BY <1>9 DEF AdcRest, AdcUnchanged
  <2>2. QED
    BY ONLY LockInv, PinsInv, <2>1, PollKeepsPins DEF Working, Labels
<1>10. CASE AdcRoute(p)
  BY <1>0, <1>10 DEF AdcRoute, AdcUnchanged
<1>11. CASE AdcStart(p)
  BY <1>0, <1>11 DEF AdcStart, AdcUnchanged
<1>12. CASE AdcDone(p)
  BY <1>0, <1>12 DEF AdcDone, AdcUnchanged, Rested
<1>13. CASE AdcTimeout(p)
  BY <1>0, <1>13 DEF AdcTimeout, AdcUnchanged
<1>14. CASE emergency_abort_idle(p)
  <2>1. /\ pc[p] = "abort" /\ UNCHANGED <<flock, snapshot, unclean>>
        /\ Goto(p, "unmask")
    BY <1>14 DEF emergency_abort_idle, AdcUnchanged
  <2>2. QED
    BY ONLY LockInv, PinsInv, <2>1, PollKeepsPins DEF Working, Labels
<1>15. CASE Unmask(p)
  BY <1>0, <1>15 DEF Unmask
<1>16. CASE Act(p)
  BY <1>0, <1>16, ActSteps DEF hwVars
<1>17. CASE ReleaseHeld(p)
  BY <1>0, <1>17 DEF ReleaseHeld
<1>18. CASE GiveUp(p)
  BY <1>0, <1>18 DEF GiveUp, Rested
<1>19. CASE restore_pfc(p)
  BY <1>0, <1>19 DEF restore_pfc
<1>20. CASE restore_adc_clock(p)
  BY <1>0, <1>20 DEF restore_adc_clock
<1>21. CASE Close(p)
  BY <1>0, <1>21 DEF Close, Exit
<1>22. CASE Kill(p)
  BY <1>0, <1>22 DEF Kill, Exit
<1>23. CASE Stop(p)
  BY <1>0, <1>23 DEF Stop
<1>24. QED
  BY <1>1, <1>2, <1>3, <1>4, <1>5, <1>6, <1>7, <1>8, <1>9, <1>10, <1>11,
     <1>12, <1>13, <1>14, <1>15, <1>16, <1>17, <1>18, <1>19, <1>20, <1>21,
     <1>22, <1>23 DEF Main, Poll

\* Every step of a run keeps RestoredInv.
LEMMA RunKeepsRestored ==
  ASSUME LockInv, PinTypes, ClockFn, RestoredInv, NEW p \in Runs,
     Main(p) \/ Stop(p) \/ Kill(p)
  PROVE  RestoredInv'
<1> USE DEF RestoredInv, PinTypes, Working, Labels, LockInv, Goto, Set,
   hwVars, exitVars
<1>0. \A q \in Runs : pc[p] \in Working /\ q # p => pc[q] \notin Working
  BY Exclusive
<1>1. CASE open_x(p)
  BY <1>0, <1>1 DEF open_x
<1>2. CASE acquire_lock(p)
  <2>1. CASE flock # {}
    <3>1. Exit(p) /\ UNCHANGED hwVars /\ pc[p] = "lock"
      BY <1>2, <2>1 DEF acquire_lock
    <3>2. QED
      BY <1>0, <3>1 DEF Exit
  <2>2. CASE flock = {}
    BY <1>0, <1>2, <2>2 DEF acquire_lock
  <2>3. QED
    BY <2>1, <2>2
<1>3. CASE capture_pfc(p)
  BY <1>0, <1>3 DEF capture_pfc
<1>4. CASE open_adc_clock(p)
  BY <1>0, <1>4 DEF open_adc_clock
<1>5. CASE FirstRest(p)
  BY <1>0, <1>5 DEF FirstRest, Rested, RestFails
<1>6. CASE LoopHead(p)
  BY <1>0, <1>6 DEF LoopHead
<1>7. CASE PenRoute(p)
  BY <1>0, <1>7 DEF PenRoute
<1>8. CASE read_pen(p)
  BY <1>0, <1>8 DEF read_pen
<1>9. CASE AdcRest(p)
  BY <1>0, <1>9 DEF AdcRest, AdcUnchanged, Rested, RestFails
<1>10. CASE AdcRoute(p)
  BY <1>0, <1>10 DEF AdcRoute, AdcUnchanged
<1>11. CASE AdcStart(p)
  BY <1>0, <1>11 DEF AdcStart, AdcUnchanged
<1>12. CASE AdcDone(p)
  BY <1>0, <1>12 DEF AdcDone, AdcUnchanged, Rested
<1>13. CASE AdcTimeout(p)
  BY <1>0, <1>13 DEF AdcTimeout, AdcUnchanged
<1>14. CASE emergency_abort_idle(p)
  BY <1>0, <1>14 DEF emergency_abort_idle, AdcUnchanged, Rested, RestFails
<1>15. CASE Unmask(p)
  BY <1>0, <1>15 DEF Unmask
<1>16. CASE Act(p)
  BY <1>0, <1>16, ActSteps DEF hwVars
<1>17. CASE ReleaseHeld(p)
  BY <1>0, <1>17 DEF ReleaseHeld
<1>18. CASE GiveUp(p)
  BY <1>0, <1>18 DEF GiveUp, Rested
<1>19. CASE restore_pfc(p)
  BY <1>0, <1>19 DEF restore_pfc
<1>20. CASE restore_adc_clock(p)
  BY <1>0, <1>20 DEF restore_adc_clock
<1>21. CASE Close(p)
  BY <1>0, <1>21 DEF Close, Exit
<1>22. CASE Kill(p)
  BY <1>0, <1>22 DEF Kill, Exit
<1>23. CASE Stop(p)
  BY <1>0, <1>23 DEF Stop
<1>24. QED
  BY <1>1, <1>2, <1>3, <1>4, <1>5, <1>6, <1>7, <1>8, <1>9, <1>10, <1>11,
     <1>12, <1>13, <1>14, <1>15, <1>16, <1>17, <1>18, <1>19, <1>20, <1>21,
     <1>22, <1>23 DEF Main, Poll

\* Every step of every run, of X and of the ADC keeps the lock and the
\* hardware.
LEMMA HwNext ==
  ASSUME LockInv, HwInv, [Next]_vars
  PROVE  LockInv' /\ HwInv'
<1>1. ASSUME NEW p \in Runs, Main(p) \/ Stop(p) \/ Kill(p)
      PROVE  LockInv' /\ HwInv'
  BY <1>1, RunKeepsLock, RunKeepsTypes, RunKeepsClockFn, RunKeepsPins,
     RunKeepsRestored, RunKeepsIdle DEF HwInv
<1>2. CASE /\ UNCHANGED <<pc, flock, route, mux, gated, snapshot,
                          clock_was_gated, result, sample, unclean>>
           /\ adc' \in {adc, "idle"}
  BY <1>2 DEF LockInv, HwInv, PinTypes, ClockFn, PinsInv, Original,
              RestoredInv, IdleInv
<1>3. CASE XDies \/ AdcSettles
  BY <1>2, <1>3 DEF XDies, AdcSettles, hwVars, exitVars, xVars
<1>4. CASE UNCHANGED vars
  BY <1>2, <1>4 DEF vars, hwVars, exitVars
<1>5. QED
  BY <1>1, <1>3, <1>4 DEF Next

\* The helper starts with the lock free and the hardware as found.
LEMMA HwInit == Init => LockInv /\ HwInv
  BY DEF Init, LockInv, Labels, Working, HwInv, PinTypes, Pins, ClockFn,
         PinsInv, Original, RestoredInv, IdleInv

\* The lock and the hardware, over every step of every run, of X and of the
\* ADC.
THEOREM HwInductive == Spec => [](LockInv /\ HwInv)
<1>1. LockInv /\ HwInv /\ [Next]_vars => (LockInv /\ HwInv)'
  BY HwNext
<1>2. QED
  BY <1>1, HwInit, PTL DEF Spec

\* When nobody holds the lock the firmware's pins are in place, unless a run
\* was killed or gave the hardware up; a run with status 0 put everything
\* back.
THEOREM HardwareAlwaysRestored == Spec => []HardwareRestored
<1>1. LockInv /\ HwInv => HardwareRestored
  BY DEF HwInv, PinsInv, Original, RestoredInv, HardwareRestored
<1>2. QED
  BY <1>1, HwInductive, PTL

SafeMove == <<route, mux>>' # <<route, mux>> => adc' = "idle"

\* The steps that move the pins either wait for the ADC or run where IdleInv
\* holds.
LEMMA MovesWhenIdle ==
  ASSUME HwInv, Next
  PROVE  SafeMove
<1> USE DEF SafeMove
<1>1. ASSUME NEW p \in Runs, Poll(p) PROVE SafeMove
  BY <1>1 DEF Poll, PenRoute, read_pen, AdcRest, AdcRoute, AdcStart, AdcDone,
              AdcTimeout, emergency_abort_idle, Unmask, Rested, RestFails,
              hwVars, HwInv, IdleInv
<1>2. ASSUME NEW p \in Runs, Act(p) PROVE SafeMove
  BY <1>2, ActSteps DEF hwVars
<1>3. ASSUME NEW p \in Runs,
             open_x(p) \/ acquire_lock(p) \/ capture_pfc(p)
             \/ open_adc_clock(p) \/ LoopHead(p) \/ ReleaseHeld(p)
      PROVE  SafeMove
  BY <1>3 DEF open_x, acquire_lock, capture_pfc, open_adc_clock, LoopHead,
              ReleaseHeld, hwVars
<1>4. ASSUME NEW p \in Runs, FirstRest(p) \/ GiveUp(p) \/ restore_pfc(p)
      PROVE  SafeMove
  BY <1>4 DEF FirstRest, GiveUp, restore_pfc, Rested, RestFails, hwVars
<1>5. ASSUME NEW p \in Runs,
             restore_adc_clock(p) \/ Close(p) \/ Stop(p) \/ Kill(p)
      PROVE  SafeMove
  BY <1>5 DEF restore_adc_clock, Close, Stop, Kill, hwVars
<1>6. CASE XDies \/ AdcSettles
  BY <1>6 DEF XDies, AdcSettles, hwVars
<1>7. QED
  BY <1>1, <1>2, <1>3, <1>4, <1>5, <1>6 DEF Next, Main

\* The pins are moved only while the ADC is idle.
THEOREM PinsOnlyMoveWhenIdle == Spec => PinsMoveWhenIdle
<1>1. LockInv /\ HwInv /\ [Next]_vars => [SafeMove]_vars
  BY MovesWhenIdle
<1>2. QED
  BY <1>1, HwInductive, PTL DEF Spec, PinsMoveWhenIdle, SafeMove

-----------------------------------------------------------------------------
(* The buttons.  While no run was killed and no request refused, whatever  *)
(* X holds down was pressed by the one run that is past its setup and has  *)
(* not yet released its zone, and that run is still connected.             *)

Holding == Working \ {"setup", "clock", "first_rest", "restore",
                      "restore_clock", "close"}

ClickInv ==
  /\ DOMAIN active = Runs /\ DOMAIN conn = Runs
  /\ "none" \notin xdown
  /\ \/ untold
     \/ \A b \in xdown : \E p \in Runs :
          pc[p] \in Holding /\ conn[p] /\ Button(active[p]) = b

\* Before a run acts, X holds down at most the button of its active zone, and
\* none when the run has lost its connection.
LEMMA OnlyItsButton ==
  ASSUME LockInv, ClickInv, NEW p \in Runs, pc[p] \in Working,
         ~untold
  PROVE  /\ \A b \in xdown : b = Button(active[p])
         /\ ~conn[p] => xdown = {}
         /\ pc[p] \notin Holding => xdown = {}
<1>1. \A q \in Runs : q # p => pc[q] \notin Holding
  BY Exclusive DEF Holding
<1>2. QED
  BY <1>1 DEF ClickInv

\* Steps that touch neither X nor the active zone, and keep a holding run
\* holding.
LEMMA ClickFrame ==
  ASSUME ClickInv, UNCHANGED <<conn, xdown, active, untold>>,
         \A q \in Runs : pc[q] \in Holding => pc'[q] \in Holding
  PROVE  ClickInv'
  BY DEF ClickInv

\* A step with a failed request.
LEMMA ClickRefused ==
  ASSUME LockInv, ClickInv, NEW p \in Runs, pc[p] \in Working,
         RequestFails(p), UNCHANGED conn,
         DOMAIN active' = Runs
  PROVE  ClickInv'
<1>1. CASE conn[p] \/ untold
  <2>1. untold'
    BY <1>1, Zenon DEF RequestFails
  <2>2. QED
    BY <2>1 DEF ClickInv, RequestFails
<1>2. CASE ~conn[p] /\ ~untold
  <2>1. xdown = {}
    BY <1>2, OnlyItsButton
  <2>2. QED
    BY <2>1 DEF ClickInv, RequestFails
<1>3. QED
  BY <1>1, <1>2

\* A step with a release that X took.
LEMMA ClickReleased ==
  ASSUME LockInv, ClickInv, NEW p \in Runs, pc[p] \in Working,
         Release(p, Button(active[p])), UNCHANGED conn,
         DOMAIN active' = Runs
  PROVE  ClickInv'
<1>1. CASE untold
  BY <1>1 DEF ClickInv, Release
<1>2. CASE ~untold
  <2>1. xdown' = {}
    BY <1>2, OnlyItsButton DEF Release
  <2>2. QED
    BY <2>1 DEF ClickInv
<1>3. QED
  BY <1>1, <1>2

\* A press that X took is held by the run that made it.
LEMMA ClickPressed ==
  ASSUME LockInv, ClickInv, NEW p \in Runs, pc[p] \in Holding,
         Press(p, Button(active'[p])), UNCHANGED conn,
         DOMAIN active' = Runs, active[p] = "NONE", pc'[p] \in Holding
  PROVE  ClickInv'
<1>1. CASE untold
  BY <1>1 DEF ClickInv, Press
<1>2. CASE ~untold
  <2>1. xdown = {}
    BY <1>2, OnlyItsButton DEF Holding, ClickInv, Button
  <2>2. QED
    BY <2>1 DEF ClickInv, Press
<1>3. QED
  BY <1>1, <1>2

\* Acting on a sample keeps ClickInv.
LEMMA ActKeepsClick ==
  ASSUME LockInv, ClickInv, NEW p \in Runs, Act(p)
  PROVE  ClickInv'
<1>1. /\ UNCHANGED conn /\ pc[p] = "act"
      /\ Goto(p, "loop") \/ Goto(p, "stopping")
  BY ActSteps DEF Act, NoContact, Held, Touch, ActUnchanged
<1>2. /\ pc[p] \in Working /\ pc[p] \in Holding /\ pc'[p] \in Holding
      /\ "loop" \in Holding /\ "stopping" \in Holding
  BY <1>1 DEF Goto, Set, Holding, Working, Labels, LockInv
<1>3. CASE UNCHANGED <<xdown, active, untold>>
  <2>1. \A q \in Runs : pc[q] \in Holding => pc'[q] \in Holding
    BY <1>1, <1>2 DEF Goto, Set, LockInv
  <2>2. QED
    BY <1>1, <1>3, <2>1, ClickFrame
<1>4. CASE NoContact(p)
  <2>1. \/ UNCHANGED <<xdown, active, untold>>
        \/ Release(p, Button(active[p])) /\ active' = Set(active, p, "NONE")
        \/ RequestFails(p) /\ UNCHANGED active
    BY <1>4 DEF NoContact
  <2>2. DOMAIN active' = Runs
    BY <2>1 DEF Set, ClickInv
  <2>3. QED
    BY <1>1, <1>2, <1>3, <2>1, <2>2, ClickReleased, ClickRefused
<1>5. CASE Held(p)
  <2>1. \/ UNCHANGED <<xdown, active, untold>>
        \/ RequestFails(p) /\ UNCHANGED active
    BY <1>5 DEF Held, RequestFails
  <2>2. QED
    BY <1>1, <1>2, <1>3, <2>1, ClickRefused DEF ClickInv
<1>6. ASSUME NEW near \in BOOLEAN, Touch(p, near) PROVE ClickInv'
  <2>1. /\ active[p] = "NONE"
        /\ \/ UNCHANGED <<xdown, active, untold>>
           \/ /\ active' = Set(active, p, sample[p])
              /\ Press(p, Button(sample[p])) \/ RequestFails(p)
    BY <1>6 DEF Touch
  <2>2. CASE active' = Set(active, p, sample[p])
    <3>1. DOMAIN active' = Runs /\ active'[p] = sample[p]
      BY <2>2 DEF Set, ClickInv
    <3>2. QED
      BY <1>1, <1>2, <1>3, <2>1, <3>1, ClickPressed, ClickRefused
  <2>3. QED
    BY <1>3, <2>1, <2>2
<1>7. QED
  BY <1>4, <1>5, <1>6 DEF Act

\* Every step of a run, and every signal, keeps ClickInv.
LEMMA RunKeepsClick ==
  ASSUME LockInv, ClickInv, NEW p \in Runs, Main(p) \/ Stop(p) \/ Kill(p)
  PROVE  ClickInv'
<1>1. CASE open_x(p)
  <2>1. CASE UNCHANGED <<conn, xdown>>
    <3>1. UNCHANGED <<active, untold>>
      BY <1>1 DEF open_x, padVars, exitVars
    <3>2. \A q \in Runs : pc[q] \in Holding => pc'[q] \in Holding
      BY <1>1 DEF open_x, Holding, Working, Labels, LockInv, Goto, Set
    <3>3. QED
      BY <2>1, <3>1, <3>2, ClickFrame
  <2>2. CASE conn' = Set(conn, p, TRUE) /\ xdown' = {}
    BY <1>1, <2>2 DEF open_x, ClickInv, Set, padVars
  <2>3. QED
    BY <1>1, <2>1, <2>2 DEF open_x
<1>2. CASE acquire_lock(p) \/ Close(p)
  <2>1. pc[p] \in {"lock", "close"} /\ UNCHANGED <<xdown, untold>>
    BY <1>2 DEF acquire_lock, Close
  <2>2. /\ DOMAIN active' = Runs /\ DOMAIN conn' = Runs
        /\ \A q \in Runs \ {p} : active'[q] = active[q] /\ conn'[q] = conn[q]
                                   /\ pc'[q] = pc[q]
    BY <1>2 DEF acquire_lock, Close, Exit, Goto, Set, ClickInv, LockInv, padVars
  <2>3. pc[p] \notin Holding
    BY <2>1 DEF Holding, Working
  <2>4. QED
    BY <2>1, <2>2, <2>3 DEF ClickInv
<1>3. CASE capture_pfc(p) \/ open_adc_clock(p) \/ FirstRest(p)
  <2>1. UNCHANGED <<conn, xdown, active, untold>>
    BY <1>3 DEF capture_pfc, open_adc_clock, FirstRest, xVars, padVars
  <2>2. \A q \in Runs : pc[q] \in Holding => pc'[q] \in Holding
    BY <1>3 DEF capture_pfc, open_adc_clock, FirstRest, Holding,
       Working, Labels, LockInv, Goto, Set
  <2>3. QED
    BY <2>1, <2>2, ClickFrame
<1>4. CASE LoopHead(p) \/ PenRoute(p) \/ read_pen(p)
  <2>1. UNCHANGED <<conn, xdown, active, untold>>
    BY <1>4 DEF LoopHead, PenRoute, read_pen, xVars, padVars
  <2>2. \A q \in Runs : pc[q] \in Holding => pc'[q] \in Holding
    BY <1>4 DEF LoopHead, PenRoute, read_pen, Holding,
       Working, Labels, LockInv, Goto, Set
  <2>3. QED
    BY <2>1, <2>2, ClickFrame
<1>5. CASE AdcRest(p) \/ AdcRoute(p) \/ AdcStart(p)
  <2>1. UNCHANGED <<conn, xdown, active, untold>>
    BY <1>5 DEF AdcRest, AdcRoute, AdcStart, AdcUnchanged, xVars, padVars
  <2>2. \A q \in Runs : pc[q] \in Holding => pc'[q] \in Holding
    BY <1>5 DEF AdcRest, AdcRoute, AdcStart, AdcUnchanged, Holding,
       Working, Labels, LockInv, Goto, Set
  <2>3. QED
    BY <2>1, <2>2, ClickFrame
<1>6. CASE AdcDone(p) \/ AdcTimeout(p) \/ emergency_abort_idle(p) \/ Unmask(p)
  <2>1. UNCHANGED <<conn, xdown, active, untold>>
    BY <1>6 DEF AdcDone, AdcTimeout, emergency_abort_idle, Unmask, AdcUnchanged, xVars, padVars
  <2>2. \A q \in Runs : pc[q] \in Holding => pc'[q] \in Holding
    BY <1>6 DEF AdcDone, AdcTimeout, emergency_abort_idle, Unmask, AdcUnchanged, Holding,
       Working, Labels, LockInv, Goto, Set
  <2>3. QED
    BY <2>1, <2>2, ClickFrame
<1>7. CASE Act(p)
  BY <1>7, ActKeepsClick
<1>8. CASE ReleaseHeld(p)
  <2>1. /\ pc[p] \in Working /\ UNCHANGED <<conn, active>>
        /\ Release(p, Button(active[p])) \/ RequestFails(p)
    BY <1>8 DEF ReleaseHeld, Working, Labels, padVars
  <2>2. QED
    BY <2>1, ClickReleased, ClickRefused DEF ClickInv
<1>9. CASE GiveUp(p) \/ restore_pfc(p) \/ restore_adc_clock(p)
  <2>1. UNCHANGED <<conn, xdown, active, untold>>
    BY <1>9 DEF GiveUp, restore_pfc, restore_adc_clock, xVars, padVars
  <2>2. \A q \in Runs : pc[q] \in Holding => pc'[q] \in Holding
    BY <1>9 DEF GiveUp, restore_pfc, restore_adc_clock, Holding,
       Working, Labels, LockInv, Goto, Set
  <2>3. QED
    BY <2>1, <2>2, ClickFrame
<1>10. CASE Stop(p)
  BY <1>10 DEF Stop, ClickInv, LockInv, Holding, Working, Labels, Goto, Set,
     xVars, padVars, exitVars
<1>11. CASE Kill(p)
  BY <1>11 DEF Kill, Exit, ClickInv, Set
<1>12. QED
  BY <1>1, <1>2, <1>3, <1>4, <1>5, <1>6, <1>7, <1>8, <1>9, <1>10, <1>11
     DEF Main, Poll

\* Every step of every run, of X and of the ADC keeps ClickInv.
LEMMA ClickNext ==
  ASSUME LockInv, ClickInv, [Next]_vars
  PROVE  ClickInv'
<1>1. ASSUME NEW p \in Runs, Main(p) \/ Stop(p) \/ Kill(p)
      PROVE  ClickInv'
  BY <1>1, RunKeepsClick
<1>2. CASE XDies
  BY <1>2 DEF XDies, ClickInv, padVars
<1>3. CASE AdcSettles \/ UNCHANGED vars
  BY <1>3 DEF AdcSettles, vars, ClickInv, padVars, exitVars, xVars
<1>4. QED
  BY <1>1, <1>2, <1>3 DEF Next

\* What ClickInv says of the buttons X holds down.
LEMMA ClickInvHolds == ClickInv => NoStuckClick
  BY DEF ClickInv, NoStuckClick, Holding, Working

\* No exit path of any run forgets a button that X holds down, unless X
\* refused a request or a run was killed.
THEOREM NeverAStuckClick == Spec => []NoStuckClick
<1>1. Init => ClickInv
  BY DEF Init, ClickInv
<1>2. (LockInv /\ HwInv) /\ ClickInv /\ [Next]_vars => ClickInv'
  BY ClickNext
<1>3. QED
  BY <1>1, <1>2, ClickInvHolds, HwInductive, PTL DEF Spec

-----------------------------------------------------------------------------
(* The lock between the two programs.                                      *)

DiagLabels == {"none", "capture", "rest", "pen", "pen_read", "clock", "adc",
               "convert", "cleanup", "restore", "restore_clock", "close"}

\* A running tool holds the lock; one that does not run holds nothing.
DiagLock ==
  /\ dpc \in DiagLabels
  /\ dpc # "none" => flock = {Tool}
  /\ dpc = "none" => Tool \notin flock

\* While the tool has the lock no helper is at work.
LEMMA NobodyWorking ==
  ASSUME LockInv, flock = {Tool}, NEW p \in Runs
  PROVE  pc[p] \notin Working
  BY ToolAssumption DEF LockInv

\* While the tool has the lock, helpers start, wait, exit and are killed, but
\* touch neither the hardware nor the lock.
LEMMA HelperWaits ==
  ASSUME LockInv, flock = {Tool}, Next
  PROVE  /\ UNCHANGED <<flock, route, mux, gated>>
         /\ adc' \in {adc, "idle"}
         /\ unclean' = unclean \/ unclean' = TRUE
<1>1. ASSUME NEW p \in Runs, Main(p) \/ Stop(p) \/ Kill(p)
      PROVE  UNCHANGED <<flock, hwVars>>
             /\ (unclean' = unclean \/ unclean' = TRUE)
  <2>1. pc[p] \notin Working /\ p # Tool
    BY NobodyWorking, ToolAssumption
  <2>2. flock \ {p} = flock
    BY <2>1
  <2>3. CASE open_x(p) \/ acquire_lock(p)
    BY <2>2, <2>3 DEF open_x, acquire_lock, Exit, exitVars
  <2>4. CASE Stop(p) \/ Kill(p)
    BY <2>2, <2>4 DEF Stop, Kill, Exit, exitVars
  <2>5. ~(capture_pfc(p) \/ open_adc_clock(p) \/ FirstRest(p) \/ LoopHead(p))
    BY <2>1 DEF Working, Labels, capture_pfc, open_adc_clock, FirstRest,
                LoopHead
  <2>6. ~Poll(p)
    BY <2>1 DEF Working, Labels, Poll, PenRoute, read_pen, AdcRest, AdcRoute,
                AdcStart, AdcDone, AdcTimeout, emergency_abort_idle, Unmask
  <2>7. ~Act(p)
    BY <2>1, ActSteps DEF Working, Labels
  <2>8. ~(ReleaseHeld(p) \/ GiveUp(p) \/ restore_pfc(p)
          \/ restore_adc_clock(p) \/ Close(p))
    BY <2>1 DEF Working, Labels, ReleaseHeld, GiveUp, restore_pfc,
                restore_adc_clock, Close
  <2>9. QED
    BY <1>1, <2>3, <2>4, <2>5, <2>6, <2>7, <2>8 DEF Main
<1>2. CASE XDies \/ AdcSettles
  BY <1>2 DEF XDies, AdcSettles, hwVars, exitVars
<1>3. QED
  BY <1>1, <1>2 DEF Next, hwVars

\* A helper never takes the tool's place in the lock.
LEMMA HelperIsNotTool ==
  ASSUME Tool \notin flock, Next
  PROVE  Tool \notin flock'
<1>1. ASSUME NEW p \in Runs, Main(p) \/ Stop(p) \/ Kill(p)
      PROVE  Tool \notin flock'
  <2>1. CASE acquire_lock(p) \/ Close(p) \/ Kill(p)
    BY <2>1, ToolAssumption DEF acquire_lock, Close, Kill, Exit
  <2>2. CASE open_x(p) \/ capture_pfc(p) \/ open_adc_clock(p) \/ FirstRest(p)
             \/ LoopHead(p) \/ Stop(p)
    BY <2>2 DEF open_x, capture_pfc, open_adc_clock, FirstRest, LoopHead, Stop
  <2>3. CASE Poll(p)
    BY <2>3 DEF Poll, PenRoute, read_pen, AdcRest, AdcRoute, AdcStart, AdcDone,
                AdcTimeout, emergency_abort_idle, Unmask, AdcUnchanged
  <2>4. CASE Act(p)
    BY <2>4, ActSteps
  <2>5. CASE ReleaseHeld(p) \/ GiveUp(p) \/ restore_pfc(p)
             \/ restore_adc_clock(p)
    BY <2>5 DEF ReleaseHeld, GiveUp, restore_pfc, restore_adc_clock
  <2>6. QED
    BY <1>1, <2>1, <2>2, <2>3, <2>4, <2>5 DEF Main
<1>2. CASE XDies \/ AdcSettles
  BY <1>2 DEF XDies, AdcSettles
<1>3. QED
  BY <1>1, <1>2 DEF Next

\* The tool's steps respect the lock, and so does what the helpers do.
LEMMA DiagKeepsLock ==
  ASSUME LockInv, DiagLock, Diag
  PROVE  LockInv' /\ DiagLock'
<1> USE ToolAssumption DEF LockInv, DiagLock, DiagLabels, Then, At, helperVars
<1>1. CASE acquire_touch_lock
  BY <1>1 DEF acquire_touch_lock, Started
<1>2. CASE Capture \/ force_rest_high \/ RoutePen \/ ReadPen
  BY <1>2 DEF Capture, force_rest_high, RoutePen, ReadPen
<1>3. CASE OpenClock \/ adc_once \/ Convert \/ adc_cleanup
  BY <1>3 DEF OpenClock, adc_once, Convert, adc_cleanup
<1>4. CASE RestorePins \/ RestoreClock
  BY <1>4 DEF RestorePins, RestoreClock
<1>5. CASE CloseAll \/ DiagKill
  BY <1>5 DEF CloseAll, DiagKill, Gone
<1>6. QED
  BY <1>1, <1>2, <1>3, <1>4, <1>5 DEF Diag

-----------------------------------------------------------------------------
(* The hardware under the tool.                                            *)

\* The labels at which the tool has saved the pins and may have moved them.
PinsSaved ==
  \/ dpc \in {"rest", "pen", "pen_read", "adc", "convert", "cleanup", "restore"}
  \/ dpc = "clock" /\ command # "clock-on"

\* What was saved when, and that it is the firmware's routing unless
\* something was given up before.
SavedInv ==
  /\ dpc \in {"none", "capture"} => saved = <<>>
  /\ dpc \in {"clock", "restore_clock"} /\ command = "clock-on" => saved = <<>>
  /\ PinsSaved => saved \in Pins \X Pins /\ command # "clock-on"
  /\ ~unclean /\ PinsSaved => saved = <<"original", "original">>
  /\ ~unclean /\ dpc \notin {"none", "rest"} /\ ~PinsSaved => Original
  /\ ~unclean /\ dpc = "rest" => Original

\* The pins are back whenever the tool is about to say so.
PutBack ==
  dpc \in {"restore_clock", "close"} /\ good /\ saved # <<>> =>
    <<route, mux>> = saved

\* The clock and the ADC: nothing is attempted before open_adc_clock, and a
\* conversion that adc_once may have started is over before the restores.
BeforeClock == {"none", "capture", "rest", "pen", "pen_read", "clock"}
AdcInv ==
  /\ dpc \in BeforeClock => attempted = FALSE /\ accessed = FALSE
  /\ command = "clock-on" => accessed = FALSE
  /\ dpc \in {"restore", "restore_clock"} /\ accessed => adc = "idle"

\* Every step of the tool keeps what it saved and put back.
LEMMA DiagKeepsSaved ==
  ASSUME PinTypes, DiagLock, SavedInv, PutBack, PinsInv, Diag
  PROVE  SavedInv' /\ PutBack'
<1> USE DEF SavedInv, PutBack, PinTypes, Pins, PinsSaved, Original, Then, At,
            Asked, Flags
<1>1. CASE acquire_touch_lock
  BY <1>1 DEF acquire_touch_lock, Started, PinsInv, hwVars
<1>2. CASE Capture
  BY <1>2 DEF Capture, hwVars
<1>3. CASE force_rest_high \/ RoutePen \/ ReadPen
  BY <1>3 DEF force_rest_high, RoutePen, ReadPen
<1>4. CASE OpenClock
  BY <1>4 DEF OpenClock
<1>5. CASE adc_once
  BY <1>5 DEF adc_once, hwVars
<1>6. CASE Convert
  BY <1>6 DEF Convert
<1>7. CASE adc_cleanup
  BY <1>7 DEF adc_cleanup
<1>8. CASE RestorePins
  <2>1. /\ dpc = "restore" /\ dpc' \in {"restore_clock", "close"}
        /\ UNCHANGED <<saved, command>>
    BY <1>8 DEF RestorePins
  <2>2. \/ /\ route' = saved[1] /\ mux' = saved[2]
           /\ UNCHANGED <<unclean, good>>
        \/ unclean' = TRUE /\ good' = FALSE
    BY <1>8 DEF RestorePins
  <2>3. QED
    BY <2>1, <2>2
<1>9. CASE RestoreClock
  <2>1. /\ dpc = "restore_clock" /\ dpc' = "close"
        /\ UNCHANGED <<saved, route, mux>>
    BY <1>9 DEF RestoreClock
  <2>2. UNCHANGED <<unclean, good>> \/ (unclean' = TRUE /\ good' = FALSE)
    BY <1>9 DEF RestoreClock
  <2>3. QED
    BY <2>1, <2>2
<1>10. CASE CloseAll \/ DiagKill
  BY <1>10 DEF CloseAll, DiagKill, Gone
<1>11. QED
  BY <1>1, <1>2, <1>3, <1>4, <1>5, <1>6, <1>7, <1>8, <1>9, <1>10 DEF Diag

\* Every step of the tool keeps AdcInv.
LEMMA DiagKeepsAdc ==
  ASSUME DiagLock, AdcInv, SavedInv, Diag
  PROVE  AdcInv'
<1> USE DEF AdcInv, BeforeClock, Then, At, Asked, Flags
<1>1. CASE acquire_touch_lock
  BY <1>1 DEF acquire_touch_lock, Started
<1>2. CASE Capture \/ force_rest_high \/ RoutePen \/ ReadPen
  BY <1>2 DEF Capture, force_rest_high, RoutePen, ReadPen
<1>4. CASE OpenClock
  <2>1. CASE command = "clock-on"
    <3>1. accessed' = FALSE
      <4>1. \/ accessed' = (command = "adc-once")
            \/ accessed' = accessed
        BY <1>4, Zenon DEF OpenClock
      <4>2. (command = "adc-once") = FALSE
        BY <2>1
      <4>3. accessed = FALSE
        BY <2>1
      <4>4. QED
        BY <4>1, <4>2, <4>3, Zenon
    <3>2. dpc' = "restore_clock"
      BY <1>4, <2>1 DEF OpenClock
    <3>3. QED
      BY <3>1, <3>2
  <2>2. CASE command # "clock-on"
    <3>0. UNCHANGED command
      BY <1>4 DEF OpenClock
    <3>1. \/ dpc' = "adc"
          \/ dpc' = "restore" /\ UNCHANGED accessed
      BY <1>4, <2>2 DEF OpenClock
    <3>2. dpc = "clock"
      BY <1>4 DEF OpenClock
    <3>3. QED
      BY <2>2, <3>0, <3>1, <3>2
  <2>3. QED
    BY <2>1, <2>2
<1>5. CASE adc_once \/ Convert \/ adc_cleanup
  BY <1>5 DEF adc_once, Convert, adc_cleanup
<1>8. CASE RestorePins \/ RestoreClock
  BY <1>8 DEF RestorePins, RestoreClock
<1>10. CASE CloseAll \/ DiagKill
  BY <1>10 DEF CloseAll, DiagKill, Gone
<1>11. QED
  BY <1>1, <1>2, <1>4, <1>5, <1>8, <1>10 DEF Diag

\* The tool's steps keep what the helper's proof says of the hardware: no
\* helper is at work, and the pins are back when the lock is free again.
LEMMA DiagKeepsHw ==
  ASSUME LockInv, DiagLock, HwInv, SavedInv, Diag
  PROVE  HwInv'
<1>1. UNCHANGED <<pc, snapshot, clock_was_gated, result, sample>>
  BY DEF Diag, acquire_touch_lock, Started, Capture, force_rest_high, RoutePen,
         ReadPen, OpenClock, adc_once, Convert, adc_cleanup, RestorePins,
         RestoreClock, CloseAll, DiagKill, At, helperVars
<1>2. \A p \in Runs : pc[p] \notin Working
  BY ToolAssumption DEF LockInv, DiagLock, Diag, acquire_touch_lock, Started,
     Capture, force_rest_high, RoutePen, ReadPen, OpenClock, adc_once, Convert,
     adc_cleanup, RestorePins, RestoreClock, CloseAll, DiagKill, At
<1>3. route' \in Pins /\ mux' \in Pins
  BY DEF Diag, acquire_touch_lock, Started, Capture, force_rest_high, RoutePen,
         ReadPen, OpenClock, adc_once, Convert, adc_cleanup, RestorePins,
         RestoreClock, CloseAll, DiagKill, At, hwVars, HwInv, PinTypes, Pins,
         SavedInv, PinsSaved
<1>4. PinsInv'
  <2>1. CASE CloseAll
    BY <1>1, <1>2, <2>1 DEF CloseAll, At, SavedInv, PinsSaved, PinsInv, Original,
       Working, hwVars
  <2>2. CASE DiagKill
    BY <2>2 DEF DiagKill, PinsInv
  <2>3. CASE ~(CloseAll \/ DiagKill)
    <3>1. flock' = {Tool}
      BY <2>3 DEF DiagLock, Diag, acquire_touch_lock, Started, Capture,
         force_rest_high, RoutePen, ReadPen, OpenClock, adc_once, Convert,
         adc_cleanup, RestorePins, RestoreClock, At
    <3>2. QED
      BY <1>1, <1>2, <3>1 DEF PinsInv, Working, Labels
  <2>4. QED
    BY <2>1, <2>2, <2>3
<1>5. QED
  BY <1>1, <1>2, <1>3, <1>4 DEF HwInv, PinTypes, ClockFn, RestoredInv, IdleInv,
     Working, Labels

-----------------------------------------------------------------------------
(* The clock gate under both.                                              *)

GateTypes ==
  /\ gated \in BOOLEAN
  /\ clock_was_gated \in [Runs -> BOOLEAN]

\* A clock that the tool opened was gated before, or is open still; when it
\* reports success the gate is as it was.
GateInv ==
  /\ was_gated \in BOOLEAN
  /\ dpc \in {"adc", "convert", "cleanup", "restore", "restore_clock"}
     /\ attempted /\ gated => was_gated
  /\ dpc = "close" /\ good /\ attempted => gated = was_gated

\* A helper keeps the types of the gate and of what it saved of it.
LEMMA HelperKeepsGate ==
  ASSUME GateTypes, Next
  PROVE  GateTypes'
<1>1. CASE UNCHANGED <<gated, clock_was_gated>>
  BY <1>1 DEF GateTypes
<1>2. ASSUME NEW p \in Runs, Main(p) \/ Stop(p) \/ Kill(p)
      PROVE  GateTypes'
  <2>1. CASE open_adc_clock(p)
    <3>1. clock_was_gated' = [clock_was_gated EXCEPT ![p] = gated]
          /\ (gated' = FALSE \/ gated' = gated)
      BY <2>1, Zenon DEF open_adc_clock, Set
    <3>2. QED
      BY <3>1, Zenon DEF GateTypes
  <2>2. CASE restore_adc_clock(p)
    <3>1. /\ UNCHANGED clock_was_gated
          /\ gated' = clock_was_gated[p] \/ gated' = gated
      BY <2>2, Zenon DEF restore_adc_clock
    <3>2. QED
      BY <3>1, Zenon DEF GateTypes
  <2>3. CASE Exit(p) /\ UNCHANGED hwVars
    <3>1. /\ clock_was_gated' = [clock_was_gated EXCEPT ![p] = FALSE]
          /\ UNCHANGED gated
      BY <2>3, Zenon DEF Exit, Set, hwVars
    <3>2. QED
      BY <3>1, Zenon DEF GateTypes
  <2>4. CASE acquire_lock(p) \/ Close(p) \/ Kill(p)
    BY <1>1, <2>3, <2>4 DEF acquire_lock, Close, Kill, hwVars
  <2>5. CASE open_x(p) \/ capture_pfc(p) \/ FirstRest(p) \/ LoopHead(p)
             \/ Stop(p)
    BY <1>1, <2>5 DEF open_x, capture_pfc, FirstRest, LoopHead, Stop, Rested,
                      RestFails, hwVars
  <2>6. CASE Poll(p)
    BY <1>1, <2>6 DEF Poll, PenRoute, read_pen, AdcRest, AdcRoute, AdcStart,
       AdcDone, AdcTimeout, emergency_abort_idle, Unmask, AdcUnchanged, Rested,
       RestFails, hwVars
  <2>7. CASE Act(p)
    BY <1>1, <2>7, ActSteps DEF hwVars
  <2>8. CASE ReleaseHeld(p) \/ GiveUp(p) \/ restore_pfc(p)
    BY <1>1, <2>8 DEF ReleaseHeld, GiveUp, restore_pfc, Rested, hwVars
  <2>9. QED
    BY <1>2, <2>1, <2>2, <2>4, <2>5, <2>6, <2>7, <2>8 DEF Main
<1>3. CASE XDies \/ AdcSettles
  BY <1>1, <1>3 DEF XDies, AdcSettles, hwVars
<1>4. QED
  BY <1>2, <1>3 DEF Next

\* The tool keeps GateInv.
LEMMA DiagKeepsGate ==
  ASSUME GateTypes, GateInv, AdcInv, Diag
  PROVE  GateTypes' /\ GateInv'
<1>0. UNCHANGED clock_was_gated
  BY DEF Diag, acquire_touch_lock, Started, Capture, force_rest_high, RoutePen,
         ReadPen, OpenClock, adc_once, Convert, adc_cleanup, RestorePins,
         RestoreClock, CloseAll, DiagKill, At, helperVars
<1>1. CASE /\ UNCHANGED <<gated, was_gated, attempted>>
           /\ dpc' # "close" \/ good' = FALSE \/ attempted = FALSE
           /\ \/ dpc \in {"adc", "convert", "cleanup", "restore"}
              \/ attempted = FALSE
  BY <1>0, <1>1, Zenon DEF GateTypes, GateInv
<1>2. CASE acquire_touch_lock \/ Capture \/ force_rest_high \/ RoutePen
           \/ ReadPen
  <2>1. attempted = FALSE /\ UNCHANGED <<gated, was_gated, attempted>>
    BY <1>2 DEF AdcInv, BeforeClock, acquire_touch_lock, Started, Capture,
       force_rest_high, RoutePen, ReadPen, At, Flags, hwVars
  <2>2. QED
    BY <1>1, <2>1
<1>3. CASE OpenClock
  <2>1. /\ was_gated' = gated /\ dpc' # "close"
        /\ gated' = FALSE \/ gated' = gated
    BY <1>3 DEF OpenClock, Then
  <2>2. GateTypes' /\ was_gated' \in BOOLEAN
    BY <1>0, <2>1, Zenon DEF GateTypes
  <2>3. CASE gated' = FALSE
    BY <2>1, <2>2, <2>3, Zenon DEF GateInv
  <2>4. CASE gated' = gated
    BY <2>1, <2>2, <2>4, Zenon DEF GateInv
  <2>5. QED
    BY <2>1, <2>3, <2>4
<1>4. CASE adc_once \/ Convert \/ adc_cleanup
  <2>1. /\ UNCHANGED <<gated, was_gated, attempted>>
        /\ dpc \in {"adc", "convert", "cleanup", "restore"}
    BY <1>4 DEF adc_once, Convert, adc_cleanup, At, Flags, hwVars
  <2>2. dpc' # "close" \/ good' = FALSE
    BY <1>4 DEF adc_once, Convert, adc_cleanup, Then
  <2>3. QED
    BY <1>1, <2>1, <2>2
<1>5. CASE RestorePins
  <2>1. /\ UNCHANGED <<gated, was_gated, attempted>> /\ dpc = "restore"
        /\ dpc' = (IF attempted THEN "restore_clock" ELSE "close")
    BY <1>5 DEF RestorePins, At, Then
  <2>2. CASE attempted
    <3>1. dpc' = "restore_clock"
      BY <2>1, <2>2
    <3>2. QED
      BY <1>0, <2>1, <3>1, Zenon DEF GateTypes, GateInv
  <2>3. CASE ~attempted
    <3>1. dpc' = "close"
      BY <2>1, <2>3
    <3>2. QED
      BY <1>0, <2>1, <2>3, <3>1, Zenon DEF GateTypes, GateInv
  <2>4. QED
    BY <2>2, <2>3
<1>6. CASE RestoreClock
  <2>1. /\ UNCHANGED <<was_gated, attempted>> /\ dpc = "restore_clock"
        /\ dpc' = "close"
    BY <1>6 DEF RestoreClock, At, Then
  <2>2. \/ gated' = (gated \/ was_gated) /\ UNCHANGED good
        \/ gated' = gated /\ good' = FALSE
    BY <1>6, Zenon DEF RestoreClock
  <2>3. gated' \in BOOLEAN
    BY <2>2, Zenon DEF GateTypes
  <2>4. ASSUME good', attempted' PROVE gated' = was_gated'
    <3>1. gated' = (gated \/ was_gated) /\ (gated => was_gated)
      BY <2>1, <2>2, <2>4, Zenon DEF GateInv
    <3>2. CASE was_gated = TRUE
      BY <2>1, <3>1, <3>2, Zenon
    <3>3. CASE was_gated = FALSE
      BY <2>1, <3>1, <3>3, Zenon DEF GateTypes
    <3>4. QED
      BY <3>2, <3>3, Zenon DEF GateInv
  <2>5. QED
    BY <1>0, <2>1, <2>3, <2>4, Zenon DEF GateTypes, GateInv
<1>7. CASE CloseAll \/ DiagKill
  <2>1. UNCHANGED gated /\ was_gated' = FALSE /\ dpc' = "none"
    BY <1>7 DEF CloseAll, DiagKill, Gone, hwVars, Then
  <2>2. QED
    BY <1>0, <2>1, Zenon DEF GateTypes, GateInv
<1>8. QED
  BY <1>2, <1>3, <1>4, <1>5, <1>6, <1>7 DEF Diag

-----------------------------------------------------------------------------
(* Both together.                                                          *)

DiagInv == /\ DiagLock
           /\ SavedInv /\ PutBack /\ AdcInv
           /\ GateTypes /\ GateInv

DiagClickInv == LockInv /\ HwInv /\ ClickInv /\ DiagInv

\* A helper's step keeps what the tool relies on: it waits while the tool has
\* the lock.
LEMMA HelperKeepsDiag ==
  ASSUME LockInv, DiagInv, Next, UNCHANGED diagVars
  PROVE  DiagInv'
<1> USE DEF DiagInv
<1>1. GateTypes'
  BY HelperKeepsGate
<1>2. UNCHANGED <<dpc, command, saved, was_gated, attempted, accessed, good>>
  BY DEF diagVars
<1>3. CASE dpc = "none"
  <2>1. DiagLock'
    BY <1>2, <1>3, HelperIsNotTool DEF DiagLock
  <2>2. SavedInv' /\ PutBack' /\ AdcInv'
    BY <1>2, <1>3 DEF SavedInv, PutBack, AdcInv, PinsSaved, BeforeClock
  <2>3. GateInv'
    BY <1>2, <1>3, Zenon DEF GateInv
  <2>4. QED
    BY <1>1, <2>1, <2>2, <2>3
<1>4. CASE dpc # "none"
  <2>1. /\ UNCHANGED <<flock, route, mux, gated>>
        /\ adc' \in {adc, "idle"}
        /\ unclean' = unclean \/ unclean' = TRUE
    BY <1>4, HelperWaits DEF DiagLock
  <2>2. DiagLock' /\ AdcInv' /\ PutBack'
    BY <1>2, <2>1 DEF DiagLock, AdcInv, PutBack, BeforeClock
  <2>3. SavedInv'
    <3>1. ~unclean' => ~unclean
      BY <2>1, Zenon
    <3>2. UNCHANGED <<route, mux>>
      BY <2>1
    <3>3. QED
      BY <1>2, <3>1, <3>2 DEF SavedInv, PinsSaved, Original
  <2>4. UNCHANGED gated
    BY <2>1
  <2>5. GateInv'
    BY <1>2, <2>4, Zenon DEF GateInv
  <2>6. QED
    BY <1>1, <2>2, <2>3, <2>5
<1>5. QED
  BY <1>3, <1>4

\* The tool does not touch X.
LEMMA DiagKeepsClick ==
  ASSUME ClickInv, Diag
  PROVE  ClickInv'
<1>1. UNCHANGED <<pc, conn, xdown, untold, active>>
  BY DEF Diag, acquire_touch_lock, Started, Capture, force_rest_high, RoutePen,
         ReadPen, OpenClock, adc_once, Convert, adc_cleanup, RestorePins,
         RestoreClock, CloseAll, DiagKill, At, helperVars, xVars, padVars
<1>2. QED
  BY <1>1, ClickFrame

\* The locks, the hardware and the buttons, over every step of the tool and of
\* any number of helpers.
THEOREM DiagInductive == DiagSpec => []DiagClickInv
<1>1. DiagInit => DiagClickInv
  <2> SUFFICES ASSUME DiagInit PROVE DiagClickInv
    OBVIOUS
  <2>1. LockInv /\ HwInv
    BY HwInit DEF DiagInit
  <2>2. ClickInv
    BY DEF DiagInit, Init, ClickInv
  <2>3. DiagLock /\ SavedInv /\ PutBack /\ AdcInv
    BY DEF DiagInit, Init, DiagLock, DiagLabels, SavedInv, PutBack, AdcInv,
           PinsSaved
  <2>4. GateTypes /\ GateInv
    BY Zenon DEF DiagInit, Init, GateTypes, GateInv
  <2>5. QED
    BY <2>1, <2>2, <2>3, <2>4 DEF DiagClickInv, DiagInv
<1>2. DiagClickInv /\ [DiagNext]_allVars => DiagClickInv'
  <2> SUFFICES ASSUME DiagClickInv, [DiagNext]_allVars PROVE DiagClickInv'
    OBVIOUS
  <2> USE DEF DiagClickInv
  <2>1. CASE Next /\ UNCHANGED diagVars
    BY <2>1, HwNext, ClickNext, HelperKeepsDiag
  <2>2. CASE Diag
    <3>1. LockInv' /\ DiagLock'
      BY <2>2, DiagKeepsLock DEF DiagInv
    <3>2. HwInv'
      BY <2>2, DiagKeepsHw DEF DiagInv
    <3>3. SavedInv' /\ PutBack'
      BY <2>2, DiagKeepsSaved DEF DiagInv, HwInv
    <3>4. AdcInv' /\ GateTypes' /\ GateInv'
      BY <2>2, DiagKeepsAdc, DiagKeepsGate DEF DiagInv
    <3>5. QED
      BY <2>2, <3>1, <3>2, <3>3, <3>4, DiagKeepsClick DEF DiagInv
  <2>3. CASE UNCHANGED allVars
    <3>1. LockInv' /\ HwInv' /\ ClickInv'
      BY <2>3, HwNext, ClickNext DEF allVars
    <3>2. UNCHANGED diagVars /\ UNCHANGED <<flock, route, mux, adc, unclean>>
      BY <2>3 DEF allVars, vars, hwVars, exitVars
    <3>3. DiagLock' /\ SavedInv' /\ PutBack' /\ AdcInv'
      BY <3>2 DEF diagVars, DiagInv, DiagLock, SavedInv, PutBack, AdcInv,
                  PinsSaved, Original, BeforeClock
    <3>4. UNCHANGED <<gated, clock_was_gated>>
      BY <2>3 DEF allVars, vars, hwVars
    <3>5. GateTypes' /\ GateInv'
      BY <3>2, <3>4, Zenon DEF diagVars, DiagInv, GateTypes, GateInv
    <3>6. QED
      BY <3>1, <3>3, <3>5 DEF DiagInv
  <2>4. QED
    BY <2>1, <2>2, <2>3 DEF DiagNext
<1>3. QED
  BY <1>1, <1>2, PTL DEF DiagSpec

\* With touchdiag around, a free lock still means the firmware's pins, unless
\* something was killed or given up.
THEOREM DiagHardwareRestored == DiagSpec => []HardwareRestored
<1>1. DiagClickInv => HardwareRestored
  BY DEF DiagClickInv, HwInv, PinsInv, Original, RestoredInv, HardwareRestored
<1>2. QED
  BY <1>1, DiagInductive, PTL

\* With touchdiag around, no helper forgets a button that X holds down.
THEOREM DiagNeverAStuckClick == DiagSpec => []NoStuckClick
<1>1. DiagClickInv => NoStuckClick
  BY ClickInvHolds DEF DiagClickInv
<1>2. QED
  BY <1>1, DiagInductive, PTL

\* A touchdiag that reports success leaves pins and gate as it found them,
\* and gives nothing back under a running conversion of its own.
THEOREM DiagAlwaysLeavesAsFound == DiagSpec => []DiagLeavesAsFound
<1>1. DiagClickInv => DiagLeavesAsFound
  <2> SUFFICES ASSUME DiagClickInv PROVE DiagLeavesAsFound
    OBVIOUS
  <2>1. dpc = "close" /\ good /\ saved # <<>> => <<route, mux>> = saved
    BY DEF DiagClickInv, DiagInv, PutBack
  <2>2. dpc = "close" /\ good /\ attempted => gated = was_gated
    BY Zenon DEF DiagClickInv, DiagInv, GateInv
  <2>3. dpc \in {"restore", "restore_clock"} /\ accessed => adc = "idle"
    BY DEF DiagClickInv, DiagInv, AdcInv
  <2>4. QED
    BY <2>1, <2>2, <2>3, Zenon DEF DiagLeavesAsFound
<1>2. QED
  BY <1>1, DiagInductive, PTL

\* A helper moves the pins only with the ADC idle, also after touchdiag or a
\* killed run left a conversion going.
THEOREM HelperOnlyMovesWhenIdle == DiagSpec => HelperMovesWhenIdle
<1> DEFINE Safe ==
      UNCHANGED diagVars /\ <<route, mux>>' # <<route, mux>> => adc' = "idle"
<1>1. DiagClickInv /\ [DiagNext]_allVars => [Safe]_allVars
  <2> SUFFICES ASSUME DiagClickInv, DiagNext, UNCHANGED diagVars PROVE Safe
    OBVIOUS
  <2>1. CASE Next
    BY <2>1, MovesWhenIdle DEF SafeMove, DiagClickInv
  <2>2. ~Diag
    BY DEF Diag, acquire_touch_lock, Started, Capture, force_rest_high, RoutePen,
       ReadPen, OpenClock, adc_once, Convert, adc_cleanup, RestorePins,
       RestoreClock, CloseAll, DiagKill, Gone, At, Then, diagVars
  <2>3. QED
    BY <2>1, <2>2 DEF DiagNext
<1>2. QED
  BY <1>1, DiagInductive, PTL DEF DiagSpec, HelperMovesWhenIdle
=============================================================================
