-------------------------- MODULE XtermLockProofs --------------------------
(* Mutual exclusion of the xterm wrapper for any number of launches, up to *)
(* the first stale-lock recovery or signal.                                *)
EXTENDS XtermLock, TLAPS

LEMMA TypeInit == Init => TypeOK
<1> SUFFICES ASSUME Init PROVE TypeOK
  OBVIOUS
<1>1. ProcessTypes
  BY DEF Init, ProcessTypes, Labels, Over, Pids
<1>2. FlagTypes
  BY Zenon DEF Init, FlagTypes
<1> QED BY <1>1, <1>2 DEF TypeOK

LEMMA ProcessTypesNext == TypeOK /\ [Next]_vars => ProcessTypes'
<1> SUFFICES ASSUME TypeOK, [Next]_vars PROVE ProcessTypes'
  OBVIOUS
<1> USE DEF TypeOK, ProcessTypes, Labels, Over, Trapped, Goto
<1>1. ASSUME NEW w \in Launches, Mkdir(w) \/ MkdirAgain(w)
      PROVE  ProcessTypes'
  BY <1>1 DEF Mkdir, MkdirAgain
<1>2. ASSUME NEW w \in Launches, ReadOwner(w) PROVE ProcessTypes'
  BY <1>2 DEF ReadOwner
<1>3. ASSUME NEW w \in Launches, CheckOwner(w) PROVE ProcessTypes'
  BY <1>3 DEF CheckOwner
<1>4. ASSUME NEW w \in Launches, RemoveStalePid(w) \/ RemoveStaleDir(w)
      PROVE  ProcessTypes'
  BY <1>4 DEF RemoveStalePid, RemoveStaleDir, Pids
<1>5. ASSUME NEW w \in Launches, WriteOwnPid(w) \/ WriteTermPid(w)
      PROVE  ProcessTypes'
  BY <1>5 DEF WriteOwnPid, WriteTermPid, Pids
<1>6. ASSUME NEW w \in Launches, StartTerminal(w) \/ AssignChild(w)
      PROVE  ProcessTypes'
  BY <1>6 DEF StartTerminal, AssignChild
<1>7. ASSUME NEW w \in Launches, TerminalExits(w) \/ WaitReturns(w)
      PROVE  ProcessTypes'
  BY <1>7 DEF TerminalExits, WaitReturns
<1>8. ASSUME NEW w \in Launches, CleanupPid(w) \/ CleanupDir(w)
      PROVE  ProcessTypes'
  BY <1>8 DEF CleanupPid, CleanupDir, Pids
<1>9. ASSUME NEW w \in Launches, Signal(w) \/ KillTerminal(w) \/ Kill(w)
      PROVE  ProcessTypes'
  BY <1>9 DEF Signal, KillTerminal, Kill
<1>10. CASE UNCHANGED vars
  BY <1>10 DEF vars
<1> QED BY <1>1, <1>2, <1>3, <1>4, <1>5, <1>6, <1>7, <1>8, <1>9, <1>10
        DEF Next, Wrapper

LEMMA FlagTypesNext == TypeOK /\ [Next]_vars => FlagTypes'
<1> SUFFICES ASSUME TypeOK, [Next]_vars PROVE FlagTypes'
  OBVIOUS
<1> USE DEF TypeOK, FlagTypes
<1>1. child' \in [Launches -> BOOLEAN]
  <2>1. ASSUME NEW w \in Launches, AssignChild(w)
        PROVE  child' \in [Launches -> BOOLEAN]
    BY <2>1 DEF AssignChild
  <2>2. (\E w \in Launches : AssignChild(w)) \/ UNCHANGED child
    BY Zenon DEF Next, Wrapper, Mkdir, ReadOwner, CheckOwner, RemoveStalePid,
       RemoveStaleDir, MkdirAgain, WriteOwnPid, StartTerminal, WriteTermPid,
       WaitReturns, CleanupPid, CleanupDir, KillTerminal, TerminalExits,
       Signal, Kill, vars
  <2> QED BY <2>1, <2>2
<1>2. lockdir' \in BOOLEAN /\ recovered' \in BOOLEAN /\ signalled' \in BOOLEAN
  BY Zenon DEF Next, Wrapper, Mkdir, ReadOwner, CheckOwner, RemoveStalePid,
     RemoveStaleDir, MkdirAgain, WriteOwnPid, StartTerminal, AssignChild,
     WriteTermPid, WaitReturns, CleanupPid, CleanupDir, KillTerminal,
     TerminalExits, Signal, Kill, vars
<1> QED BY <1>1, <1>2

(* Every wrapper is always at a command of the script.                     *)
THEOREM TypeCorrect == Spec => []TypeOK
<1>1. TypeOK /\ [Next]_vars => TypeOK'
  BY ProcessTypesNext, FlagTypesNext DEF TypeOK
<1> QED BY <1>1, TypeInit, PTL DEF Spec

-----------------------------------------------------------------------------
LEMMA MutexNext == TypeOK /\ MutexInv /\ [Next]_vars => MutexInv'
<1> SUFFICES ASSUME TypeOK, MutexInv, [Next]_vars,
                    ~recovered', ~signalled'
             PROVE  /\ \A w \in Launches :
                         pc'[w] \notin {"rmdir", "take", "dead", "term_kill",
                                        "term_rm", "term_rmdir"}
                    /\ \A w \in Running' :
                         pc'[w] \in {"assign", "publish", "wait"}
                    /\ \A v, w \in Holding' : v = w
                    /\ Holding' # {} => lockdir'
  BY DEF MutexInv
<1> USE DEF TypeOK, ProcessTypes, MutexInv, Running, Holding, Open, Goto
<1>1. ASSUME NEW w \in Launches, Mkdir(w) \/ MkdirAgain(w)
      PROVE  MutexInv'
  BY <1>1 DEF Mkdir, MkdirAgain
<1>2. ASSUME NEW w \in Launches, ReadOwner(w) \/ CheckOwner(w)
      PROVE  MutexInv'
  BY <1>2 DEF ReadOwner, CheckOwner
<1>3. ASSUME NEW w \in Launches, RemoveStalePid(w) \/ Signal(w) \/ Kill(w)
      PROVE  FALSE
  BY <1>3, Zenon DEF RemoveStalePid, Signal, Kill
<1>4. ASSUME NEW w \in Launches, RemoveStaleDir(w) \/ KillTerminal(w)
      PROVE  FALSE
  BY <1>4 DEF RemoveStaleDir, KillTerminal
<1>5. ASSUME NEW w \in Launches, WriteOwnPid(w) \/ WriteTermPid(w)
      PROVE  MutexInv'
  BY <1>5 DEF WriteOwnPid, WriteTermPid
<1>6. ASSUME NEW w \in Launches, StartTerminal(w) \/ AssignChild(w)
      PROVE  MutexInv'
  BY <1>6 DEF StartTerminal, AssignChild
<1>7. ASSUME NEW w \in Launches, TerminalExits(w) \/ WaitReturns(w)
      PROVE  MutexInv'
  BY <1>7 DEF TerminalExits, WaitReturns
<1>8. ASSUME NEW w \in Launches, CleanupPid(w) PROVE  MutexInv'
  BY <1>8 DEF CleanupPid
<1>9. ASSUME NEW w \in Launches, CleanupDir(w) PROVE  MutexInv'
  <2>1. pc[w] = "exit_rmdir" /\ pc' = [pc EXCEPT ![w] = "done"]
    BY <1>9 DEF CleanupDir
  <2>2. Holding' = {} /\ Running' = Running
    BY <1>9, <2>1 DEF CleanupDir
  <2> QED BY <1>9, <2>1, <2>2 DEF CleanupDir
<1>10. CASE UNCHANGED vars
  BY <1>10 DEF vars
<1> QED BY <1>1, <1>2, <1>3, <1>4, <1>5, <1>6, <1>7, <1>8, <1>9, <1>10
        DEF Next, Wrapper

(* At most one terminal runs until a stale lock is recovered or a signal   *)
(* is delivered, for any number of launches: mkdir is the mutual exclusion *)
(* and everything that weakens it goes through the other two paths.        *)
THEOREM MkdirExcludes == Spec => []OneXtermUntilRecovery
<1>1. Init => MutexInv
  BY DEF Init, MutexInv, Running, Holding, Open
<1>2. MutexInv => OneXtermUntilRecovery
  BY DEF MutexInv, OneXtermUntilRecovery, OnlyOneXterm, Running, Holding
<1> QED BY <1>1, <1>2, TypeCorrect, MutexNext, PTL DEF Spec

-----------------------------------------------------------------------------
(* Every step leaves somebody behind who will remove what is there.        *)
LEMMA CleanupNext == TypeOK /\ CleanupInv /\ [Next]_vars => CleanupInv'
<1> SUFFICES ASSUME TypeOK, CleanupInv, [Next]_vars PROVE CleanupInv'
  OBVIOUS
<1> USE DEF TypeOK, ProcessTypes, CleanupInv, WillRemovePid, WillRemoveDir,
            Trapped, Goto
<1>1. ASSUME NEW w \in Launches, Mkdir(w) \/ MkdirAgain(w)
      PROVE  CleanupInv'
  BY <1>1 DEF Mkdir, MkdirAgain
<1>2. ASSUME NEW w \in Launches, ReadOwner(w) PROVE CleanupInv'
  BY <1>2 DEF ReadOwner
<1>3. ASSUME NEW w \in Launches, CheckOwner(w) PROVE CleanupInv'
  BY <1>3 DEF CheckOwner
<1>4. ASSUME NEW w \in Launches, RemoveStalePid(w) \/ RemoveStaleDir(w)
      PROVE  CleanupInv'
  BY <1>4 DEF RemoveStalePid, RemoveStaleDir
<1>5. ASSUME NEW w \in Launches, WriteOwnPid(w) PROVE CleanupInv'
  BY <1>5 DEF WriteOwnPid
<1>6. ASSUME NEW w \in Launches, WriteTermPid(w) PROVE CleanupInv'
  BY <1>6 DEF WriteTermPid
<1>7. ASSUME NEW w \in Launches, StartTerminal(w) \/ AssignChild(w)
      PROVE  CleanupInv'
  BY <1>7 DEF StartTerminal, AssignChild
<1>8. ASSUME NEW w \in Launches, TerminalExits(w) \/ WaitReturns(w)
      PROVE  CleanupInv'
  BY <1>8 DEF TerminalExits, WaitReturns
<1>9. ASSUME NEW w \in Launches, CleanupPid(w) PROVE CleanupInv'
  BY <1>9 DEF CleanupPid
<1>10. ASSUME NEW w \in Launches, CleanupDir(w) PROVE CleanupInv'
  BY <1>10 DEF CleanupDir
<1>11. ASSUME NEW w \in Launches, Signal(w) \/ KillTerminal(w) \/ Kill(w)
      PROVE  CleanupInv'
  BY <1>11 DEF Signal, KillTerminal, Kill
<1>12. CASE UNCHANGED vars
  BY <1>12 DEF vars
<1> QED BY <1>1, <1>2, <1>3, <1>4, <1>5, <1>6, <1>7, <1>8, <1>9, <1>10, <1>11,
           <1>12 DEF Next, Wrapper

(* The lock is not leaked, for any number of launches, signals and         *)
(* recoveries: once all have exited through their traps or by themselves   *)
(* the directory and the pid file are gone (cleanup, terminate).           *)
THEOREM LockAlwaysReleased == Spec => []LockReleased
<1>1. Init => CleanupInv
  BY DEF Init, CleanupInv
<1>2. CleanupInv => LockReleased
  BY DEF CleanupInv, LockReleased, WillRemovePid, WillRemoveDir, Trapped
<1> QED BY <1>1, <1>2, TypeCorrect, CleanupNext, PTL DEF Spec
=============================================================================
