------------------------------ MODULE XtermLock ------------------------------
(***************************************************************************)
(* The single-terminal lock of the xterm wrapper                           *)
(* (x11/config/usr/bin/xterm): a directory /tmp/xterm.lock made with an    *)
(* atomic mkdir, and a pid file in it that names first the wrapper and     *)
(* then the terminal it started.                                           *)
(*                                                                         *)
(* Each launch is one wrapper process; every shell command that touches    *)
(* the file system or another process is one step, so that launches        *)
(* interleave between any two commands.  HUP, INT or TERM may reach a      *)
(* wrapper, and the kernel may kill one outright (out of memory on the     *)
(* 16 MiB target), when Signals or Kills allow it.  Process ids are not    *)
(* reused.                                                                 *)
(***************************************************************************)
EXTENDS Naturals, FiniteSets

CONSTANTS
  Launches,   \* the wrapper processes, one per launch
  Signals,    \* may HUP/INT/TERM be delivered to a wrapper?
  Kills       \* may a wrapper be killed without running its traps?

ASSUME SwitchAssumption == Signals \in BOOLEAN /\ Kills \in BOOLEAN

VARIABLES
  pc,         \* next command of each wrapper
  owner,      \* the pid each wrapper read from the lock
  term,       \* xterm.real of each wrapper: "none", "running", "asked" to
              \* exit by the wrapper's kill, or "gone"
  child,      \* has the wrapper assigned $child?
  lockdir,    \* does /tmp/xterm.lock exist?
  pidfile,    \* contents of /tmp/xterm.lock/pid, NoPid when absent
  recovered,  \* history: has a launch removed a lock it took for stale?
  signalled   \* history: has a signal or kill reached a wrapper?

vars == <<pc, owner, term, child, lockdir, pidfile, recovered, signalled>>

NoPid == <<"none">>
WrapperPid(w) == <<"sh", w>>
TermPid(w) == <<"xterm", w>>
Pids == {NoPid} \cup {WrapperPid(w) : w \in Launches}
                \cup {TermPid(w) : w \in Launches}

Over == {"new", "done", "dead"}   \* not started yet, exited, killed

Open == {"running", "asked"}       \* the terminal process exists

\* kill -0 succeeds
Alive(p) == \/ \E w \in Launches : p = WrapperPid(w) /\ pc[w] \notin Over
            \/ \E w \in Launches : p = TermPid(w) /\ term[w] \in Open

Goto(w, label) == pc' = [pc EXCEPT ![w] = label]

Init ==
  /\ pc = [w \in Launches |-> "new"]
  /\ owner = [w \in Launches |-> NoPid]
  /\ term = [w \in Launches |-> "none"]
  /\ child = [w \in Launches |-> FALSE]
  /\ lockdir = FALSE /\ pidfile = NoPid
  /\ recovered = FALSE /\ signalled = FALSE

-----------------------------------------------------------------------------
(* Taking the lock. *)

\* Seeded fault: mkdir -p, which succeeds on an existing directory.
MkdirParents(w) ==
  /\ pc[w] = "new" /\ Goto(w, "own")
  /\ lockdir' = TRUE
  /\ UNCHANGED <<owner, term, child, pidfile, recovered, signalled>>

Mkdir(w) ==
  /\ pc[w] = "new"
  /\ IF ~lockdir THEN Goto(w, "own") ELSE Goto(w, "read")
  /\ lockdir' = TRUE
  /\ UNCHANGED <<owner, term, child, pidfile, recovered, signalled>>

ReadOwner(w) ==
  /\ pc[w] = "read"
  /\ owner' = [owner EXCEPT ![w] = pidfile]
  /\ Goto(w, IF pidfile = NoPid THEN "done" ELSE "check")
  /\ UNCHANGED <<term, child, lockdir, pidfile, recovered, signalled>>

CheckOwner(w) ==
  /\ pc[w] = "check"
  /\ Goto(w, IF Alive(owner[w]) THEN "done" ELSE "rmpid")
  /\ UNCHANGED <<owner, term, child, lockdir, pidfile, recovered, signalled>>

RemoveStalePid(w) ==
  /\ pc[w] = "rmpid" /\ Goto(w, "rmdir")
  /\ pidfile' = NoPid
  /\ recovered' = TRUE
  /\ UNCHANGED <<owner, term, child, lockdir, signalled>>

\* rmdir fails on a missing or non-empty directory; the launch then gives up.
RemoveStaleDir(w) ==
  /\ pc[w] = "rmdir"
  /\ IF lockdir /\ pidfile = NoPid
     THEN lockdir' = FALSE /\ Goto(w, "take")
     ELSE UNCHANGED lockdir /\ Goto(w, "done")
  /\ UNCHANGED <<owner, term, child, pidfile, recovered, signalled>>

MkdirAgain(w) ==
  /\ pc[w] = "take"
  /\ Goto(w, IF lockdir THEN "done" ELSE "own")
  /\ lockdir' = TRUE
  /\ UNCHANGED <<owner, term, child, pidfile, recovered, signalled>>

\* echo $$ > "$lock/pid" fails, and the script goes on, without the directory.
WriteOwnPid(w) ==
  /\ pc[w] = "own" /\ Goto(w, "start")
  /\ pidfile' = IF lockdir THEN WrapperPid(w) ELSE pidfile
  /\ UNCHANGED <<owner, term, child, lockdir, recovered, signalled>>

-----------------------------------------------------------------------------
(* Running the terminal and giving the lock back. *)

StartTerminal(w) ==
  /\ pc[w] = "start" /\ Goto(w, "assign")
  /\ term' = [term EXCEPT ![w] = "running"]
  /\ UNCHANGED <<owner, child, lockdir, pidfile, recovered, signalled>>

AssignChild(w) ==
  /\ pc[w] = "assign" /\ Goto(w, "publish")
  /\ child' = [child EXCEPT ![w] = TRUE]
  /\ UNCHANGED <<owner, term, lockdir, pidfile, recovered, signalled>>

WriteTermPid(w) ==
  /\ pc[w] = "publish" /\ Goto(w, "wait")
  /\ pidfile' = IF lockdir THEN TermPid(w) ELSE pidfile
  /\ UNCHANGED <<owner, term, child, lockdir, recovered, signalled>>

\* The terminal closes by itself, or some time after terminate()'s kill.
TerminalExits(w) ==
  /\ term[w] \in Open
  /\ term' = [term EXCEPT ![w] = "gone"]
  /\ UNCHANGED <<pc, owner, child, lockdir, pidfile, recovered, signalled>>

WaitReturns(w) ==
  /\ pc[w] = "wait" /\ term[w] = "gone"
  /\ Goto(w, "exit_rm")
  /\ UNCHANGED <<owner, term, child, lockdir, pidfile, recovered, signalled>>

\* cleanup: rm -f pid, then rmdir, run by terminate and by the EXIT trap.
CleanupPid(w) ==
  /\ \/ pc[w] = "term_rm" /\ Goto(w, "term_rmdir")
     \/ pc[w] = "exit_rm" /\ Goto(w, "exit_rmdir")
  /\ pidfile' = NoPid
  /\ UNCHANGED <<owner, term, child, lockdir, recovered, signalled>>

\* Seeded fault: cleanup removes only the pid file.
CleanupKeepsDir(w) ==
  /\ \/ pc[w] = "term_rmdir" /\ Goto(w, "exit_rm")
     \/ pc[w] = "exit_rmdir" /\ Goto(w, "done")
  /\ UNCHANGED <<owner, term, child, lockdir, pidfile, recovered, signalled>>

CleanupDir(w) ==
  /\ \/ pc[w] = "term_rmdir" /\ Goto(w, "exit_rm")
     \/ pc[w] = "exit_rmdir" /\ Goto(w, "done")
  /\ lockdir' = (lockdir /\ pidfile # NoPid)
  /\ UNCHANGED <<owner, term, child, pidfile, recovered, signalled>>

\* Traps are set once the pid is written; terminate kills $child, if set, and
\* cleans up - and "exit 1" runs the EXIT trap, a second cleanup.
Trapped == {"start", "assign", "publish", "wait"}

Signal(w) ==
  /\ Signals /\ pc[w] \in Trapped
  /\ Goto(w, "term_kill")
  /\ signalled' = TRUE
  /\ UNCHANGED <<owner, term, child, lockdir, pidfile, recovered>>

\* [ -z "$child" ] || kill "$child": nothing waits for the terminal to go.
KillTerminal(w) ==
  /\ pc[w] = "term_kill" /\ Goto(w, "term_rm")
  /\ term' = [term EXCEPT ![w] = IF child[w] /\ term[w] = "running"
                                  THEN "asked" ELSE term[w]]
  /\ UNCHANGED <<owner, child, lockdir, pidfile, recovered, signalled>>

Kill(w) ==
  /\ Kills /\ pc[w] \notin Over
  /\ Goto(w, "dead")
  /\ signalled' = TRUE
  /\ UNCHANGED <<owner, term, child, lockdir, pidfile, recovered>>

-----------------------------------------------------------------------------
Wrapper(w) ==
  \/ Mkdir(w) \/ ReadOwner(w) \/ CheckOwner(w) \/ RemoveStalePid(w)
  \/ RemoveStaleDir(w) \/ MkdirAgain(w) \/ WriteOwnPid(w)
  \/ StartTerminal(w) \/ AssignChild(w) \/ WriteTermPid(w) \/ WaitReturns(w)
  \/ CleanupPid(w) \/ CleanupDir(w) \/ KillTerminal(w)

Next == \E w \in Launches :
          Wrapper(w) \/ TerminalExits(w) \/ Signal(w) \/ Kill(w)

Spec == Init /\ [][Next]_vars

-----------------------------------------------------------------------------
Running == {w \in Launches : term[w] \in Open}

Labels == Over \cup Trapped \cup
  {"read", "check", "rmpid", "rmdir", "take", "own", "exit_rm", "exit_rmdir",
   "term_kill", "term_rm", "term_rmdir"}

ProcessTypes ==
  /\ pc \in [Launches -> Labels]
  /\ owner \in [Launches -> Pids] /\ pidfile \in Pids
  /\ term \in [Launches -> {"none", "running", "asked", "gone"}]

FlagTypes ==
  /\ child \in [Launches -> BOOLEAN]
  /\ lockdir \in BOOLEAN /\ recovered \in BOOLEAN /\ signalled \in BOOLEAN

\* Type invariant of the lock protocol: every wrapper is at a command of the
\* script and the pid file names a wrapper or a terminal.
TypeOK == ProcessTypes /\ FlagTypes

\* README.md: "Only one xterm can be open at a time."
OnlyOneXterm == \A v, w \in Running : v = w

\* The mkdir alone does exclude: as long as no launch has recovered a lock it
\* took for stale and no signal was delivered, at most one terminal runs.
OneXtermUntilRecovery == ~recovered /\ ~signalled => OnlyOneXterm

\* The lock is not leaked: once every launch has exited, by itself or through
\* its traps, the directory is gone and the next launch can take it.
LockReleased ==
  (\A w \in Launches : pc[w] = "done") => ~lockdir /\ pidfile = NoPid

\* The wrappers between their mkdir and the end of their last cleanup.
Holding == {w \in Launches :
              pc[w] \in {"own", "start", "assign", "publish", "wait",
                         "exit_rm", "exit_rmdir"}}

\* Why OneXtermUntilRecovery holds: a launch that starts a terminal is still
\* holding the lock it made, and nobody else removes that directory.
MutexInv ==
  ~recovered /\ ~signalled =>
    /\ \A w \in Launches :
         pc[w] \notin {"rmdir", "take", "dead", "term_kill", "term_rm",
                       "term_rmdir"}
    /\ \A w \in Running : pc[w] \in {"assign", "publish", "wait"}
    /\ \A v, w \in Holding : v = w
    /\ Holding # {} => lockdir

\* The launches that have yet to run rm -f on the pid file, and those that have
\* yet to run rmdir; a killed one never will.
WillRemovePid == {w \in Launches :
  pc[w] \in Trapped \cup {"exit_rm", "term_kill", "term_rm", "term_rmdir", "dead"}}
WillRemoveDir == WillRemovePid \cup
  {w \in Launches : pc[w] \in {"own", "exit_rmdir"}}

\* Why LockReleased holds: whatever launches take from each other, somebody is
\* left to remove what is there, and the pid file does not outlive its directory.
CleanupInv ==
  /\ pidfile # NoPid => lockdir /\ WillRemovePid # {}
  /\ lockdir => WillRemoveDir # {}
=============================================================================
