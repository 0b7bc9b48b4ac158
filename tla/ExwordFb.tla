------------------------------ MODULE ExwordFb ------------------------------
(***************************************************************************)
(* The main-LCD framebuffer driver                                         *)
(* (kernel/overlay/drivers/video/fbdev/exwordfb.c).                        *)
(*                                                                         *)
(* Drawing changes only memory.  A drawing operation counts itself in      *)
(* refresh_generation and schedules one work item; the worker waits until  *)
(* a whole scheduling turn passes without another operation and then       *)
(* transfers the frame.  Panning cancels the work item, waits for a worker *)
(* that is already running and transfers the frame itself.                 *)
(*                                                                         *)
(* A frame is identified with the number of drawing operations in it.  The *)
(* transfer runs with interrupts off and is one step; the DMA is assumed   *)
(* to finish within the driver's poll limit.  The work item follows the    *)
(* kernel's rules: scheduling a pending item does nothing, an item that    *)
(* runs may be scheduled again, and while cancel_work_sync waits the item  *)
(* cannot be scheduled.                                                    *)
(***************************************************************************)
EXTENDS Naturals, FiniteSets

CONSTANTS
  Drawers,   \* tasks that draw: the text console, writers of /dev/fb0
  MaxOps     \* bound on the operations of a run, for TLC

ASSUME MaxOpsAssumption == MaxOps \in Nat

VARIABLES
  drawer,     \* where each drawing operation is: "idle", "drawn", "counted"
  content,    \* drawing operations whose pixels are in the framebuffer
  generation, \* par->refresh_generation
  work,       \* par->refresh_work: "idle", "pending" or "canceling"
  worker,     \* the kernel worker: "idle", "read", "yield" or "refresh"
  seen,       \* the worker's local generation
  panning,    \* is a task inside exwordfb_pan_display?
  shown,      \* content at the last transfer: what the panel shows
  prdr        \* port R, as the set of the D/C lines that are high

drawVars == <<drawer, content, generation>>
workVars == <<work, worker, seen, panning>>
panelVars == <<shown, prdr>>
fbVars == <<drawVars, workVars, panelVars>>

\* The two lines of port R: main LCD (0x10) and secondary LCD (0x04).
Lines == {"main", "sub"}

\* exwordfb_init ends with a refresh.
FbInit ==
  /\ drawer = [d \in Drawers |-> "idle"]
  /\ content = 0 /\ generation = 0
  /\ work = "idle" /\ worker = "idle" /\ seen = 0
  /\ panning = FALSE
  /\ shown = 0
  /\ prdr \in {{"main"}, {"main", "sub"}}

-----------------------------------------------------------------------------
(* The transfer, and the work item. *)

\* Command with the line low, data with the line high.
exwordfb_refresh ==
  /\ shown' = content
  /\ prdr' = prdr \cup {"main"}

schedule_work == work' = IF work = "idle" THEN "pending" ELSE work

\* cancel_work_sync begins: the item leaves the queue.
cancel_work_sync ==
  /\ ~panning /\ panning' = TRUE
  /\ work' = "canceling"
  /\ UNCHANGED <<worker, seen>>

-----------------------------------------------------------------------------
(* exwordfb_fillrect, _copyarea, _imageblit and _write: pixels first, then *)
(* exwordfb_queue_refresh; exwordfb_blank only queues.                     *)

Draw(d) ==
  /\ drawer[d] = "idle" /\ generation < MaxOps
  /\ drawer' = [drawer EXCEPT ![d] = "drawn"]
  /\ content' = content + 1
  /\ UNCHANGED <<generation, workVars, panelVars>>

exwordfb_blank(d) ==
  /\ drawer[d] = "idle" /\ generation < MaxOps
  /\ drawer' = [drawer EXCEPT ![d] = "drawn"]
  /\ UNCHANGED <<content, generation, workVars, panelVars>>

CountOperation(d) ==
  /\ drawer[d] = "drawn"
  /\ drawer' = [drawer EXCEPT ![d] = "counted"]
  /\ generation' = generation + 1
  /\ UNCHANGED <<content, workVars, panelVars>>

\* Seeded fault: the operation is counted but no refresh is scheduled.
QueueNothing(d) ==
  /\ drawer[d] = "counted"
  /\ drawer' = [drawer EXCEPT ![d] = "idle"]
  /\ UNCHANGED <<content, generation, workVars, panelVars>>

QueueRefresh(d) ==
  /\ drawer[d] = "counted"
  /\ drawer' = [drawer EXCEPT ![d] = "idle"]
  /\ schedule_work
  /\ UNCHANGED <<content, generation, worker, seen, panning, panelVars>>

-----------------------------------------------------------------------------
(* exwordfb_refresh_work. *)

WorkStart ==
  /\ work = "pending" /\ worker = "idle"
  /\ work' = "idle" /\ worker' = "read"
  /\ UNCHANGED <<seen, panning, drawVars, panelVars>>

ReadGeneration ==
  /\ worker = "read" /\ worker' = "yield"
  /\ seen' = generation
  /\ UNCHANGED <<work, panning, drawVars, panelVars>>

CheckGeneration ==
  /\ worker = "yield"
  /\ worker' = IF seen = generation THEN "refresh" ELSE "read"
  /\ UNCHANGED <<work, seen, panning, drawVars, panelVars>>

WorkRefresh ==
  /\ worker = "refresh" /\ worker' = "idle"
  /\ exwordfb_refresh
  /\ UNCHANGED <<work, seen, panning, drawVars>>

Worker == WorkStart \/ ReadGeneration \/ CheckGeneration \/ WorkRefresh

-----------------------------------------------------------------------------
(* exwordfb_pan_display; the framebuffer core lets one task in at a time.  *)

PanBegin == cancel_work_sync /\ UNCHANGED <<drawVars, panelVars>>

\* Seeded fault: pan does not transfer the frame.
PanEndNoRefresh ==
  /\ panning /\ worker = "idle"
  /\ panning' = FALSE
  /\ work' = IF work = "canceling" THEN "idle" ELSE work
  /\ UNCHANGED <<worker, seen, drawVars, panelVars>>

\* The worker is idle: the item may be scheduled again; transfer the frame.
PanEnd ==
  /\ panning /\ worker = "idle"
  /\ panning' = FALSE
  /\ work' = IF work = "canceling" THEN "idle" ELSE work
  /\ exwordfb_refresh
  /\ UNCHANGED <<worker, seen, drawVars>>

Operation(d) == CountOperation(d) \/ QueueRefresh(d)

FbNext ==
  \/ \E d \in Drawers : Draw(d) \/ exwordfb_blank(d) \/ Operation(d)
  \/ Worker
  \/ PanBegin
  \/ PanEnd

FbSpec == FbInit /\ [][FbNext]_fbVars

(* A task that began an operation runs again, and so do the worker thread  *)
(* and a task inside pan: all stay runnable.  Nothing obliges anyone to    *)
(* draw or to pan.                                                         *)
FbFairSpec ==
  /\ FbSpec
  /\ \A d \in Drawers : WF_fbVars(Operation(d))
  /\ WF_fbVars(Worker) /\ WF_fbVars(PanEnd)

-----------------------------------------------------------------------------
\* Type invariant of the driver: the panel never shows a frame from the
\* future, and every task is at a step of its operation.
FbTypeOK ==
  /\ drawer \in [Drawers -> {"idle", "drawn", "counted"}]
  /\ content \in Nat /\ generation \in Nat /\ seen \in Nat
  /\ shown \in 0 .. content
  /\ work \in {"idle", "pending", "canceling"}
  /\ worker \in {"idle", "read", "yield", "refresh"}
  /\ panning \in BOOLEAN
  /\ prdr \subseteq Lines

\* No drawing is lost: while the panel is behind the framebuffer, a drawing
\* operation still has to queue its refresh, a refresh is queued or running,
\* or a pan will transfer the frame.  An operation that finds the item
\* pending, running or being cancelled (exwordfb_queue_refresh against
\* exwordfb_refresh_work and exwordfb_pan_display) relies on this.
NoLostRefresh ==
  shown # content =>
    \/ \E d \in Drawers : drawer[d] # "idle"
    \/ work = "pending"
    \/ worker # "idle"
    \/ panning

\* Once drawing stops, the panel shows the last frame and keeps showing it.
LastFrameShown == <>[](shown = content)

\* Why NoLostRefresh holds: the item is unschedulable only while a pan is in
\* progress, which transfers the frame at its end.
RefreshInv == NoLostRefresh /\ (work = "canceling" <=> panning)
=============================================================================
