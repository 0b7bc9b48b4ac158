---------------------------- MODULE FileTransfer ----------------------------
(***************************************************************************)
(* What obex_request promises its caller.  The file a request names is     *)
(* moved from the front, and the request reports success only when the     *)
(* whole file, and nothing else, has arrived at the other side.  A refused *)
(* request leaves the session usable.  A request that ends with a          *)
(* transport error breaks the session: nothing is promised from then on.   *)
(***************************************************************************)
EXTENDS Sequences, SequencesExt

CONSTANT Files     \* the contents a request can be about

VARIABLES status,  \* of the latest request; "new" before the first
          file,    \* the contents it is to move
          moved    \* what has arrived of them

vars == <<status, file, moved>>

Init == status = "new" /\ file = <<>> /\ moved = <<>>

Begin ==
  /\ status \in {"new", "success", "refused"}
  /\ status' = "busy"
  /\ file' \in Files
  /\ moved' = <<>>

\* Any number of further bytes arrives, in order.
Move ==
  /\ status = "busy"
  /\ IsStrictPrefix(moved, moved')
  /\ IsPrefix(moved', file)
  /\ UNCHANGED <<status, file>>

Succeed ==
  /\ status = "busy"
  /\ moved = file
  /\ status' = "success"
  /\ UNCHANGED <<file, moved>>

Refuse ==
  /\ status = "busy"
  /\ status' = "refused"
  /\ UNCHANGED <<file, moved>>

Break ==
  /\ status = "busy"
  /\ status' = "broken"
  /\ file' = <<>> /\ moved' = <<>>

Next == Begin \/ Move \/ Succeed \/ Refuse \/ Break

Spec == Init /\ [][Next]_vars
=============================================================================
