---------------------------- MODULE MCXtermLock ----------------------------
(* XtermLock for TLC: the launches are interchangeable.                    *)
EXTENDS XtermLock, TLC

Symmetry == Permutations(Launches)
=============================================================================
