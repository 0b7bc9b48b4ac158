--------------------------- MODULE MCExwordKeypad ---------------------------
(* Instances of ExwordKeypad for TLC.  Every table keeps the order of      *)
(* exword_keys[]: an ordinary key, the mouse toggle, then the shared keys. *)
EXTENDS ExwordKeypad

KeyboardTable == <<"KEY_1", "TOGGLE", "ENTER", "BACK", "UP">>
PointerTable == <<"TOGGLE", "ENTER">>

KeyboardRequests == {0}
TouchRequests == {-1, 0, 1, 2, 3, 6}
MixedRequests == {-1, 2, 7}
=============================================================================
