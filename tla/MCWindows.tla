----------------------------- MODULE MCWindows -----------------------------
(* Two slots, windows of up to 2 by 2 characters at two places of a screen   *)
(* of 3 by 2: side by side or over each other. Sizes below 1 and above 2 are *)
(* clamped.                                                                  *)
EXTENDS Windows

MCPlaces == {<<0, 0>>, <<1, 0>>}
MCSizes  == {<<0, 3>>, <<2, 2>>}
=============================================================================
