----------------------------- MODULE MCTraces -----------------------------
(* Instances of Traces for TLC. *)
EXTENDS Traces

OneOptionAtATime == {{}, {"opcodes"}, {"storage"}}
ThreeLocations == {<<"a", 1>>, <<"a", 2>>, <<"b", 1>>}
SmallValues == 0 .. 2
=============================================================================
