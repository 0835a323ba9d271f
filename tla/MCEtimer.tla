----------------------------- MODULE MCEtimer ------------------------------
(* Etimer on the constants of its configurations.  Timers are              *)
(* interchangeable, and so are processes.  From the age 0 an adjustment by *)
(* 1 still is in order, one by 2 is not.                                   *)
EXTENDS Etimer, TLC

BackAndForth == {-1, 1, 2}

Symmetry == Permutations(Timer) \cup Permutations(Proc)
=============================================================================
