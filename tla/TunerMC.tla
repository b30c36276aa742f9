------------------------------- MODULE TunerMC -------------------------------
(* The machines of Tuner's runs, whose limit is 2 threads. *)
EXTENDS Tuner

(* Three quarters and all of four cores: only the reserve fits the limit.   *)
AboveHalf == [sizes |-> <<3, 4>>, start |-> 2, reserve |-> 2]

(* A half-core candidate: the limit only caps the choice. *)
WithHalf == [sizes |-> <<2, 3, 4>>, start |-> 3, reserve |-> 0]

Both == {AboveHalf, WithHalf}
=============================================================================
