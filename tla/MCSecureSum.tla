---------------------------- MODULE MCSecureSum ----------------------------
(***************************************************************************)
(* The instance of SecureSum for TLC: a ring of 16, int64 cut down to four *)
(* turns of it, reals in quarter quanta, three keys, a factor of one       *)
(* element and one of two.                                                 *)
(***************************************************************************)
EXTENDS SecureSum

MCSize == [f \in Factor |-> f]

(* In quarter quanta: ties in both directions, both signs, updates just within
   and well within the clip norm and beyond it, and sums that leave the ring. *)
MCDelta ==
    {[f \in Factor |-> IF f = 1 THEN <<v[1]>> ELSE <<v[2], v[3]>>] :
        v \in {<<6, 0, 0>>, <<-3, 3, -3>>, <<0, -6, 1>>, <<7, 6, 0>>, <<-8, 14, -18>>}}

MCNoise == {<<0, 0, 0>>, <<1, 8, 15>>, <<9, 2, 8>>}
=============================================================================
