----------------------------- MODULE MCHistory ------------------------------
(* Instance of History: a workspace w with a nested model call n, on one     *)
(* reservation.                                                              *)
EXTENDS History

CONSTANTS w, n, r1, k1

MCResOf == [q \in {w, n} |-> r1]
MCWorkOf == (w :> k1) @@ (n :> None)
MCParentOf == (n :> w)
=============================================================================
