------------------------------ MODULE MCMedia -------------------------------
(* One job, with two sessions one after the other or a single one, and at    *)
(* most two activations in all.                                              *)
EXTENDS MediaBridge, TLC

CONSTANTS j1, s1, s2
MCJob == {j1}
MCSession == {s1}
MCSessions == {s1, s2}
=============================================================================
