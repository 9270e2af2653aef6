--------------------------- MODULE RepositoryLock ---------------------------
(* What the campaign leases promise: one holder at a time may work on a       *)
(* repository.  CampaignLease implements it with two JSON files per lease.    *)
CONSTANT Holders

VARIABLE holders

Init == holders = {}

\* The repository is taken only while nobody holds it.
Take(h) == holders = {} /\ holders' = {h}

\* The holder gives the repository back, or is found dead or silent.
Drop(h) == h \in holders /\ holders' = holders \ {h}

Next == \E h \in Holders : Take(h) \/ Drop(h)

Spec == Init /\ [][Next]_holders
=============================================================================
