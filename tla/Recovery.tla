------------------------------ MODULE Recovery -------------------------------
(* Recovery::advance (recovery.rs): the stop-only cleanup of a demand in     *)
(* RecoveryRequired. It re-resolves the backend by its activation, stops it, *)
(* proves the GPUs empty and only then gives up the claims.                  *)
EXTENDS Authority

\* recovery::fence: the record the thread read is still the quarantined owner,
\* with the same recorded process, and no overlapping demand has an effect.
RecoveryFence(d) ==
    /\ dem[d].state = "RecoveryRequired"
    /\ dem[d].process = w[d].snap.process
    /\ Owns(d)
    /\ \A e \in Demand \ {d} :
         ~ /\ Overlap(d, e) /\ (dem[e].process \/ dem[e].effect)
           /\ dem[e].state \in {"Preparing", "Ready", "Preempting", "Releasing", "RecoveryRequired"}

\* Mutation of Quiescent: an uncertain call blocks recovery for good.
QuiescentCertain(d) == RecoveryFence(d) /\ ~InState(d, {"Queued", "Running", "Uncertain"})

\* recovery::quiescent.
Quiescent(d) ==
    /\ RecoveryFence(d)
    /\ ~InState(d, {"Queued", "Running"})
    /\ \A c \in CallsOf(d) \cap Workspace : call[c].state = "Uncertain" => call[c].analysed

\* Recovery::prepare, first half: close the demand and cancel its queue.
RecPrepare(d) ==
    /\ At(d, "recPrepare") /\ Present(d)
    /\ IF RecoveryFence(d)
       THEN /\ dem' = [dem EXCEPT ![d].released = TRUE]
            /\ call' = [c \in Call |->
                 IF call[c].of = d /\ call[c].state = "Queued" THEN CancelCall(call[c]) ELSE call[c]]
            /\ Goto(d, "recQuiesce")
       ELSE Goto(d, "fail") /\ UNCHANGED <<dem, call>>
    /\ UNCHANGED <<claims, warm, backend, supervision, crashes>>

RecQuiesce(d) ==
    /\ At(d, "recQuiesce") /\ Present(d)
    /\ Goto(d, IF Quiescent(d) THEN "recResolve" ELSE "fail")
    /\ UNCHANGED <<document, backend, supervision, crashes>>

\* owned_effect::resolve rediscovers a live backend by its activation, and its
\* identity is persisted before anything is stopped. `effect` of the snapshot
\* carries the answer to the stop step.
RecResolve(d) ==
    /\ At(d, "recResolve") /\ Present(d)
    /\ LET live == Resolved(dem[d].act) IN
         \/ /\ RecoveryFence(d)
            /\ dem' = [dem EXCEPT ![d].process = @ \/ live]
            /\ w' = [w EXCEPT ![d].pc = "recStop", ![d].snap.effect = live,
                              ![d].snap.process = dem[d].process \/ live]
         \/ (~RecoveryFence(d) \/ "probe" \in Faults) /\ Goto(d, "fail") /\ UNCHANGED dem
    /\ UNCHANGED <<claims, warm, call, backend, supervision, crashes>>

\* Stop what was resolved; in every case the activation must be gone and the
\* GPUs empty (owned_effect::absent, gpu_cleanup::wait).
RecStop(d) ==
    /\ At(d, "recStop")
    /\ IF w[d].snap.effect
       THEN \/ StopOk(dem[d].act) /\ Goto(d, "recFinish")
            \/ StopErr(dem[d].act) /\ Goto(d, "fail")
       ELSE /\ Goto(d, IF GpuFree(d) THEN "recFinish" ELSE "fail")
            /\ UNCHANGED backend
    /\ UNCHANGED <<document, supervision, crashes>>

\* Reconciliation::finish.
Reconciled(r) ==
    CASE r.preemptedBy # None -> "Preempted"
      [] r.preemptedBy = None /\ (r.closed = "cancelled" \/ r.reason = "cancelled") -> "Cancelled"
      [] /\ r.preemptedBy = None /\ r.closed # "cancelled" /\ r.reason # "cancelled"
         /\ (r.expired \/ r.reason = "idle_timeout") -> "Expired"
      [] OTHER -> "Released"

RecFinish(d) ==
    /\ At(d, "recFinish") /\ Present(d)
    /\ IF Quiescent(d)
       THEN /\ dem' = [dem EXCEPT ![d].process = FALSE, ![d].effect = FALSE,
                                  ![d].reconciled = TRUE, ![d].state = Reconciled(dem[d])]
            /\ claims' = Unclaimed(d)
            /\ Done(d)
       ELSE Goto(d, "fail") /\ UNCHANGED <<dem, claims>>
    /\ UNCHANGED <<warm, call, backend, supervision, crashes>>
=============================================================================
