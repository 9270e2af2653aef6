----------------------------- MODULE Transition ------------------------------
(* The transition thread of a demand (transition.rs, retirement.rs): what    *)
(* Transition::advance does from the moment it has inspected the record.     *)
EXTENDS Residency

SnapshotOf(r) == [state |-> r.state, reason |-> r.reason, process |-> r.process,
                  effect |-> r.effect, preflight |-> r.preflight]

\* Mutation of Advance: a candidate is not advanced any more.
AdvanceOwnersOnly(r) ==
    CASE r.state = "RecoveryRequired" -> "recPrepare"
      [] r.state # "RecoveryRequired" /\ (~Active(r) \/ r.state = "Releasing") -> "retRead"
      [] Active(r) /\ r.state = "Ready" -> "monitor"
      [] OTHER -> "idle"

\* The branches of Transition::advance.
Advance(r) ==
    CASE r.state = "RecoveryRequired" -> "recPrepare"
      [] r.state # "RecoveryRequired" /\ (~Active(r) \/ r.state = "Releasing") -> "retRead"
      [] Active(r) /\ r.state = "Ready" -> "monitor"
      [] Active(r) /\ r.state = "Preparing" -> "boundary"
      [] OTHER -> "idle"

Inspect(d) ==
    /\ At(d, "inspect")
    /\ LET p == Advance(dem[d]) IN
         IF ~Present(d) \/ p = "idle" THEN Done(d)
         ELSE w' = [w EXCEPT ![d].pc = p, ![d].snap = SnapshotOf(dem[d])]
    /\ UNCHANGED <<document, backend, supervision, crashes>>

\* ReadyMonitor: a Ready backend that stops answering is an error.
Monitor(d) ==
    /\ At(d, "monitor")
    /\ \/ ProbeOk(dem[d].act) /\ Done(d)
       \/ ProbeErr(dem[d].act) /\ Goto(d, "fail")
    /\ UNCHANGED <<document, backend, supervision, crashes>>

\* Transition::boundary.
WithinFence(d) == dem[d].state = "Preparing" /\ Active(dem[d])

Boundary(d) ==
    /\ At(d, "boundary") /\ Present(d)
    /\ Goto(d, IF ~WithinFence(d) THEN "failFence"
               ELSE IF ~w[d].snap.preflight THEN "evictMark"
               ELSE IF d = Root[d] THEN "drain" ELSE "peers")
    /\ UNCHANGED <<document, backend, supervision, crashes>>

\* Preflight::check_with_resident_processes tolerates only the processes of the
\* victims and of compatible residents on the demand's GPUs.
Tolerated(d) ==
    {dem[v].act : v \in {v \in dem[d].victims : Present(v) /\ dem[v].process}}
    \cup {a \in Demand : Compatible(a, d)}

Preflight(d) ==
    /\ At(d, "preflight")
    /\ LET foreign == \E b \in Demand : backend[b] /\ Overlap(b, d) /\ b \notin Tolerated(d) IN
         \/ ~foreign /\ Goto(d, "preflightSave")
         \/ (foreign \/ "probe" \in Faults) /\ Goto(d, "fail")
    /\ UNCHANGED <<document, backend, supervision, crashes>>

PreflightSave(d) ==
    /\ At(d, "preflightSave") /\ Present(d)
    /\ dem' = [dem EXCEPT ![d].preflight = @ \/ Active(dem[d])]
    /\ Done(d)
    /\ UNCHANGED <<claims, warm, call, backend, supervision, crashes>>

-----------------------------------------------------------------------------
(* VictimDrain. Only the root of a group stops victims; its peers wait. A    *)
(* victim with a call in flight is waited for until its drain deadline.      *)

Undrained(d) == {v \in dem[d].victims : dem[v].state # "Preempted"}

DrainPeers(d) ==
    /\ At(d, "peers") /\ Present(d)
    /\ IF Undrained(Root[d]) = {} THEN Goto(d, "drain") ELSE Done(d)
    /\ UNCHANGED <<document, backend, supervision, crashes>>

DrainWait(d) ==
    /\ At(d, "drain")
    /\ \E v \in Undrained(d) : Present(v) /\ Inflight(v)
    /\ Done(d)
    /\ UNCHANGED <<document, backend, supervision, crashes>>

DrainVictim(d) ==
    /\ At(d, "drain")
    /\ \E v \in Undrained(d) :
         IF Present(v) /\ ~Inflight(v) /\ dem[v].state = "Preempting"
         THEN w' = [w EXCEPT ![d].pc = "drainBoundary", ![d].tgt = v]
         ELSE Goto(d, "fail")
    /\ UNCHANGED <<document, backend, supervision, crashes>>

DrainDone(d) ==
    /\ At(d, "drain") /\ Undrained(d) = {}
    /\ Goto(d, "transfer")
    /\ UNCHANGED <<document, backend, supervision, crashes>>

DrainBoundary(d) ==
    /\ At(d, "drainBoundary") /\ Present(d)
    /\ Goto(d, IF WithinFence(d) THEN "drainStop" ELSE "failFence")
    /\ UNCHANGED <<document, backend, supervision, crashes>>

DrainStop(d) ==
    /\ At(d, "drainStop")
    /\ LET a == dem[w[d].tgt].act IN
         \/ StopOk(a) /\ Goto(d, "drainMark")
         \/ StopErr(a) /\ Goto(d, "fail")
    /\ UNCHANGED <<document, supervision, crashes>>

\* Mutation of DrainMark: the drained victim is not marked Preempted.
DrainForget(d) ==
    /\ At(d, "drainMark")
    /\ dem' = [dem EXCEPT ![w[d].tgt].process = FALSE, ![w[d].tgt].effect = FALSE]
    /\ claims' = Unclaimed(w[d].tgt)
    /\ Done(d)
    /\ UNCHANGED <<warm, call, backend, supervision, crashes>>

DrainMark(d) ==
    /\ At(d, "drainMark")
    /\ LET v == w[d].tgt IN
         IF dem[v].state = "Preempting"
         THEN /\ dem' = [dem EXCEPT ![v].process = FALSE, ![v].effect = FALSE,
                                    ![v].state = "Preempted", ![v].reason = "preempted"]
              /\ claims' = Unclaimed(v)
              /\ Done(d)
         ELSE Goto(d, "fail") /\ UNCHANGED <<dem, claims>>
    /\ UNCHANGED <<warm, call, backend, supervision, crashes>>

\* planner::transfer: the claims move only to a candidate whose victims are all
\* safely preempted.
Transfer(d) ==
    /\ At(d, "transfer") /\ Present(d)
    /\ LET safe == \A v \in dem[d].victims : dem[v].state = "Preempted" /\ ~Inflight(v)
           free == \A x \in Resources(d) : claims[x] \in {None, d} IN
         IF dem[d].state = "Preparing" /\ safe /\ free
         THEN /\ claims' = [x \in Resource |-> IF x \in Resources(d) THEN d ELSE claims[x]]
              /\ Goto(d, IF w[d].snap.process THEN "ready" ELSE "adopt")
         ELSE /\ Goto(d, IF dem[d].state # "Preparing" \/ safe THEN "failFence" ELSE "fail")
              /\ UNCHANGED claims
    /\ UNCHANGED <<dem, warm, call, backend, supervision, crashes>>

-----------------------------------------------------------------------------
(* Starting the backend and publishing readiness.                            *)

\* Preflight::empty.
Empty(d) ==
    /\ At(d, "empty")
    /\ \/ GpuFree(d) /\ Goto(d, "claimEffect")
       \/ (~GpuFree(d) \/ "probe" \in Faults) /\ Goto(d, "fail")
    /\ UNCHANGED <<document, backend, supervision, crashes>>

ClaimEffect(d) ==
    /\ At(d, "claimEffect") /\ Present(d)
    /\ IF WithinFence(d) /\ Owns(d)
       THEN Goto(d, "start") /\ dem' = [dem EXCEPT ![d].effect = TRUE]
       ELSE Done(d) /\ UNCHANGED dem
    /\ UNCHANGED <<claims, warm, call, backend, supervision, crashes>>

\* Hosting::start; a failed start may have left the backend running.
Start(d) ==
    /\ At(d, "start")
    /\ \/ Goto(d, "saveProcess") /\ StartOk(dem[d].act)
       \/ Goto(d, "fail") /\ StartErr(dem[d].act)
    /\ UNCHANGED <<document, supervision, crashes>>

SaveProcess(d) ==
    /\ At(d, "saveProcess") /\ Present(d)
    /\ dem' = [dem EXCEPT ![d].process = TRUE]
    /\ Done(d)
    /\ UNCHANGED <<claims, warm, call, backend, supervision, crashes>>

\* BackendAccess::ready for a backend that is still loading, answers, or fails
\* past the transition deadline.
ReadyWait(d) ==
    /\ At(d, "ready")
    /\ Done(d)
    /\ UNCHANGED <<document, backend, supervision, crashes>>

ReadyProbe(d) ==
    /\ At(d, "ready")
    /\ \/ ProbeOk(dem[d].act) /\ Goto(d, "readySave")
       \/ ProbeErr(dem[d].act) /\ Goto(d, "readyRetire")
    /\ UNCHANGED <<document, backend, supervision, crashes>>

\* Mutation of CommitReady: a member is published as soon as it is ready.
CommitMember(d, checked) ==
    IF checked[d].state = "Preparing" THEN [checked EXCEPT ![d].state = "Ready"] ELSE checked

\* reservation::commit_ready, over the document with this member checked.
CommitReady(d, checked) ==
    LET ids == Members(d)
        usable(m) == /\ checked[m].state = "Preparing" /\ checked[m].checked
                     /\ checked[m].process /\ Active(checked[m]) /\ Owns(m)
    IN IF ids # {d} /\ \E m \in ids : ~usable(m) THEN checked
       ELSE [m \in Demand |->
              IF m \in ids /\ checked[m].state = "Preparing" /\ checked[m].checked
              THEN [checked[m] EXCEPT !.state = "Ready"] ELSE checked[m]]

\* Mutation of ReadySave: a late probe publishes whatever the record became.
ReadySaveLate(d) ==
    /\ At(d, "readySave") /\ Present(d)
    /\ dem' = [dem EXCEPT ![d].checked = TRUE, ![d].state = "Ready"]
    /\ Done(d)
    /\ UNCHANGED <<claims, warm, call, backend, supervision, crashes>>

ReadySave(d) ==
    /\ At(d, "readySave") /\ Present(d)
    /\ dem' = IF Active(dem[d]) THEN CommitReady(d, [dem EXCEPT ![d].checked = TRUE]) ELSE dem
    /\ Done(d)
    /\ UNCHANGED <<claims, warm, call, backend, supervision, crashes>>

ReadyRetire(d) ==
    /\ At(d, "readyRetire") /\ Present(d)
    /\ dem' = [dem EXCEPT ![d].released = TRUE, ![d].reason = "failure"]
    /\ Goto(d, "retRead")
    /\ UNCHANGED <<claims, warm, call, backend, supervision, crashes>>

-----------------------------------------------------------------------------
(* Retirement::run.                                                          *)

\* The drain deadline has not passed and a model call is in flight.
RetWait(d) ==
    /\ At(d, "retRead") /\ Inflight(d)
    /\ Done(d)
    /\ UNCHANGED <<document, backend, supervision, crashes>>

\* Nothing is in flight, or the deadline has passed.
RetRead(d) ==
    /\ At(d, "retRead")
    /\ Goto(d, CASE InState(d, {"Running"}) -> "retStopOnly"
                 [] ~InState(d, {"Running"}) /\ w[d].snap.effect /\ ~w[d].snap.process -> "fail"
                 [] ~InState(d, {"Running"}) /\ CacheCandidate(d, w[d].snap) -> "retCache"
                 [] OTHER -> "retStop")
    /\ UNCHANGED <<document, backend, supervision, crashes>>

\* HostedCleanup::stop has nothing to do for a snapshot without an effect.
StopOwned(d, next) ==
    IF w[d].snap.process \/ w[d].snap.effect
    THEN \/ StopOk(dem[d].act) /\ next
         \/ StopErr(dem[d].act) /\ Goto(d, "fail")
    ELSE next /\ UNCHANGED backend

\* A call is still running: stop its backend, keep the claims.
RetStopOnly(d) ==
    /\ At(d, "retStopOnly")
    /\ StopOwned(d, Done(d))
    /\ UNCHANGED <<document, supervision, crashes>>

\* Mutation of RetStop: a failed stop is taken for a stop.
RetStopBlind(d) ==
    /\ At(d, "retStop")
    /\ Goto(d, "retFinish")
    /\ StopOk(dem[d].act) \/ StopErr(dem[d].act)
    /\ UNCHANGED <<document, supervision, crashes>>

RetStop(d) ==
    /\ At(d, "retStop")
    /\ StopOwned(d, Goto(d, "retFinish"))
    /\ UNCHANGED <<document, supervision, crashes>>

RetFinish(d) ==
    /\ At(d, "retFinish") /\ Present(d)
    /\ Retire(d)
    /\ Done(d)
    /\ UNCHANGED <<warm, call, backend, supervision, crashes>>
=============================================================================
