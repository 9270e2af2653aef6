----------------------------- MODULE Reservation -----------------------------
(* The runtime receiver as a whole: clients, the supervisor tick, one        *)
(* transition thread per demand, the dispatchers and the machine.            *)
EXTENDS Admission, Calls, Transition, Recovery, Supervisor

TransitionStep(d) ==
    \/ Inspect(d) \/ Monitor(d) \/ Boundary(d)
    \/ EvictMark(d) \/ EvictStop(d) \/ EvictRemove(d)
    \/ Preflight(d) \/ PreflightSave(d)
    \/ DrainPeers(d) \/ DrainWait(d) \/ DrainVictim(d) \/ DrainDone(d)
    \/ DrainBoundary(d) \/ DrainStop(d) \/ DrainMark(d) \/ Transfer(d)
    \/ Adopt(d) \/ AdoptSave(d) \/ AdoptEvict(d)
    \/ Empty(d) \/ ClaimEffect(d) \/ Start(d) \/ SaveProcess(d)
    \/ ReadyWait(d) \/ ReadyProbe(d) \/ ReadySave(d) \/ ReadyRetire(d)
    \/ RetWait(d) \/ RetRead(d) \/ RetStopOnly(d) \/ RetCache(d)
    \/ RetCacheSave(d) \/ RetStop(d) \/ RetFinish(d)
    \/ HandleError(d) \/ Missing(d)

RecoveryStep(d) ==
    \/ RecPrepare(d) \/ RecQuiesce(d) \/ RecResolve(d) \/ RecStop(d) \/ RecFinish(d)

WorkerStep(d) == TransitionStep(d) \/ RecoveryStep(d)

TickStep == Reconsider \/ Scan \/ Spawn

CallStep(c) ==
    \/ \E d \in Demand : Submit(d, c)
    \/ DispatchStart(c) \/ DispatchExpire(c) \/ Complete(c)
    \/ CancelInvocation(c) \/ AnalyseWorkspace(c)

ClientStep(d) ==
    \/ Acquire(d)
    \/ \E kind \in {"released", "cancelled"} : ControlDemand(d, kind) \/ ControlReservation(d, kind)

\* Clients, supervisor, threads, dispatchers and machine interleave freely.
Next ==
    \/ TickStep
    \/ \E d \in Demand :
         \/ WorkerStep(d) \/ ClientStep(d)
         \/ Archive(d) \/ Expire(d) \/ BackendDies(d)
    \/ \E c \in Call : CallStep(c)
    \/ Restart

Spec == Init /\ [][Next]_vars

-----------------------------------------------------------------------------
(* Safety.                                                                   *)

\* Two backends never run on the same GPU, whatever the order of preemption,
\* retirement, warm caching, failed starts, recovery and restarts.
Exclusive ==
    \A a, b \in Demand : a # b /\ backend[a] /\ backend[b] => ~Overlap(a, b)

\* A running backend is either a warm resident or the recorded effect of a
\* demand that holds every GPU it runs on: claims are given up only after the
\* backend is gone, and the archive never forgets a running one.
Covered ==
    \A a \in Demand : backend[a] /\ warm[a] = "none" =>
        \E d \in Demand : Present(d) /\ dem[d].act = a /\ dem[d].effect /\ Owns(d)

\* Whoever may serve calls, or is being drained of them, has its process
\* recorded and holds all its GPUs.
ReadyBacked ==
    \A d \in Demand : dem[d].state \in {"Ready", "Preempting"} =>
        dem[d].process /\ dem[d].effect /\ Owns(d)

\* A backend never has two owners: not two demands, and not a demand and the
\* warm cache.
SingleOwner ==
    \A d \in Demand : dem[d].effect =>
        /\ warm[dem[d].act] # "resident"
        /\ \A e \in Demand : dem[e].effect /\ dem[e].act = dem[d].act => e = d

\* A model call that is running still has its reservation's GPUs to itself:
\* they are not handed over before the call is drained.
CallsOwned ==
    \A c \in Call \ Workspace : call[c].state = "Running" => Owns(call[c].of)

-----------------------------------------------------------------------------
(* Action properties.                                                        *)

\* A multi-service reservation becomes usable as a whole: when a member turns
\* Ready, every member is Ready and holds its GPUs.
AtomicReady ==
    [][\A d \in Demand : dem[d].state # "Ready" /\ dem'[d].state = "Ready" =>
         \A m \in Members(d) : dem'[m].state = "Ready" /\ \A x \in Resources(m) : claims'[x] = m]_vars

\* Only a preparing demand becomes Ready: a demand that was displaced, released,
\* expired or quarantined never serves again, even if a readiness probe of an
\* earlier thread answers late.
NoReturn ==
    [][\A d \in Demand : dem'[d].state = "Ready" => dem[d].state \in {"Ready", "Preparing"}]_vars

\* The recorded outcome of a call is final: a late completion, a cancellation, an
\* expiry or a restart does not replace it, and it is forgotten only with its
\* reservation.
CallsFinal ==
    [][\A c \in Call :
         call[c].state \in {"Completed", "Cancelled", "Failed", "Expired", "Uncertain"}
           => call'[c].state \in {call[c].state, "Archived"}]_vars

-----------------------------------------------------------------------------
(* Liveness. The supervisor thread ticks forever, a transition thread is     *)
(* never abandoned, and a started call ends because every inference has a    *)
(* timeout. A dispatcher probes the backend before it starts a call, so only *)
(* a call of a live backend is sure to start. Deadlines pass: a retirement   *)
(* or a drain does not wait for its calls forever, a backend under a startup *)
(* deadline either answers or fails, and a lease that recovery no longer     *)
(* lets the client renew runs out. The workspace monitor ticks forever.      *)

Fairness ==
    /\ WF_vars(TickStep)
    /\ \A d \in Demand :
         /\ WF_vars(WorkerStep(d))
         /\ SF_vars(RetRead(d)) /\ SF_vars(DrainVictim(d)) /\ SF_vars(ReadyProbe(d))
         /\ WF_vars(dem[d].state = "RecoveryRequired" /\ Expire(d))
    /\ \A c \in Call :
         /\ WF_vars(call[c].state = "Queued" /\ backend[dem[call[c].of].act] /\ DispatchStart(c))
         /\ WF_vars(Complete(c)) /\ WF_vars(AnalyseWorkspace(c))

FairSpec == Spec /\ Fairness

\* A workspace that a restart interrupted is never diagnosed, and recovery waits
\* for its diagnosis.
Undiagnosable(d) ==
    \E c \in CallsOf(d) \cap Workspace : call[c].state = "Uncertain" /\ call[c].restart

\* A reservation its client has closed gives all its GPUs back, whatever failed
\* under it; only a workspace interrupted by a restart keeps them.
ClosedReturnsGpus ==
    \A d \in Demand :
        dem[d].closed # "no" ~> Undiagnosable(d) \/ \A x \in Resource : claims[x] # d

\* A call that is queued does not stay queued: it runs, expires or is cancelled.
QueueMoves ==
    \A c \in Call : []<>(call[c].state # "Queued")

\* Draining ends: a victim does not keep its GPUs in Preempting forever.
PreemptingEnds ==
    \A d \in Demand : []<>(dem[d].state # "Preempting")

\* RecoveryRequired is a cleanup state, not a final one: it is left again, unless
\* a restart interrupted a workspace.
RecoveryEnds ==
    \A d \in Demand : []<>(dem[d].state # "RecoveryRequired" \/ Undiagnosable(d))

\* A candidate does not prepare forever. A member of a group may, until its lease
\* runs out, once another member failed or was released.
PreparingEnds ==
    \A d \in Demand : []<>(\E m \in Members(d) : dem[m].state # "Preparing")
=============================================================================
