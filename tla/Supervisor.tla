----------------------------- MODULE Supervisor ------------------------------
(* The supervisor tick (supervisor.rs, idle.rs, recovery::quarantine), the   *)
(* client's release and cancel (control.rs), the history archive's removal   *)
(* of closed groups, and the receiver's restart (service.rs).                *)
EXTENDS Authority

-----------------------------------------------------------------------------
(* Reconsideration::reconsider: one update, in this order.                   *)

Update(D, d, S, r) == IF d \in S THEN r ELSE D[d]

\* recovery::quarantine: an owner with a call of unknown outcome.
Quarantine(D) ==
    LET S == {d \in Demand : /\ D[d].state \in {"Ready", "Preparing", "Preempting"}
                             /\ Owns(d) /\ InState(d, {"Uncertain"})}
    IN [d \in Demand |-> Update(D, d, S,
         [D[d] EXCEPT !.state = "RecoveryRequired", !.reason = "failure"])]

\* idle::reap: `idle` holds the reservations without activity for the timeout.
\* A reservation with a call in flight or a running workspace is not idle.
Reap(D, idle) ==
    LET busy(r) == \E m \in Members(r) :
            ~D[m].released /\ (Inflight(m) \/ \E c \in CallsOf(m) \cap Workspace : call[c].state = "Running")
        S == {d \in Demand : /\ Root[d] \in idle /\ ~busy(d)
                             /\ ~D[d].released /\ D[d].state \in {"Ready", "Preparing"}}
    IN [d \in Demand |-> Update(D, d, S,
         [D[d] EXCEPT !.released = TRUE, !.state = "Releasing", !.reason = "idle_timeout"])]

\* Victims of a candidate that is no longer preparing complete their retirement.
Abandoned(D) == {e \in Demand : D[e].state \notin {"Absent", "Archived", "Preparing"} /\ D[e].victims # {}}
Abandon(D) ==
    LET S == {d \in Demand : D[d].state = "Preempting" /\ D[d].preemptedBy \in Abandoned(D)}
    IN [d \in Demand |-> Update(D, d, S,
         [D[d] EXCEPT !.released = TRUE, !.state = "Releasing", !.reason = "preempted"])]

\* Demands whose lease ended start to retire.
Lapse(D) ==
    LET S == {d \in Demand : ~Active(D[d]) /\ D[d].state \in {"Ready", "Preparing", "Preempting"}}
    IN [d \in Demand |-> Update(D, d, S, [D[d] EXCEPT !.state = "Releasing"])]

\* Queued calls whose reservation ended, or that waited too long, expire.
ExpireCalls(D, late) ==
    [c \in Call |-> IF call[c].state = "Queued" /\ (c \in late \/ ~Active(D[call[c].of]))
                    THEN [call[c] EXCEPT !.state = "Expired"] ELSE call[c]]

Reconsider ==
    /\ tick = "reconsider"
    /\ \E idle \in (IF "idle" \in Faults THEN SUBSET Roots ELSE {{}}),
          late \in (IF "wait" \in Faults THEN SUBSET Call ELSE {{}}) :
         LET D == Lapse(Abandon(Reap(Quarantine(dem), idle))) IN
         dem' = D /\ call' = ExpireCalls(D, late)
    /\ tick' = "scan"
    /\ UNCHANGED <<claims, warm, backend, w, todo, crashes>>

-----------------------------------------------------------------------------
(* Supervisor::tick: pick the demands to advance, then spawn a thread for    *)
(* each, retirements first and readiness monitors last.                      *)

\* Mutation of RecoveryDue: a restart's uncertain call postpones recovery even of
\* a reservation that was closed or ran out.
RecoveryDueLive(d) ==
    /\ dem[d].state = "RecoveryRequired"
    /\ \A c \in CallsOf(d) : ~(call[c].state = "Uncertain" /\ call[c].restart)

\* recovery_due; its retry delay only postpones the next attempt.
RecoveryDue(d) ==
    /\ dem[d].state = "RecoveryRequired"
    /\ \/ \A c \in CallsOf(d) : ~(call[c].state = "Uncertain" /\ call[c].restart)
       \/ ~Active(dem[d])
       \/ dem[d].closed # "no"

\* A victim is left to the candidate that drains it.
Draining(d) == \E e \in Demand : dem[e].state = "Preparing" /\ d \in dem[e].victims

Due(d) ==
    \/ dem[d].state \in {"Preparing", "Ready", "Releasing"} /\ ~Draining(d)
    \/ RecoveryDue(d)

Rank(d) == CASE dem[d].state = "Releasing" -> 0
             [] dem[d].state = "Ready" -> 2
             [] OTHER -> 1

Scan ==
    /\ tick = "scan"
    /\ todo' = {<<Rank(d), d>> : d \in {e \in Demand : Due(e)}}
    /\ tick' = IF todo' = {} THEN "reconsider" ELSE "spawn"
    /\ UNCHANGED <<document, backend, w, crashes>>

Busy == {d \in Demand : w[d].pc # "idle"}

\* A demand whose record lock is held is skipped; the tick ends at the first
\* demand it has no permit for.
Spawn ==
    /\ tick = "spawn"
    /\ IF Cardinality(Busy) >= MaxTransitionWorkers
       THEN todo' = {} /\ UNCHANGED w
       ELSE \E t \in todo :
              /\ \A u \in todo : t[1] <= u[1]
              /\ todo' = todo \ {t}
              /\ w' = IF t[2] \in Busy THEN w ELSE [w EXCEPT ![t[2]].pc = "inspect"]
    /\ tick' = IF todo' = {} THEN "reconsider" ELSE "spawn"
    /\ UNCHANGED <<document, backend, crashes>>

\* The thread's error handler. A late probe or a rejected boundary must not
\* erase a release; any other error quarantines the demand.
HandleError(d) ==
    /\ w[d].pc \in {"fail", "failFence"} /\ Present(d)
    /\ LET stale == \/ w[d].snap.state = "Ready" /\ dem[d].state # "Ready"
                    \/ At(d, "failFence") /\ dem[d].state # "Preparing"
       IN dem' = IF stale \/ dem[d].state = "RecoveryRequired" THEN dem
                 ELSE [dem EXCEPT ![d].state = "RecoveryRequired", ![d].reason = "failure"]
    /\ Done(d)
    /\ UNCHANGED <<claims, warm, call, backend, supervision, crashes>>

\* transition::current fails on a record that left the document: the thread ends.
DocumentPc == {"boundary", "evictMark", "preflightSave", "peers", "drainBoundary", "transfer",
               "adopt", "adoptSave", "claimEffect", "saveProcess", "readySave",
               "readyRetire", "retFinish", "recPrepare", "recQuiesce", "recResolve",
               "recFinish", "fail", "failFence"}
Missing(d) ==
    /\ w[d].pc \in DocumentPc /\ ~Present(d)
    /\ Done(d)
    /\ UNCHANGED <<document, backend, supervision, crashes>>

-----------------------------------------------------------------------------
(* Client control and history.                                               *)

\* Mutation of Close: the closure is written over the state.
CloseState(r, kind) ==
    IF r.reconciled THEN r ELSE [r EXCEPT !.released = TRUE, !.closed = kind, !.state = kind]

\* ReservationControl::apply for Release and Cancel on one record.
Close(r, kind) ==
    IF r.reconciled THEN r
    ELSE [r EXCEPT !.released = TRUE, !.closed = kind,
                   !.state = IF @ = "RecoveryRequired" THEN @ ELSE "Releasing",
                   !.reason = IF r.state = "RecoveryRequired" \/ @ = "idle_timeout"
                              THEN @ ELSE kind]

CloseCalls(S, kind) ==
    [c \in Call |->
      IF /\ call[c].of \in {d \in S : ~dem[d].reconciled}
         /\ kind = "cancelled" \/ call[c].state = "Queued"
      THEN CancelCall(call[c]) ELSE call[c]]

\* Which requests the clients of a behaviour send: they close a demand once,
\* unless the environment repeats or reverses the request.
MayClose(d, kind) ==
    /\ Present(d) /\ d \in Closable /\ kind \in ClosureKinds
    /\ dem[d].closed = "no" \/ "repeat" \in Faults

ControlDemand(d, kind) ==
    /\ MayClose(d, kind)
    /\ dem' = [dem EXCEPT ![d] = Close(@, kind)]
    /\ call' = CloseCalls({d}, kind)
    /\ UNCHANGED <<claims, warm, backend, w, supervision, crashes>>

\* control::reservation_control: the whole group, and the root is closed even
\* if its own record was already reconciled.
ControlReservation(r, kind) ==
    /\ r \in Roots /\ MayClose(r, kind)
    /\ dem' = [d \in Demand |->
         IF d = r THEN [Close(dem[d], kind) EXCEPT !.closed = kind]
         ELSE IF d \in Members(r) THEN Close(dem[d], kind) ELSE dem[d]]
    /\ call' = CloseCalls(Members(r), kind)
    /\ UNCHANGED <<claims, warm, backend, w, supervision, crashes>>

\* history_archive::closed_group_eligible and commit_published_maintenance.
Retirable(d) ==
    /\ ~dem[d].process /\ ~dem[d].effect
    /\ \A x \in Resource : claims[x] # d
    /\ dem[d].state \in {"Released", "Cancelled", "Expired", "Preempted"}
    /\ ~InState(d, {"Queued", "Running"})
    /\ InState(d, {"Uncertain"}) => dem[d].reconciled

Archive(r) ==
    /\ r \in Roots /\ Present(r) /\ dem[r].closed # "no"
    /\ \A d \in Members(r) : Retirable(d)
    /\ dem' = [d \in Demand |-> IF d \in Members(r) THEN [dem[d] EXCEPT !.state = "Archived"] ELSE dem[d]]
    /\ call' = [c \in Call |-> IF call[c].of \in Members(r) THEN [call[c] EXCEPT !.state = "Archived"] ELSE call[c]]
    /\ UNCHANGED <<claims, warm, backend, w, supervision, crashes>>

-----------------------------------------------------------------------------
(* Time, hardware and the receiver process.                                  *)

\* A demand's lease deadline passes.
Expire(d) ==
    /\ "expire" \in Faults
    /\ dem[d].state \in {"Preparing", "Ready", "Preempting", "Releasing", "RecoveryRequired"}
    /\ ~dem[d].expired
    /\ dem' = [dem EXCEPT ![d].expired = TRUE]
    /\ UNCHANGED <<claims, warm, call, backend, w, supervision, crashes>>

\* External: a backend exits by itself.
BackendDies(a) ==
    /\ "die" \in Faults /\ backend[a]
    /\ backend' = [backend EXCEPT ![a] = FALSE]
    /\ UNCHANGED <<document, w, supervision, crashes>>

\* residency::reconcile_on_start: a resident that does not verify is evicted.
\* A failed eviction aborts that start of the receiver with the record marked
\* evicting, and the next start passes over the record.
ReconcileResidents ==
    \E bad \in SUBSET {a \in Demand : warm[a] = "resident" /\ ProbeErr(a)} :
      \E left \in SUBSET {a \in bad : "stop" \in Faults \/ ~NoOther(a)} :
        /\ \A a \in Demand : warm[a] = "resident" /\ ~backend[a] => a \in bad
        /\ \A a \in bad \ left : NoOther(a)
        /\ warm' = [a \in Demand |-> IF a \in left THEN "evicting"
                                     ELSE IF a \in bad THEN "none" ELSE warm[a]]
        /\ backend' = [a \in Demand |-> backend[a] /\ a \notin bad \ left]

\* The receiver dies between any two steps and starts again (Service::recover):
\* its threads are gone, the document and the backends stay, running calls
\* become uncertain and an unfinished start is quarantined.
Restart ==
    /\ crashes < MaxCrashes
    /\ crashes' = crashes + 1
    /\ w' = [d \in Demand |-> Idle]
    /\ tick' = "reconsider" /\ todo' = {}
    /\ dem' = [d \in Demand |->
         IF Present(d) /\ dem[d].effect /\ ~dem[d].process /\ dem[d].state # "RecoveryRequired"
         THEN [dem[d] EXCEPT !.state = "RecoveryRequired", !.reason = "failure"] ELSE dem[d]]
    /\ call' = [c \in Call |->
         IF call[c].state = "Running"
         THEN [call[c] EXCEPT !.state = "Uncertain", !.restart = TRUE] ELSE call[c]]
    /\ ReconcileResidents
    /\ UNCHANGED claims
=============================================================================
