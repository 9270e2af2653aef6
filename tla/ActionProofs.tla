----------------------------- MODULE ActionProofs -----------------------------
(* What a step of the receiver may never do, and what a running call may rely *)
(* on, proved for every constant: only a saved readiness probe makes a demand *)
(* Ready, it makes a whole reservation Ready, a recorded outcome of a call is  *)
(* never replaced, and a running call keeps its GPUs.                         *)
EXTENDS OwnershipProofs

\* A step that publishes nothing: whoever is Ready afterwards was Ready before.
PublishesNone == \A m \in Demand : dem'[m].state = "Ready" => dem[m].state = "Ready"

-----------------------------------------------------------------------------
(* Readiness.                                                                *)

\* The passes of Reconsideration::reconsider never make a demand Ready.
LEMMA PassPublishesNone ==
    ASSUME NEW D \in [Demand -> DemandRecord], NEW idle, NEW m \in Demand
    PROVE  /\ Quarantine(D)[m].state = "Ready" => D[m].state = "Ready"
           /\ Reap(D, idle)[m].state = "Ready" => D[m].state = "Ready"
           /\ Abandon(D)[m].state = "Ready" => D[m].state = "Ready"
           /\ Lapse(D)[m].state = "Ready" => D[m].state = "Ready"
<1>0. D[m] \in DemandRecord OBVIOUS
<1>1. /\ [D[m] EXCEPT !.state = "RecoveryRequired", !.reason = "failure"].state # "Ready"
      /\ [D[m] EXCEPT !.state = "Releasing"].state # "Ready"
      /\ [D[m] EXCEPT !.released = TRUE, !.state = "Releasing", !.reason = "idle_timeout"].state # "Ready"
      /\ [D[m] EXCEPT !.released = TRUE, !.state = "Releasing", !.reason = "preempted"].state # "Ready"
  BY <1>0 DEF DemandRecord
<1>2. Quarantine(D)[m].state = "Ready" => D[m].state = "Ready" BY <1>1 DEF Quarantine, Update
<1>3. Reap(D, idle)[m].state = "Ready" => D[m].state = "Ready" BY <1>1 DEF Reap, Update
<1>4. Abandon(D)[m].state = "Ready" => D[m].state = "Ready" BY <1>1 DEF Abandon, Update
<1>5. Lapse(D)[m].state = "Ready" => D[m].state = "Ready" BY <1>1 DEF Lapse, Update
<1> QED BY <1>2, <1>3, <1>4, <1>5

\* Neither does the supervisor's tick.
LEMMA TickPublishesNone ==
    ASSUME TypeOK, TickStep
    PROVE  PublishesNone
<1>1. CASE Reconsider
  <2>1. PICK idle : dem' = Lapse(Abandon(Reap(Quarantine(dem), idle))) BY <1>1 DEF Reconsider
  <2>2. /\ dem \in [Demand -> DemandRecord] /\ Quarantine(dem) \in [Demand -> DemandRecord]
    BY PassType DEF TypeOK
  <2>3. Reap(Quarantine(dem), idle) \in [Demand -> DemandRecord] BY <2>2, PassType
  <2>4. Abandon(Reap(Quarantine(dem), idle)) \in [Demand -> DemandRecord] BY <2>3, PassType
  <2> SUFFICES ASSUME NEW m \in Demand, dem'[m].state = "Ready" PROVE dem[m].state = "Ready"
    BY DEF PublishesNone
  <2>5. Abandon(Reap(Quarantine(dem), idle))[m].state = "Ready" BY <2>1, <2>4, PassPublishesNone
  <2>6. Reap(Quarantine(dem), idle)[m].state = "Ready" BY <2>3, <2>5, PassPublishesNone
  <2>7. Quarantine(dem)[m].state = "Ready" BY <2>2, <2>6, PassPublishesNone
  <2> QED BY <2>2, <2>7, PassPublishesNone
<1>2. CASE Scan \/ Spawn BY <1>2 DEF Scan, Spawn, document, PublishesNone
<1> QED BY <1>1, <1>2 DEF TickStep

\* Among the steps of a demand's thread only ReadySave publishes.
LEMMA ThreadPublishesNone ==
    ASSUME TypeOK, NEW d \in Demand, WorkerStep(d), ~ReadySave(d)
    PROVE  PublishesNone
<1>0. /\ dem[d] \in DemandRecord /\ DOMAIN dem = Demand
      /\ \A m \in Demand : dem[m] \in DemandRecord
  BY DEF TypeOK
<1>k. ASSUME UNCHANGED dem PROVE PublishesNone BY <1>k DEF PublishesNone
<1>1. CASE \/ Inspect(d) \/ Monitor(d) \/ Boundary(d) \/ Preflight(d)
           \/ DrainPeers(d) \/ DrainWait(d) \/ DrainVictim(d)
           \/ DrainDone(d) \/ DrainBoundary(d) \/ Adopt(d) \/ Empty(d)
           \/ ReadyWait(d) \/ ReadyProbe(d) \/ RetWait(d) \/ RetRead(d)
           \/ RetCache(d) \/ RecQuiesce(d) \/ Missing(d)
  BY <1>1, <1>k DEF Inspect, Monitor, Boundary, Preflight, DrainPeers, DrainWait, DrainVictim,
     DrainDone, DrainBoundary, Adopt, Empty, ReadyWait, ReadyProbe, RetWait, RetRead,
     RetCache, RecQuiesce, Missing, document
<1>2. CASE \/ EvictStop(d) \/ DrainStop(d) \/ Start(d) \/ RetStopOnly(d)
           \/ RetStop(d) \/ RecStop(d) \/ EvictMark(d) \/ EvictRemove(d) \/ AdoptEvict(d)
           \/ Transfer(d)
  BY <1>2, <1>k DEF EvictStop, DrainStop, Start, RetStopOnly, RetStop, RecStop, EvictMark,
     EvictRemove, AdoptEvict, Transfer, document
<1>3. CASE AdoptSave(d) BY <1>0, <1>3 DEF AdoptSave, DemandRecord, PublishesNone
<1>4. CASE RetCacheSave(d) \/ RetFinish(d)
  <2>1. Retired(dem[d]) # "Ready" BY DEF Retired
  <2> QED BY <1>0, <1>4, <2>1 DEF RetCacheSave, RetFinish, Retire, DemandRecord, PublishesNone
<1>5. CASE PreflightSave(d) BY <1>0, <1>5 DEF PreflightSave, DemandRecord, PublishesNone
<1>6. CASE DrainMark(d) BY <1>0, <1>6 DEF DrainMark, DemandRecord, PublishesNone
<1>7. CASE ClaimEffect(d) BY <1>0, <1>7 DEF ClaimEffect, DemandRecord, PublishesNone
<1>8. CASE SaveProcess(d) BY <1>0, <1>8 DEF SaveProcess, DemandRecord, PublishesNone
<1>9. CASE ReadyRetire(d) BY <1>0, <1>9 DEF ReadyRetire, DemandRecord, PublishesNone
<1>10. CASE HandleError(d) BY <1>0, <1>10 DEF HandleError, DemandRecord, PublishesNone
<1>11. CASE RecPrepare(d) BY <1>0, <1>11 DEF RecPrepare, DemandRecord, PublishesNone
<1>12. CASE RecResolve(d) BY <1>0, <1>12 DEF RecResolve, DemandRecord, PublishesNone
<1>13. CASE RecFinish(d)
  <2>1. Reconciled(dem[d]) # "Ready" BY DEF Reconciled
  <2> QED BY <1>0, <1>13, <2>1 DEF RecFinish, DemandRecord, PublishesNone
<1> QED BY <1>1, <1>2, <1>3, <1>4, <1>5, <1>6, <1>7, <1>8, <1>9, <1>10, <1>11, <1>12, <1>13
     DEF WorkerStep, TransitionStep, RecoveryStep

\* Nor do clients, the archive, time, the machine and a restart.
LEMMA OutsidePublishesNone ==
    ASSUME TypeOK,
           \/ \E d \in Demand : ClientStep(d) \/ Archive(d) \/ Expire(d) \/ BackendDies(d)
           \/ \E c \in Call : CallStep(c)
           \/ Restart \/ UNCHANGED vars
    PROVE  PublishesNone
<1>0. DOMAIN dem = Demand /\ \A m \in Demand : dem[m] \in DemandRecord BY DEF TypeOK
<1>1. ASSUME NEW r \in DemandRecord, NEW kind
      PROVE  /\ Close(r, kind).state = "Ready" => r.state = "Ready"
             /\ [Close(r, kind) EXCEPT !.closed = kind].state = "Ready" => r.state = "Ready"
  BY DEF Close, DemandRecord
<1>2. ASSUME NEW d \in Demand, Acquire(d) PROVE PublishesNone
  <2>1. ASSUME NEW e \in Demand, NEW victims PROVE Prepared(e, victims).state # "Ready"
    BY DEF Prepared, NoDemand
  <2>2. ASSUME NEW r \in DemandRecord, NEW by
        PROVE  [r EXCEPT !.state = "Preempting", !.reason = "preempted", !.preemptedBy = by].state # "Ready"
    BY DEF DemandRecord
  <2>3. PICK victims : Fence(d, victims) BY <1>2 DEF Acquire
  <2>4. ASSUME NEW m \in Demand, dem'[m].state = "Ready" PROVE dem[m].state = "Ready"
    <3>1. dem'[m] = IF m \in Members(d) THEN Prepared(m, victims)
                    ELSE IF m \in victims
                    THEN [dem[m] EXCEPT !.state = "Preempting", !.reason = "preempted", !.preemptedBy = d]
                    ELSE dem[m]
      BY <2>3 DEF Fence
    <3> QED BY <1>0, <2>1, <2>2, <2>4, <3>1
  <2> QED BY <2>4 DEF PublishesNone
<1>3. ASSUME NEW d \in Demand, NEW kind, ControlDemand(d, kind) PROVE PublishesNone
  BY <1>0, <1>1, <1>3 DEF ControlDemand, PublishesNone
<1>4. ASSUME NEW d \in Demand, NEW kind, ControlReservation(d, kind) PROVE PublishesNone
  BY <1>0, <1>1, <1>4 DEF ControlReservation, PublishesNone
<1>5. ASSUME NEW d \in Demand, Archive(d) PROVE PublishesNone
  BY <1>0, <1>5 DEF Archive, DemandRecord, PublishesNone
<1>6. ASSUME NEW d \in Demand, Expire(d) PROVE PublishesNone
  BY <1>0, <1>6 DEF Expire, DemandRecord, PublishesNone
<1>7. ASSUME NEW d \in Demand, BackendDies(d) PROVE PublishesNone
  BY <1>7 DEF BackendDies, document, PublishesNone
<1>8. ASSUME NEW c \in Call, CallStep(c) PROVE PublishesNone
  BY <1>8 DEF CallStep, Submit, DispatchStart, DispatchExpire, Complete, CancelInvocation,
     AnalyseWorkspace, PublishesNone
<1>9. CASE Restart
  <2>1. ASSUME NEW r \in DemandRecord
        PROVE  [r EXCEPT !.state = "RecoveryRequired", !.reason = "failure"].state # "Ready"
    BY DEF DemandRecord
  <2>2. ASSUME NEW m \in Demand, dem'[m].state = "Ready" PROVE dem[m].state = "Ready"
    <3>1. \/ dem'[m] = dem[m]
          \/ dem'[m] = [dem[m] EXCEPT !.state = "RecoveryRequired", !.reason = "failure"]
      BY <1>9 DEF Restart
    <3> QED BY <1>0, <2>1, <2>2, <3>1
  <2> QED BY <2>2 DEF PublishesNone
<1>10. CASE UNCHANGED vars BY <1>10 DEF vars, PublishesNone
<1> QED BY <1>2, <1>3, <1>4, <1>5, <1>6, <1>7, <1>8, <1>9, <1>10 DEF ClientStep

\* Every step that makes a demand Ready is ReadySave of a member of its
\* reservation.
LEMMA OnlyReadySave ==
    ASSUME TypeOK, [Next]_vars
    PROVE  PublishesNone \/ \E d \in Demand : ReadySave(d)
<1>1. CASE TickStep BY <1>1, TickPublishesNone
<1>2. CASE \E d \in Demand : WorkerStep(d) BY <1>2, ThreadPublishesNone
<1>3. CASE \/ \E d \in Demand : ClientStep(d) \/ Archive(d) \/ Expire(d) \/ BackendDies(d)
           \/ \E c \in Call : CallStep(c)
           \/ Restart \/ UNCHANGED vars
  BY <1>3, OutsidePublishesNone
<1> QED BY <1>1, <1>2, <1>3 DEF Next

\* reservation::commit_ready publishes only preparing members of the thread's
\* reservation, and all of them.
LEMMA CommitReadyGroup ==
    ASSUME TypeOK, NEW d \in Demand, ReadySave(d), NEW m \in Demand,
           dem'[m].state = "Ready", dem[m].state # "Ready"
    PROVE  /\ dem[m].state = "Preparing" /\ Root[m] = Root[d]
           /\ \A e \in Members(d) : dem'[e].state = "Ready"
<1> DEFINE checked == [dem EXCEPT ![d].checked = TRUE]
<1>0. DOMAIN dem = Demand /\ \A e \in Demand : dem[e] \in DemandRecord BY DEF TypeOK
<1>1. \A e \in Demand : checked[e] \in DemandRecord /\ checked[e].state = dem[e].state
  <2>1. ASSUME NEW e \in Demand, e # d PROVE checked[e] = dem[e] BY <1>0, <2>1
  <2>2. checked[d] = [dem[d] EXCEPT !.checked = TRUE] BY <1>0
  <2>r. ASSUME NEW r \in DemandRecord
        PROVE  [r EXCEPT !.checked = TRUE] \in DemandRecord /\ [r EXCEPT !.checked = TRUE].state = r.state
    BY DEF DemandRecord
  <2> HIDE DEF checked
  <2>3. checked[d] \in DemandRecord /\ checked[d].state = dem[d].state BY <1>0, <2>2, <2>r
  <2> QED BY <1>0, <2>1, <2>3
<1> HIDE DEF checked
<1>2. dem' = CommitReady(d, checked) BY DEF ReadySave, checked
<1>3. dem' # checked BY <1>1
<1>4. /\ Members(d) = {d} \/ \A e \in Members(d) : checked[e].state = "Preparing" /\ checked[e].checked
      /\ dem' = [e \in Demand |->
                   IF e \in Members(d) /\ checked[e].state = "Preparing" /\ checked[e].checked
                   THEN [checked[e] EXCEPT !.state = "Ready"] ELSE checked[e]]
  BY <1>2, <1>3 DEF CommitReady
<1>5. m \in Members(d) /\ checked[m].state = "Preparing" /\ checked[m].checked BY <1>1, <1>4
<1>6. \A e \in Members(d) : checked[e].state = "Preparing" /\ checked[e].checked BY <1>4, <1>5
<1>7. \A e \in Members(d) : dem'[e].state = "Ready"
  BY <1>1, <1>4, <1>6 DEF Members, DemandRecord
<1> QED BY <1>1, <1>5, <1>7 DEF Members

\* A demand that was displaced, released, expired or quarantined never becomes
\* Ready again, however late a probe of its backend answers.
THEOREM NoReturnHolds == Spec => NoReturn
<1> DEFINE Step == \A d \in Demand : dem'[d].state = "Ready" => dem[d].state \in {"Ready", "Preparing"}
<1>1. ASSUME TypeOK, [Next]_vars PROVE Step
  BY <1>1, OnlyReadySave, CommitReadyGroup DEF PublishesNone
<1>2. TypeOK /\ [Next]_vars => [Step]_vars BY <1>1
<1> QED BY <1>2, Typed, PTL DEF Spec, NoReturn

\* A reservation of several services is published as a whole, and every member
\* holds its GPUs at that moment.
THEOREM AtomicReadyHolds == Spec => AtomicReady
<1> DEFINE Step == \A d \in Demand : dem[d].state # "Ready" /\ dem'[d].state = "Ready" =>
                     \A m \in Members(d) : dem'[m].state = "Ready" /\ \A x \in Resources(m) : claims'[x] = m
<1>1. ASSUME OwnershipInv, [Next]_vars PROVE Step
  <2> SUFFICES ASSUME NEW d \in Demand, dem[d].state # "Ready", dem'[d].state = "Ready",
                      NEW m \in Members(d)
               PROVE  dem'[m].state = "Ready" /\ \A x \in Resources(m) : claims'[x] = m
    OBVIOUS
  <2>1. TypeOK BY <1>1 DEF OwnershipInv
  <2>2. PICK t \in Demand : ReadySave(t) BY <1>1, <2>1, OnlyReadySave DEF PublishesNone
  <2>3. Root[d] = Root[t] /\ \A e \in Members(t) : dem'[e].state = "Ready"
    BY <2>1, <2>2, CommitReadyGroup
  <2>4. m \in Demand /\ dem'[m].state = "Ready" BY <2>3 DEF Members
  <2>5. OwnershipInv' BY <1>1, OwnershipNext
  <2>6. Owns(m)' BY <2>4, <2>5 DEF OwnershipInv, RecordInv, Recorded
  <2> QED BY <2>4, <2>6 DEF Owns, Resources
<1>2. OwnershipInv /\ [Next]_vars => [Step]_vars BY <1>1
<1> QED BY <1>2, OwnershipHolds, PTL DEF Spec, AtomicReady

-----------------------------------------------------------------------------
(* Outcomes of calls.                                                        *)

\* Outcomes that are final, and a step that keeps them.
Recordable == {"Completed", "Cancelled", "Failed", "Expired", "Uncertain"}
KeepsOutcomes ==
    \A c \in Call : call[c].state \in Recordable => call'[c].state \in {call[c].state, "Archived"}

\* Cancelling or superseding a call moves it only out of the queue, and marking
\* a call moves it only to the mark.
LEMMA CallMark ==
    ASSUME NEW r \in CallRecord, r.state \in Recordable
    PROVE  /\ CancelCall(r).state = r.state /\ Supersede(r).state = r.state
           /\ [r EXCEPT !.state = "Archived"].state = "Archived"
           /\ [r EXCEPT !.analysed = TRUE].state = r.state
BY DEF Recordable, CallRecord, CancelCall, Supersede

\* The steps of a call touch only that call, and not an outcome.
LEMMA CallStepKeeps ==
    ASSUME TypeOK, NEW c \in Call, CallStep(c)
    PROVE  KeepsOutcomes
<1>0. call \in [Call -> CallRecord] /\ call[c] \in CallRecord BY DEF TypeOK
<1>k. ASSUME call[c].state \notin Recordable, NEW r, call' = [call EXCEPT ![c] = r]
      PROVE  KeepsOutcomes
  BY <1>0, <1>k DEF KeepsOutcomes
<1>1. ASSUME NEW d \in Demand, Submit(d, c) PROVE KeepsOutcomes
  <2>1. call' = [call EXCEPT ![c] = [call[c] EXCEPT !.of = d, !.state = "Queued"]]
    BY <1>0, <1>1 DEF Submit
  <2> QED BY <1>1, <1>k, <2>1 DEF Submit, Recordable
<1>2. CASE DispatchStart(c) BY <1>0, <1>2, <1>k DEF DispatchStart, Eligible, Recordable
<1>3. CASE DispatchExpire(c) BY <1>0, <1>3, <1>k DEF DispatchExpire, Recordable
<1>4. CASE Complete(c)
  <2>1. PICK s : call' = [call EXCEPT ![c] = [call[c] EXCEPT !.state = s]] BY <1>4 DEF Complete
  <2> QED BY <1>4, <1>k, <2>1 DEF Complete, Recordable
<1>5. CASE CancelInvocation(c)
  <2>1. call' = [call EXCEPT ![c] = CancelCall(call[c])] BY <1>5 DEF CancelInvocation
  <2> QED BY <1>0, <2>1, CallMark DEF KeepsOutcomes
<1>6. CASE AnalyseWorkspace(c)
  <2>1. call' = [call EXCEPT ![c] = [call[c] EXCEPT !.analysed = TRUE]] BY <1>6 DEF AnalyseWorkspace
  <2> QED BY <1>0, <2>1, CallMark DEF KeepsOutcomes
<1> QED BY <1>1, <1>2, <1>3, <1>4, <1>5, <1>6 DEF CallStep

\* Every other step that writes calls moves each one as CallMark allows.
LEMMA NextKeeps ==
    ASSUME TypeOK, [Next]_vars
    PROVE  KeepsOutcomes
<1>0. call \in [Call -> CallRecord] /\ \A c \in Call : call[c] \in CallRecord BY DEF TypeOK
<1>k. ASSUME UNCHANGED call PROVE KeepsOutcomes BY <1>k DEF KeepsOutcomes
<1>m. ASSUME \A c \in Call : \/ call'[c] \in {call[c], CancelCall(call[c]), Supersede(call[c])}
                            \/ call'[c] = [call[c] EXCEPT !.state = "Archived"]
                            \/ call[c].state \notin Recordable
      PROVE  KeepsOutcomes
  BY <1>0, <1>m, CallMark DEF KeepsOutcomes
<1>1. CASE TickStep
  <2>1. CASE Reconsider
    <3>1. PICK D, late : call' = ExpireCalls(D, late) BY <2>1 DEF Reconsider
    <3> QED BY <1>m, <3>1 DEF ExpireCalls, Recordable
  <2>2. CASE Scan \/ Spawn BY <1>k, <2>2 DEF Scan, Spawn, document
  <2> QED BY <1>1, <2>1, <2>2 DEF TickStep
<1>2. ASSUME NEW d \in Demand, WorkerStep(d) PROVE KeepsOutcomes
  <2>1. CASE RecPrepare(d) BY <1>k, <1>m, <2>1 DEF RecPrepare
  <2>2. CASE \/ Inspect(d) \/ Monitor(d) \/ Boundary(d) \/ Preflight(d)
             \/ DrainPeers(d) \/ DrainWait(d) \/ DrainVictim(d)
             \/ DrainDone(d) \/ DrainBoundary(d) \/ Adopt(d) \/ Empty(d)
             \/ ReadyWait(d) \/ ReadyProbe(d) \/ RetWait(d) \/ RetRead(d)
             \/ RetCache(d) \/ RecQuiesce(d) \/ Missing(d)
    BY <1>k, <2>2 DEF Inspect, Monitor, Boundary, Preflight, DrainPeers, DrainWait, DrainVictim,
       DrainDone, DrainBoundary, Adopt, Empty, ReadyWait, ReadyProbe, RetWait, RetRead,
       RetCache, RecQuiesce, Missing, document
  <2>3. CASE \/ EvictStop(d) \/ DrainStop(d) \/ Start(d) \/ RetStopOnly(d)
             \/ RetStop(d) \/ RecStop(d) \/ EvictMark(d) \/ EvictRemove(d) \/ AdoptEvict(d)
             \/ Transfer(d) \/ AdoptSave(d) \/ RetCacheSave(d) \/ RetFinish(d)
             \/ PreflightSave(d) \/ DrainMark(d) \/ ClaimEffect(d) \/ SaveProcess(d)
             \/ ReadySave(d) \/ ReadyRetire(d) \/ HandleError(d) \/ RecResolve(d) \/ RecFinish(d)
    BY <1>k, <2>3 DEF EvictStop, DrainStop, Start, RetStopOnly, RetStop, RecStop, EvictMark,
       EvictRemove, AdoptEvict, Transfer, AdoptSave, RetCacheSave, RetFinish, PreflightSave,
       DrainMark, ClaimEffect, SaveProcess, ReadySave, ReadyRetire, HandleError, RecResolve,
       RecFinish, document
  <2> QED BY <1>2, <2>1, <2>2, <2>3 DEF WorkerStep, TransitionStep, RecoveryStep
<1>3. ASSUME NEW d \in Demand, ClientStep(d) PROVE KeepsOutcomes
  <2>1. CASE Acquire(d) BY <1>m, <2>1 DEF Acquire, Fence
  <2>2. ASSUME NEW kind, ControlDemand(d, kind) \/ ControlReservation(d, kind) PROVE KeepsOutcomes
    BY <1>m, <2>2 DEF ControlDemand, ControlReservation, CloseCalls
  <2> QED BY <1>3, <2>1, <2>2 DEF ClientStep
<1>4. ASSUME NEW d \in Demand, Archive(d) PROVE KeepsOutcomes BY <1>m, <1>4 DEF Archive
<1>5. ASSUME NEW d \in Demand, Expire(d) \/ BackendDies(d) PROVE KeepsOutcomes
  BY <1>k, <1>5 DEF Expire, BackendDies, document
<1>6. ASSUME NEW c \in Call, CallStep(c) PROVE KeepsOutcomes BY <1>6, CallStepKeeps
<1>7. CASE Restart BY <1>m, <1>7 DEF Restart, Recordable
<1>8. CASE UNCHANGED vars BY <1>k, <1>8 DEF vars
<1> QED BY <1>1, <1>2, <1>3, <1>4, <1>5, <1>6, <1>7, <1>8 DEF Next

\* A late completion, a cancellation, an expiry and a restart never replace a
\* recorded outcome.
THEOREM CallsFinalHolds == Spec => CallsFinal
<1>1. TypeOK /\ [Next]_vars => [KeepsOutcomes]_vars BY NextKeeps
<1> QED BY <1>1, Typed, PTL DEF Spec, CallsFinal, KeepsOutcomes, Recordable

-----------------------------------------------------------------------------
(* Running calls keep their GPUs.                                            *)

\* A record of a closing demand, and a step after which it is still one.
ClosingRecord(r) == r.state \in Displaced \/ (r.state # "Absent" /\ ~Active(r))
KeepsClosing == \A e \in Demand : Closing(e) => ClosingRecord(dem'[e])

\* A record keeps closing when it is displaced or when only its effects change.
LEMMA ClosingRecords ==
    ASSUME NEW r \in DemandRecord, ClosingRecord(r)
    PROVE  /\ \A b \in BOOLEAN : /\ ClosingRecord([r EXCEPT !.process = b])
                                 /\ ClosingRecord([r EXCEPT !.effect = b])
                                 /\ ClosingRecord([r EXCEPT !.preflight = b])
                                 /\ ClosingRecord([r EXCEPT !.checked = b])
           /\ ClosingRecord([r EXCEPT !.process = TRUE, !.effect = TRUE])
           /\ ClosingRecord([r EXCEPT !.released = TRUE])
           /\ ClosingRecord([r EXCEPT !.expired = TRUE])
           /\ ClosingRecord([r EXCEPT !.released = TRUE, !.reason = "failure"])
           /\ ClosingRecord([r EXCEPT !.state = "Archived"])
           /\ ClosingRecord([r EXCEPT !.state = "Ready"]) \/ r.state # "Preparing"
           /\ ClosingRecord([r EXCEPT !.state = "RecoveryRequired", !.reason = "failure"])
           /\ ClosingRecord([r EXCEPT !.state = "Releasing"])
           /\ ClosingRecord([r EXCEPT !.released = TRUE, !.state = "Releasing", !.reason = "idle_timeout"])
           /\ ClosingRecord([r EXCEPT !.released = TRUE, !.state = "Releasing", !.reason = "preempted"])
           /\ \A by : ClosingRecord([r EXCEPT !.state = "Preempting", !.reason = "preempted", !.preemptedBy = by])
           /\ \A kind : /\ ClosingRecord(Close(r, kind))
                        /\ ClosingRecord([Close(r, kind) EXCEPT !.closed = kind])
BY DEF DemandRecord, ClosingRecord, Displaced, Active, Close

\* The passes of a reconsideration keep a demand closing.
LEMMA PassClosing ==
    ASSUME NEW D \in [Demand -> DemandRecord], NEW idle, NEW m \in Demand, ClosingRecord(D[m])
    PROVE  /\ ClosingRecord(Quarantine(D)[m]) /\ ClosingRecord(Reap(D, idle)[m])
           /\ ClosingRecord(Abandon(D)[m]) /\ ClosingRecord(Lapse(D)[m])
<1>0. D[m] \in DemandRecord OBVIOUS
<1>1. ClosingRecord(Quarantine(D)[m]) BY <1>0, ClosingRecords DEF Quarantine, Update
<1>2. ClosingRecord(Reap(D, idle)[m]) BY <1>0, ClosingRecords DEF Reap, Update
<1>3. ClosingRecord(Abandon(D)[m]) BY <1>0, ClosingRecords DEF Abandon, Update
<1>4. ClosingRecord(Lapse(D)[m]) BY <1>0, ClosingRecords DEF Lapse, Update
<1> QED BY <1>1, <1>2, <1>3, <1>4

\* Only one record is written, with a value that keeps it closing.
LEMMA OneClosing ==
    ASSUME TypeOK, NEW d \in Demand, NEW r, dem' = [dem EXCEPT ![d] = r],
           ClosingRecord(dem[d]) => ClosingRecord(r)
    PROVE  KeepsClosing
BY DEF TypeOK, KeepsClosing, Closing, ClosingRecord

\* Every record is written with a value that keeps it closing.
LEMMA SetClosing ==
    ASSUME \A m \in Demand : ClosingRecord(dem[m]) => ClosingRecord(dem'[m])
    PROVE  KeepsClosing
BY DEF KeepsClosing, Closing, ClosingRecord

\* A demand's thread keeps every demand closing.
LEMMA ThreadClosing ==
    ASSUME TypeOK, NEW d \in Demand, WorkerStep(d)
    PROVE  KeepsClosing
<1>0. /\ dem[d] \in DemandRecord /\ DOMAIN dem = Demand
      /\ \A m \in Demand : dem[m] \in DemandRecord
  BY DEF TypeOK
<1>k. ASSUME UNCHANGED dem PROVE KeepsClosing
  BY <1>k DEF KeepsClosing, Closing, ClosingRecord
<1>1. CASE \/ Inspect(d) \/ Monitor(d) \/ Boundary(d) \/ Preflight(d)
           \/ DrainPeers(d) \/ DrainWait(d) \/ DrainVictim(d)
           \/ DrainDone(d) \/ DrainBoundary(d) \/ Adopt(d) \/ Empty(d)
           \/ ReadyWait(d) \/ ReadyProbe(d) \/ RetWait(d) \/ RetRead(d)
           \/ RetCache(d) \/ RecQuiesce(d) \/ Missing(d)
  BY <1>1, <1>k DEF Inspect, Monitor, Boundary, Preflight, DrainPeers, DrainWait, DrainVictim,
     DrainDone, DrainBoundary, Adopt, Empty, ReadyWait, ReadyProbe, RetWait, RetRead,
     RetCache, RecQuiesce, Missing, document
<1>2. CASE \/ EvictStop(d) \/ DrainStop(d) \/ Start(d) \/ RetStopOnly(d)
           \/ RetStop(d) \/ RecStop(d) \/ EvictMark(d) \/ EvictRemove(d) \/ AdoptEvict(d)
           \/ Transfer(d)
  BY <1>2, <1>k DEF EvictStop, DrainStop, Start, RetStopOnly, RetStop, RecStop, EvictMark,
     EvictRemove, AdoptEvict, Transfer, document
<1>3. CASE AdoptSave(d)
  <2>1. CASE UNCHANGED dem BY <1>k, <2>1
  <2>2. CASE dem' = [dem EXCEPT ![d].process = TRUE, ![d].effect = TRUE]
    <3>1. dem' = [dem EXCEPT ![d] = [dem[d] EXCEPT !.process = TRUE, !.effect = TRUE]]
      BY <1>0, <2>2 DEF DemandRecord
    <3> QED BY <1>0, <3>1, ClosingRecords, OneClosing
  <2> QED BY <1>3, <2>1, <2>2 DEF AdoptSave
<1>4. CASE RetCacheSave(d) \/ RetFinish(d)
  <2>1. Retired(dem[d]) \in Displaced BY DEF Retired, Displaced
  <2>2. CASE UNCHANGED dem BY <1>k, <2>2
  <2>3. CASE Retire(d)
    <3>1. \A m \in Demand : m # d => dem'[m] = dem[m] BY <1>0, <2>3 DEF Retire
    <3>2. dem'[d].state = Retired(dem[d]) BY <1>0, <2>3 DEF Retire, DemandRecord
    <3> QED BY <2>1, <3>1, <3>2 DEF KeepsClosing, Closing, ClosingRecord
  <2> QED BY <1>4, <2>2, <2>3 DEF RetCacheSave, RetFinish
<1>5. CASE PreflightSave(d)
  <2>1. dem[d].preflight \/ Active(dem[d]) \in BOOLEAN BY <1>0 DEF Active, DemandRecord
  <2>2. dem' = [dem EXCEPT ![d] = [dem[d] EXCEPT !.preflight = dem[d].preflight \/ Active(dem[d])]]
    BY <1>5 DEF PreflightSave
  <2> QED BY <1>0, <2>1, <2>2, ClosingRecords, OneClosing
<1>6. CASE DrainMark(d)
  <2>1. CASE UNCHANGED dem BY <1>k, <2>1
  <2>2. CASE ~UNCHANGED dem
    <3>1. /\ \A m \in Demand : m # w[d].tgt => dem'[m] = dem[m]
          /\ w[d].tgt \in Demand => dem'[w[d].tgt].state = "Preempted"
      BY <1>0, <1>6, <2>2 DEF DrainMark, DemandRecord
    <3> QED BY <3>1 DEF KeepsClosing, Closing, ClosingRecord, Displaced
  <2> QED BY <2>1, <2>2
<1>7. CASE ClaimEffect(d)
  <2>1. dem' = dem \/ dem' = [dem EXCEPT ![d] = [dem[d] EXCEPT !.effect = TRUE]]
    BY <1>7 DEF ClaimEffect
  <2> QED BY <1>0, <1>k, <2>1, ClosingRecords, OneClosing
<1>8. CASE SaveProcess(d)
  <2>1. dem' = [dem EXCEPT ![d] = [dem[d] EXCEPT !.process = TRUE]] BY <1>8 DEF SaveProcess
  <2> QED BY <1>0, <2>1, ClosingRecords, OneClosing
<1>9. CASE ReadyRetire(d)
  <2>1. dem' = [dem EXCEPT ![d] = [dem[d] EXCEPT !.released = TRUE, !.reason = "failure"]]
    BY <1>0, <1>9 DEF ReadyRetire, DemandRecord
  <2> QED BY <1>0, <2>1, ClosingRecords, OneClosing
<1>10. CASE HandleError(d)
  <2>1. \/ dem' = dem
        \/ dem' = [dem EXCEPT ![d] = [dem[d] EXCEPT !.state = "RecoveryRequired", !.reason = "failure"]]
    BY <1>0, <1>10 DEF HandleError, DemandRecord
  <2> QED BY <1>0, <1>k, <2>1, ClosingRecords, OneClosing
<1>11. CASE RecPrepare(d)
  <2>1. dem' = dem \/ dem' = [dem EXCEPT ![d] = [dem[d] EXCEPT !.released = TRUE]]
    BY <1>11 DEF RecPrepare
  <2> QED BY <1>0, <1>k, <2>1, ClosingRecords, OneClosing
<1>12. CASE RecResolve(d)
  <2>1. dem[d].process \/ Resolved(dem[d].act) \in BOOLEAN
    BY <1>0 DEF TypeOK, DemandRecord, Resolved
  <2>2. \/ dem' = dem
        \/ dem' = [dem EXCEPT ![d] = [dem[d] EXCEPT !.process = dem[d].process \/ Resolved(dem[d].act)]]
    BY <1>12 DEF RecResolve
  <2> QED BY <1>0, <1>k, <2>1, <2>2, ClosingRecords, OneClosing
<1>13. CASE RecFinish(d)
  <2>1. Reconciled(dem[d]) \in Displaced BY DEF Reconciled, Displaced
  <2>2. CASE UNCHANGED dem BY <1>k, <2>2
  <2>3. CASE ~UNCHANGED dem
    <3>1. /\ \A m \in Demand : m # d => dem'[m] = dem[m]
          /\ dem'[d].state = Reconciled(dem[d])
      BY <1>0, <1>13, <2>3 DEF RecFinish, DemandRecord
    <3> QED BY <2>1, <3>1 DEF KeepsClosing, Closing, ClosingRecord
  <2> QED BY <2>2, <2>3
<1>14. CASE ReadySave(d)
  <2> DEFINE checked == [dem EXCEPT ![d].checked = TRUE]
  <2>1. \A m \in Demand : /\ checked[m] \in DemandRecord
                          /\ Closing(m) => ClosingRecord(checked[m])
    <3>1. checked = [dem EXCEPT ![d] = [dem[d] EXCEPT !.checked = TRUE]] OBVIOUS
    <3>2. [dem[d] EXCEPT !.checked = TRUE] \in DemandRecord BY <1>0 DEF DemandRecord
    <3>3. ClosingRecord(dem[d]) => ClosingRecord([dem[d] EXCEPT !.checked = TRUE])
      BY <1>0, ClosingRecords
    <3> HIDE DEF checked
    <3> QED BY <1>0, <3>1, <3>2, <3>3 DEF Closing, ClosingRecord
  <2> HIDE DEF checked
  <2>2. dem' = dem \/ dem' = CommitReady(d, checked) BY <1>14 DEF ReadySave, checked
  <2>3. CASE dem' = CommitReady(d, checked)
    <3>1. dem' = checked \/ dem' = [m \in Demand |->
              IF m \in Members(d) /\ checked[m].state = "Preparing" /\ checked[m].checked
              THEN [checked[m] EXCEPT !.state = "Ready"] ELSE checked[m]]
      BY <2>3 DEF CommitReady
    <3>2. ASSUME NEW m \in Demand, Closing(m) PROVE ClosingRecord(dem'[m])
      <4>1. /\ checked[m] \in DemandRecord /\ ClosingRecord(checked[m])
            /\ \/ dem'[m] = checked[m]
               \/ checked[m].state = "Preparing" /\ dem'[m] = [checked[m] EXCEPT !.state = "Ready"]
        BY <2>1, <3>1, <3>2
      <4> QED BY <4>1, ClosingRecords
    <3> QED BY <3>2 DEF KeepsClosing
  <2> QED BY <1>k, <2>2, <2>3
<1> QED BY <1>1, <1>2, <1>3, <1>4, <1>5, <1>6, <1>7, <1>8, <1>9, <1>10, <1>11, <1>12, <1>13, <1>14
     DEF WorkerStep, TransitionStep, RecoveryStep

\* So does everybody else: nothing undoes a displacement, a release or the end
\* of a lease.
LEMMA ClosingStays ==
    ASSUME TypeOK, [Next]_vars
    PROVE  KeepsClosing
<1>0. DOMAIN dem = Demand /\ \A m \in Demand : dem[m] \in DemandRecord BY DEF TypeOK
<1>k. ASSUME UNCHANGED dem PROVE KeepsClosing
  BY <1>k DEF KeepsClosing, Closing, ClosingRecord
<1>1. CASE TickStep
  <2>1. CASE Reconsider
    <3>1. PICK idle : dem' = Lapse(Abandon(Reap(Quarantine(dem), idle))) BY <2>1 DEF Reconsider
    <3>2. /\ dem \in [Demand -> DemandRecord] /\ Quarantine(dem) \in [Demand -> DemandRecord]
      BY PassType DEF TypeOK
    <3>3. Reap(Quarantine(dem), idle) \in [Demand -> DemandRecord] BY <3>2, PassType
    <3>4. Abandon(Reap(Quarantine(dem), idle)) \in [Demand -> DemandRecord] BY <3>3, PassType
    <3>5. ASSUME NEW m \in Demand, Closing(m) PROVE ClosingRecord(dem'[m])
      <4>1. ClosingRecord(Quarantine(dem)[m]) BY <3>2, <3>5, PassClosing DEF Closing, ClosingRecord
      <4>2. ClosingRecord(Reap(Quarantine(dem), idle)[m]) BY <3>2, <4>1, PassClosing
      <4>3. ClosingRecord(Abandon(Reap(Quarantine(dem), idle))[m]) BY <3>3, <4>2, PassClosing
      <4> QED BY <3>1, <3>4, <4>3, PassClosing
    <3> QED BY <3>5 DEF KeepsClosing
  <2>2. CASE Scan \/ Spawn BY <1>k, <2>2 DEF Scan, Spawn, document
  <2> QED BY <1>1, <2>1, <2>2 DEF TickStep
<1>2. ASSUME NEW d \in Demand, WorkerStep(d) PROVE KeepsClosing BY <1>2, ThreadClosing
<1>3. ASSUME NEW d \in Demand, Acquire(d) PROVE KeepsClosing
  <2>1. PICK victims : Fence(d, victims) BY <1>3 DEF Acquire
  <2>2. ASSUME NEW m \in Demand, Closing(m) PROVE ClosingRecord(dem'[m])
    <3>1. m \notin Members(d)
      BY <1>3, <2>2 DEF Acquire, Acquirable, Closing, Displaced
    <3>2. \/ dem'[m] = dem[m]
          \/ dem'[m] = [dem[m] EXCEPT !.state = "Preempting", !.reason = "preempted", !.preemptedBy = d]
      BY <2>1, <3>1 DEF Fence
    <3>3. ClosingRecord(dem[m]) BY <2>2 DEF Closing, ClosingRecord
    <3> QED BY <1>0, <3>2, <3>3 DEF DemandRecord, ClosingRecord, Displaced
  <2> QED BY <2>2 DEF KeepsClosing
<1>4. ASSUME NEW d \in Demand, NEW kind, ControlDemand(d, kind) PROVE KeepsClosing
  <2>1. dem' = [dem EXCEPT ![d] = Close(dem[d], kind)] BY <1>4 DEF ControlDemand
  <2> QED BY <1>0, <2>1, ClosingRecords, OneClosing
<1>5. ASSUME NEW d \in Demand, NEW kind, ControlReservation(d, kind) PROVE KeepsClosing
  <2>1. ASSUME NEW r \in DemandRecord
        PROVE  /\ DOMAIN Close(r, kind) = DOMAIN r /\ "closed" \in DOMAIN r
               /\ \/ Close(r, kind).state \in Displaced
                  \/ /\ Close(r, kind).state = r.state
                     /\ Close(r, kind).released = r.released /\ Close(r, kind).expired = r.expired
    BY DEF Close, DemandRecord, Displaced
  <2>2. ASSUME NEW m \in Demand, ClosingRecord(dem[m]) PROVE ClosingRecord(dem'[m])
    <3>1. \/ dem'[m] = dem[m]
          \/ dem'[m] = Close(dem[m], kind)
          \/ dem'[m] = [Close(dem[m], kind) EXCEPT !.closed = kind]
      BY <1>5 DEF ControlReservation
    <3>2. /\ dem'[m].state \in {dem[m].state, Close(dem[m], kind).state}
          /\ \/ dem'[m].state \in Displaced
             \/ /\ dem'[m].state = dem[m].state
                /\ dem'[m].released = dem[m].released /\ dem'[m].expired = dem[m].expired
      BY <1>0, <2>1, <3>1 DEF DemandRecord
    <3> QED BY <2>2, <3>2 DEF ClosingRecord, Active
  <2> QED BY <2>2, SetClosing
<1>6. ASSUME NEW d \in Demand, Archive(d) PROVE KeepsClosing
  <2>1. \A m \in Demand : dem'[m] \in {dem[m], [dem[m] EXCEPT !.state = "Archived"]}
    BY <1>6 DEF Archive
  <2>2. ASSUME NEW m \in Demand, ClosingRecord(dem[m]) PROVE ClosingRecord(dem'[m])
    <3>1. dem'[m] = dem[m] \/ dem'[m].state \in Displaced
      BY <1>0, <2>1 DEF DemandRecord, Displaced
    <3> QED BY <2>2, <3>1 DEF ClosingRecord
  <2> QED BY <2>2, SetClosing
<1>7. ASSUME NEW d \in Demand, Expire(d) PROVE KeepsClosing
  <2>1. dem' = [dem EXCEPT ![d] = [dem[d] EXCEPT !.expired = TRUE]] BY <1>7 DEF Expire
  <2> QED BY <1>0, <2>1, ClosingRecords, OneClosing
<1>8. ASSUME NEW d \in Demand, BackendDies(d) PROVE KeepsClosing
  BY <1>8, <1>k DEF BackendDies, document
<1>9. ASSUME NEW c \in Call, CallStep(c) PROVE KeepsClosing
  BY <1>9, <1>k DEF CallStep, Submit, DispatchStart, DispatchExpire, Complete, CancelInvocation,
     AnalyseWorkspace
<1>10. CASE Restart
  <2>1. \A m \in Demand : dem'[m] \in {dem[m], [dem[m] EXCEPT !.state = "RecoveryRequired", !.reason = "failure"]}
    BY <1>10 DEF Restart
  <2>2. ASSUME NEW m \in Demand, ClosingRecord(dem[m]) PROVE ClosingRecord(dem'[m])
    <3>1. dem'[m] = dem[m] \/ dem'[m].state \in Displaced
      BY <1>0, <2>1 DEF DemandRecord, Displaced
    <3> QED BY <2>2, <3>1 DEF ClosingRecord
  <2> QED BY <2>2, SetClosing
<1>11. CASE UNCHANGED vars BY <1>11, <1>k DEF vars
<1> QED BY <1>1, <1>2, <1>3, <1>4, <1>5, <1>6, <1>7, <1>8, <1>9, <1>10, <1>11 DEF Next, ClientStep

\* What a step other than the submission or the start of a call does to it.
CallKept(c) ==
    /\ call'[c].of = call[c].of
    /\ call'[c].state = "Running" => call[c].state = "Running"
    /\ call'[c].state # "None" => call[c].state # "None" \/ call[c].of \in Demand

\* The updates of a call record.
LEMMA CallUpdates ==
    ASSUME NEW c \in Call, NEW r \in CallRecord, call[c] = r,
           \/ call'[c] \in {r, CancelCall(r), Supersede(r)}
           \/ r.of \in Demand /\ call'[c] = [r EXCEPT !.state = "Archived"]
           \/ r.state = "Queued" /\ call'[c] = [r EXCEPT !.state = "Expired"]
           \/ r.state = "Running" /\ call'[c] = [r EXCEPT !.state = "Uncertain", !.restart = TRUE]
           \/ call'[c] = [r EXCEPT !.analysed = TRUE]
           \/ r.state = "Running" /\ \E s : call'[c] = [r EXCEPT !.state = s]
    PROVE  CallKept(c)
BY DEF CallRecord, CallKept, CancelCall, Supersede

\* A step that only submits or starts a call, or lets every call be.
CallsMove ==
    \/ \A c \in Call : CallKept(c)
    \/ \E c \in Call : /\ DispatchStart(c) \/ \E d \in Demand : Submit(d, c)
                       /\ \A b \in Call \ {c} : CallKept(b)

\* Calls are submitted, dispatched, or move towards an outcome.
LEMMA NextCalls ==
    ASSUME TypeOK, [Next]_vars
    PROVE  CallsMove
<1>0. call \in [Call -> CallRecord] /\ \A c \in Call : call[c] \in CallRecord BY DEF TypeOK
<1>k. ASSUME UNCHANGED call PROVE CallsMove BY <1>k DEF CallsMove, CallKept
<1>m. ASSUME \A c \in Call :
               \/ call'[c] \in {call[c], CancelCall(call[c]), Supersede(call[c])}
               \/ call[c].of \in Demand /\ call'[c] = [call[c] EXCEPT !.state = "Archived"]
               \/ call[c].state = "Queued" /\ call'[c] = [call[c] EXCEPT !.state = "Expired"]
               \/ call[c].state = "Running" /\ call'[c] = [call[c] EXCEPT !.state = "Uncertain", !.restart = TRUE]
               \/ call'[c] = [call[c] EXCEPT !.analysed = TRUE]
               \/ call[c].state = "Running" /\ \E s : call'[c] = [call[c] EXCEPT !.state = s]
      PROVE  CallsMove
  <2>1. ASSUME NEW c \in Call PROVE CallKept(c) BY <1>0, <1>m, CallUpdates
  <2> QED BY <2>1 DEF CallsMove
<1>1. CASE TickStep
  <2>1. CASE Reconsider
    <3>1. PICK D, late : call' = ExpireCalls(D, late) BY <2>1 DEF Reconsider
    <3> QED BY <1>m, <3>1 DEF ExpireCalls
  <2>2. CASE Scan \/ Spawn BY <1>k, <2>2 DEF Scan, Spawn, document
  <2> QED BY <1>1, <2>1, <2>2 DEF TickStep
<1>2. ASSUME NEW d \in Demand, WorkerStep(d) PROVE CallsMove
  <2>1. CASE RecPrepare(d) BY <1>k, <1>m, <2>1 DEF RecPrepare
  <2>2. CASE \/ Inspect(d) \/ Monitor(d) \/ Boundary(d) \/ Preflight(d)
             \/ DrainPeers(d) \/ DrainWait(d) \/ DrainVictim(d)
             \/ DrainDone(d) \/ DrainBoundary(d) \/ Adopt(d) \/ Empty(d)
             \/ ReadyWait(d) \/ ReadyProbe(d) \/ RetWait(d) \/ RetRead(d)
             \/ RetCache(d) \/ RecQuiesce(d) \/ Missing(d)
    BY <1>k, <2>2 DEF Inspect, Monitor, Boundary, Preflight, DrainPeers, DrainWait, DrainVictim,
       DrainDone, DrainBoundary, Adopt, Empty, ReadyWait, ReadyProbe, RetWait, RetRead,
       RetCache, RecQuiesce, Missing, document
  <2>3. CASE \/ EvictStop(d) \/ DrainStop(d) \/ Start(d) \/ RetStopOnly(d)
             \/ RetStop(d) \/ RecStop(d) \/ EvictMark(d) \/ EvictRemove(d) \/ AdoptEvict(d)
             \/ Transfer(d) \/ AdoptSave(d) \/ RetCacheSave(d) \/ RetFinish(d)
             \/ PreflightSave(d) \/ DrainMark(d) \/ ClaimEffect(d) \/ SaveProcess(d)
             \/ ReadySave(d) \/ ReadyRetire(d) \/ HandleError(d) \/ RecResolve(d) \/ RecFinish(d)
    BY <1>k, <2>3 DEF EvictStop, DrainStop, Start, RetStopOnly, RetStop, RecStop, EvictMark,
       EvictRemove, AdoptEvict, Transfer, AdoptSave, RetCacheSave, RetFinish, PreflightSave,
       DrainMark, ClaimEffect, SaveProcess, ReadySave, ReadyRetire, HandleError, RecResolve,
       RecFinish, document
  <2> QED BY <1>2, <2>1, <2>2, <2>3 DEF WorkerStep, TransitionStep, RecoveryStep
<1>3. ASSUME NEW d \in Demand, ClientStep(d) PROVE CallsMove
  <2>1. CASE Acquire(d) BY <1>m, <2>1 DEF Acquire, Fence
  <2>2. ASSUME NEW kind, ControlDemand(d, kind) \/ ControlReservation(d, kind) PROVE CallsMove
    BY <1>m, <2>2 DEF ControlDemand, ControlReservation, CloseCalls
  <2> QED BY <1>3, <2>1, <2>2 DEF ClientStep
<1>4. ASSUME NEW d \in Demand, Archive(d) PROVE CallsMove BY <1>m, <1>4 DEF Archive, Members
<1>5. ASSUME NEW d \in Demand, Expire(d) \/ BackendDies(d) PROVE CallsMove
  BY <1>k, <1>5 DEF Expire, BackendDies, document
<1>6. ASSUME NEW c \in Call, CallStep(c) PROVE CallsMove
  <2>1. \A b \in Call \ {c} : call'[b] = call[b]
    BY <1>0, <1>6 DEF CallStep, Submit, DispatchStart, DispatchExpire, Complete, CancelInvocation,
       AnalyseWorkspace
  <2>2. CASE DispatchStart(c) \/ \E d \in Demand : Submit(d, c)
    BY <2>1, <2>2 DEF CallsMove, CallKept
  <2>3. CASE DispatchExpire(c) BY <1>0, <1>m, <2>3 DEF DispatchExpire
  <2>4. CASE Complete(c)
    <3>1. PICK s : call' = [call EXCEPT ![c] = [call[c] EXCEPT !.state = s]] BY <2>4 DEF Complete
    <3>2. call[c].state = "Running" BY <2>4 DEF Complete
    <3> QED BY <1>0, <1>m, <3>1, <3>2
  <2>5. CASE CancelInvocation(c) BY <1>0, <1>m, <2>5 DEF CancelInvocation
  <2>6. CASE AnalyseWorkspace(c) BY <1>0, <1>m, <2>6 DEF AnalyseWorkspace
  <2> QED BY <1>6, <2>2, <2>3, <2>4, <2>5, <2>6 DEF CallStep
<1>7. CASE Restart BY <1>m, <1>7 DEF Restart
<1>8. CASE UNCHANGED vars BY <1>k, <1>8 DEF vars
<1> QED BY <1>1, <1>2, <1>3, <1>4, <1>5, <1>6, <1>7, <1>8 DEF Next

\* Giving up the claims of one demand takes nothing from the others.
LEMMA UnclaimedKeeps ==
    ASSUME NEW e \in Demand, Owns(e), NEW v, v # e, claims' = Unclaimed(v)
    PROVE  Owns(e)'
<1>1. \A x \in Resources(e) : x \in Resource BY ShapeAssumption DEF Resources
<1> QED BY <1>1 DEF Owns, Unclaimed, Resources

\* The steps in which a demand loses its GPUs.
LEMMA ClaimsLost ==
    ASSUME TypeOK, [Next]_vars, NEW e \in Demand, Owns(e), ~Owns(e)'
    PROVE  \/ RetFinish(e) \/ RetCacheSave(e)
           \/ RecFinish(e) /\ Quiescent(e)
           \/ \E d \in Demand : DrainMark(d) /\ w[d].tgt = e
<1>k. ~UNCHANGED claims BY DEF Owns, Resources
<1>1. CASE TickStep BY <1>1, <1>k DEF TickStep, Reconsider, Scan, Spawn, document
<1>2. ASSUME NEW d \in Demand, WorkerStep(d)
      PROVE  \/ RetFinish(e) \/ RetCacheSave(e)
             \/ RecFinish(e) /\ Quiescent(e)
             \/ \E t \in Demand : DrainMark(t) /\ w[t].tgt = e
  <2>1. CASE RetFinish(d)
    <3>1. claims' = Unclaimed(d) BY <2>1 DEF RetFinish, Retire
    <3>2. d = e BY <3>1, UnclaimedKeeps
    <3> QED BY <2>1, <3>2
  <2>2. CASE RetCacheSave(d)
    <3>1. claims' = Unclaimed(d) BY <1>k, <2>2 DEF RetCacheSave, Retire
    <3>2. d = e BY <3>1, UnclaimedKeeps
    <3> QED BY <2>2, <3>2
  <2>3. CASE RecFinish(d)
    <3>1. Quiescent(d) /\ claims' = Unclaimed(d) BY <1>k, <2>3 DEF RecFinish
    <3>2. d = e BY <3>1, UnclaimedKeeps
    <3> QED BY <2>3, <3>1, <3>2
  <2>4. CASE DrainMark(d)
    <3>1. claims' = Unclaimed(w[d].tgt) BY <1>k, <2>4 DEF DrainMark
    <3>2. w[d].tgt = e BY <3>1, UnclaimedKeeps
    <3> QED BY <2>4, <3>2
  <2>5. CASE Transfer(d)
    <3>1. \A x \in Resources(d) : claims[x] \in {None, d} BY <1>k, <2>5 DEF Transfer
    <3>2. claims' = [x \in Resource |-> IF x \in Resources(d) THEN d ELSE claims[x]]
      BY <1>k, <2>5 DEF Transfer
    <3>3. \A x \in Resources(e) : x \in Resource /\ claims[x] = e
      BY ShapeAssumption DEF Owns, Resources
    <3>4. \A x \in Resources(e) : claims'[x] = e BY <3>1, <3>2, <3>3, NoneAssumption
    <3> QED BY <3>4 DEF Owns, Resources
  <2>6. CASE \/ Inspect(d) \/ Monitor(d) \/ Boundary(d) \/ Preflight(d)
             \/ DrainPeers(d) \/ DrainWait(d) \/ DrainVictim(d)
             \/ DrainDone(d) \/ DrainBoundary(d) \/ Adopt(d) \/ Empty(d)
             \/ ReadyWait(d) \/ ReadyProbe(d) \/ RetWait(d) \/ RetRead(d)
             \/ RetCache(d) \/ RecQuiesce(d) \/ Missing(d)
    BY <1>k, <2>6 DEF Inspect, Monitor, Boundary, Preflight, DrainPeers, DrainWait, DrainVictim,
       DrainDone, DrainBoundary, Adopt, Empty, ReadyWait, ReadyProbe, RetWait, RetRead,
       RetCache, RecQuiesce, Missing, document
  <2>7. CASE \/ EvictStop(d) \/ DrainStop(d) \/ Start(d) \/ RetStopOnly(d)
             \/ RetStop(d) \/ RecStop(d) \/ EvictMark(d) \/ EvictRemove(d) \/ AdoptEvict(d)
             \/ AdoptSave(d) \/ PreflightSave(d) \/ ClaimEffect(d) \/ SaveProcess(d)
             \/ ReadySave(d) \/ ReadyRetire(d) \/ HandleError(d) \/ RecPrepare(d) \/ RecResolve(d)
    BY <1>k, <2>7 DEF EvictStop, DrainStop, Start, RetStopOnly, RetStop, RecStop, EvictMark,
       EvictRemove, AdoptEvict, AdoptSave, PreflightSave, ClaimEffect, SaveProcess, ReadySave,
       ReadyRetire, HandleError, RecPrepare, RecResolve, document
  <2> QED BY <1>2, <2>1, <2>2, <2>3, <2>4, <2>5, <2>6, <2>7
       DEF WorkerStep, TransitionStep, RecoveryStep
<1>3. ASSUME NEW d \in Demand, ClientStep(d) \/ Archive(d) \/ Expire(d) \/ BackendDies(d) PROVE FALSE
  <2>1. CASE Acquire(d) BY <2>1, AcquireKeeps
  <2>2. ASSUME NEW kind, ControlDemand(d, kind) \/ ControlReservation(d, kind) PROVE FALSE
    BY <1>k, <2>2 DEF ControlDemand, ControlReservation
  <2>3. CASE Archive(d) \/ Expire(d) \/ BackendDies(d)
    BY <1>k, <2>3 DEF Archive, Expire, BackendDies, document
  <2> QED BY <1>3, <2>1, <2>2, <2>3 DEF ClientStep
<1>4. ASSUME NEW c \in Call, CallStep(c) PROVE FALSE
  BY <1>4, <1>k DEF CallStep, Submit, DispatchStart, DispatchExpire, Complete, CancelInvocation,
     AnalyseWorkspace
<1>5. CASE Restart BY <1>5, <1>k DEF Restart
<1>6. CASE UNCHANGED vars BY <1>6, <1>k DEF vars
<1> QED BY <1>1, <1>2, <1>3, <1>4, <1>5, <1>6 DEF Next

\* A closing demand that has no running call starts none.
LEMMA StaysDrained ==
    ASSUME TypeOK, [Next]_vars, NEW v \in Demand, Drained(v), Closing(v)
    PROVE  Drained(v)'
<1> SUFFICES ASSUME NEW c \in Call \ Workspace, call'[c].of = v, call'[c].state = "Running"
             PROVE  FALSE
  BY DEF Drained, CallsOf
<1>0. call \in [Call -> CallRecord] /\ call[c] \in CallRecord BY DEF TypeOK
<1>1. CASE CallKept(c) BY <1>1 DEF CallKept, Drained, CallsOf
<1>2. CASE DispatchStart(c)
  <2>1. call'[c].of = call[c].of BY <1>0, <1>2 DEF DispatchStart, CallRecord
  <2>2. ReservationReady(v) BY <1>2, <2>1 DEF DispatchStart, Eligible
  <2> QED BY <2>2 DEF ReservationReady, Closing, Displaced
<1>3. ASSUME NEW d \in Demand, Submit(d, c) PROVE FALSE
  BY <1>0, <1>3 DEF Submit, CallRecord
<1> QED BY <1>1, <1>2, <1>3, NextCalls DEF CallsMove

\* How a thread comes to a place where it relies on calls.
Enters(d) ==
    /\ w'[d].pc \in Stopping =>
         (w[d].pc \in Stopping /\ w'[d].tgt = w[d].tgt) \/ (Drained(w[d].tgt))'
    /\ w'[d].pc \in Retirement => w[d].pc \in Retirement \/ ClosingRecord(dem'[d])
    /\ w'[d].pc \in GivingUp => w[d].pc \in GivingUp \/ (Drained(d))'

\* What it knows there stays true.
LEMMA QuietThread ==
    ASSUME OwnershipInv, \A e \in Demand : QuietInv(e), [Next]_vars, NEW d \in Demand, Enters(d)
    PROVE  QuietInv(d)'
<1>0. TypeOK /\ ThreadInv(d) /\ QuietInv(d) BY DEF OwnershipInv, WorkerInv
<1>1. KeepsClosing BY <1>0, ClosingStays
<1>2. w[d].pc \in Retirement => ClosingRecord(dem'[d])
  BY <1>0, <1>1 DEF KeepsClosing, QuietInv
<1>3. w[d].pc \in GivingUp => Drained(d)'
  BY <1>0, StaysDrained DEF QuietInv, Retirement
<1>4. w[d].pc \in Stopping /\ w'[d].tgt = w[d].tgt => (Drained(w[d].tgt))'
  <2> SUFFICES ASSUME w[d].pc \in Stopping, w'[d].tgt = w[d].tgt PROVE (Drained(w[d].tgt))'
    OBVIOUS
  <2>1. /\ w[d].tgt \in Demand /\ Drained(w[d].tgt)
        /\ dem[w[d].tgt].state \in Displaced
    BY <1>0 DEF ThreadInv, DrainInv, QuietInv, Stopping
  <2>2. PICK v \in Demand : v = w[d].tgt BY <2>1
  <2>3. Drained(v)' BY <1>0, <2>1, <2>2, StaysDrained DEF Closing
  <2> QED BY <2>2, <2>3 DEF Drained, CallsOf
<1>5. w'[d].pc \in Stopping => (Drained(w[d].tgt))' BY <1>4 DEF Enters
<1>6. w'[d].pc \in Retirement => Closing(d)' BY <1>2 DEF Enters, Closing, ClosingRecord, Active
<1>7. w'[d].pc \in GivingUp => Drained(d)' BY <1>3 DEF Enters
<1> QED BY <1>5, <1>6, <1>7 DEF QuietInv, Stopping, Retirement, GivingUp

\* A thread that stays where it is, or comes to another place, enters nothing.
LEMMA StillEnters ==
    ASSUME NEW d \in Demand,
           w'[d] = w[d] \/ w'[d].pc \notin Stopping \cup Retirement
    PROVE  Enters(d)
BY DEF Enters, Retirement

\* The steps of a thread that lead elsewhere.
LEMMA ElsewhereSteps ==
    ASSUME TypeOK, NEW d \in Demand,
           \/ Monitor(d) \/ Boundary(d) \/ EvictMark(d) \/ EvictStop(d) \/ EvictRemove(d)
           \/ Preflight(d) \/ PreflightSave(d) \/ DrainPeers(d) \/ DrainWait(d) \/ DrainDone(d)
           \/ DrainMark(d) \/ Transfer(d) \/ Adopt(d) \/ AdoptSave(d) \/ AdoptEvict(d)
           \/ Empty(d) \/ ClaimEffect(d) \/ Start(d) \/ SaveProcess(d) \/ ReadyWait(d)
           \/ ReadyProbe(d) \/ ReadySave(d) \/ RetWait(d) \/ RetStopOnly(d) \/ RetFinish(d)
           \/ HandleError(d) \/ Missing(d) \/ RecoveryStep(d)
    PROVE  /\ w'[d].pc \notin Stopping \cup Retirement
           /\ \A e \in Demand \ {d} : w'[e] = w[e]
<1>0. w \in [Demand -> Worker] /\ DOMAIN w = Demand /\ w[d] \in Worker BY DEF TypeOK
<1>g. ASSUME NEW p, p \notin Stopping \cup Retirement, Goto(d, p)
      PROVE  /\ w'[d].pc \notin Stopping \cup Retirement
             /\ \A e \in Demand \ {d} : w'[e] = w[e]
  BY <1>g, GotoFacts
<1>d. ASSUME Done(d)
      PROVE  /\ w'[d].pc \notin Stopping \cup Retirement
             /\ \A e \in Demand \ {d} : w'[e] = w[e]
  BY <1>d, DoneFacts DEF Idle, Stopping, Retirement, GivingUp
<1>p. \A p \in Pc \ {"drainBoundary", "drainStop", "drainMark", "retCache", "retCacheSave", "retStop",
                     "retFinish", "retRead", "retStopOnly"} : p \notin Stopping \cup Retirement
  BY DEF Stopping, Retirement, GivingUp
<1> DEFINE Out == Pc \ {"drainBoundary", "drainStop", "drainMark", "retCache", "retCacheSave", "retStop",
                        "retFinish", "retRead", "retStopOnly"}
<1>o. /\ {"fail", "failFence", "evictMark", "evictStop", "evictRemove", "empty", "preflight", "preflightSave",
          "peers", "drain", "transfer", "ready", "adopt", "adoptSave", "adoptEvict", "claimEffect", "start",
          "saveProcess", "readySave", "readyRetire", "recQuiesce", "recResolve", "recStop", "recFinish"} \subseteq Out
  BY DEF Pc
<1>u. ASSUME NEW p \in Out, w'[d].pc = p, \A e \in Demand \ {d} : w'[e] = w[e]
      PROVE  /\ w'[d].pc \notin Stopping \cup Retirement
             /\ \A e \in Demand \ {d} : w'[e] = w[e]
  BY <1>p, <1>u
<1>x. ASSUME \E p \in Out : Goto(d, p)
      PROVE  /\ w'[d].pc \notin Stopping \cup Retirement
             /\ \A e \in Demand \ {d} : w'[e] = w[e]
  BY <1>g, <1>p, <1>x
<1> HIDE DEF Out
<1>1. CASE Monitor(d) \/ Preflight(d) \/ PreflightSave(d) \/ DrainPeers(d) \/ DrainWait(d) \/ DrainDone(d)
  BY <1>1, <1>d, <1>x, <1>o DEF Monitor, Preflight, PreflightSave, DrainPeers, DrainWait, DrainDone
<1>2. CASE Boundary(d) BY <1>2, <1>x, <1>o DEF Boundary
<1>3. CASE EvictMark(d)
  BY <1>0, <1>3, <1>u, <1>o DEF EvictMark, AfterEviction, Worker
<1>4. CASE EvictStop(d)
  BY <1>0, <1>4, <1>u, <1>x, <1>o DEF EvictStop, Worker
<1>5. CASE EvictRemove(d)
  BY <1>0, <1>5, <1>u, <1>o DEF EvictRemove, AfterEviction, Worker
<1>6. CASE DrainMark(d) \/ Transfer(d) \/ Adopt(d) \/ AdoptSave(d)
  BY <1>6, <1>d, <1>x, <1>o DEF DrainMark, Transfer, Adopt, AdoptSave
<1>7. CASE AdoptEvict(d) BY <1>0, <1>7, <1>u, <1>o DEF AdoptEvict, Worker
<1>8. CASE Empty(d) \/ ClaimEffect(d) \/ Start(d) \/ SaveProcess(d)
  BY <1>8, <1>d, <1>x, <1>o DEF Empty, ClaimEffect, Start, SaveProcess
<1>9. CASE \/ ReadyWait(d) \/ ReadyProbe(d) \/ ReadySave(d) \/ RetWait(d) \/ RetStopOnly(d) \/ RetFinish(d)
           \/ HandleError(d) \/ Missing(d)
  BY <1>9, <1>d, <1>x, <1>o DEF ReadyWait, ReadyProbe, ReadySave, RetWait, RetStopOnly, StopOwned, RetFinish,
     HandleError, Missing
<1>10. CASE RecPrepare(d) \/ RecQuiesce(d) \/ RecStop(d) \/ RecFinish(d)
  BY <1>10, <1>d, <1>x, <1>o DEF RecPrepare, RecQuiesce, RecStop, RecFinish
<1>11. CASE RecResolve(d)
  <2>1. CASE Goto(d, "fail") BY <2>1, <1>x, <1>o
  <2>2. CASE ~Goto(d, "fail")
    <3>1. PICK live : w' = [w EXCEPT ![d].pc = "recStop", ![d].snap.effect = live,
                                     ![d].snap.process = dem[d].process \/ live]
      BY <1>11, <2>2 DEF RecResolve
    <3>2. w'[d].pc = "recStop" /\ \A e \in Demand \ {d} : w'[e] = w[e] BY <1>0, <3>1 DEF Worker
    <3> QED BY <3>2, <1>u, <1>o
  <2> QED BY <2>1, <2>2
<1> QED BY <1>1, <1>2, <1>3, <1>4, <1>5, <1>6, <1>7, <1>8, <1>9, <1>10, <1>11 DEF RecoveryStep

\* The steps of a thread that come to a place where it relies on calls, or stay
\* at one.
LEMMA RelyingSteps ==
    ASSUME TypeOK, NEW d \in Demand,
           \/ Inspect(d) \/ DrainVictim(d) \/ DrainBoundary(d) \/ DrainStop(d) \/ ReadyRetire(d)
           \/ RetRead(d) \/ RetCache(d) \/ RetCacheSave(d) \/ RetStop(d)
    PROVE  Enters(d) /\ \A e \in Demand \ {d} : w'[e] = w[e]
<1>0. w \in [Demand -> Worker] /\ DOMAIN w = Demand /\ w[d] \in Worker BY DEF TypeOK
<1>d. ASSUME Done(d) PROVE Enters(d) /\ \A e \in Demand \ {d} : w'[e] = w[e]
  BY <1>d, DoneFacts DEF Idle, Stopping, Retirement, GivingUp, Enters
<1>f. ASSUME NEW p \in {"fail", "failFence"}, Goto(d, p)
      PROVE  Enters(d) /\ \A e \in Demand \ {d} : w'[e] = w[e]
  BY <1>f, GotoFacts DEF Stopping, Retirement, GivingUp, Enters
<1>s. ASSUME w[d].pc \in Stopping, NEW p \in Stopping, Goto(d, p)
      PROVE  Enters(d) /\ \A e \in Demand \ {d} : w'[e] = w[e]
  BY <1>s, GotoFacts DEF Stopping, Retirement, GivingUp, Enters
<1>r. ASSUME w[d].pc \in GivingUp, NEW p \in GivingUp, Goto(d, p)
      PROVE  Enters(d) /\ \A e \in Demand \ {d} : w'[e] = w[e]
  BY <1>r, GotoFacts DEF Stopping, Retirement, GivingUp, Enters
<1>1. CASE Inspect(d)
  <2> DEFINE p == Advance(dem[d])
  <2>1. CASE Done(d) BY <1>d, <2>1
  <2>2. CASE ~Done(d)
    <3>1. /\ Present(d) /\ dem' = dem
          /\ w' = [w EXCEPT ![d].pc = p, ![d].snap = SnapshotOf(dem[d])]
      BY <1>1, <2>2 DEF Inspect, document
    <3>2. w'[d].pc = p /\ \A e \in Demand \ {d} : w'[e] = w[e] BY <1>0, <3>1 DEF Worker
    <3>3. \/ p \in {"recPrepare", "monitor", "boundary", "idle"}
          \/ p = "retRead" /\ (~Active(dem[d]) \/ dem[d].state = "Releasing")
      BY DEF Advance
    <3>4. p = "retRead" => ClosingRecord(dem'[d])
      BY <3>1, <3>3 DEF ClosingRecord, Displaced, Present
    <3> QED BY <3>2, <3>3, <3>4 DEF Enters, Stopping, Retirement, GivingUp
  <2> QED BY <2>1, <2>2
<1>2. CASE DrainVictim(d)
  <2>1. PICK v \in Undrained(d) :
             \/ ~Inflight(v) /\ w' = [w EXCEPT ![d].pc = "drainBoundary", ![d].tgt = v]
             \/ Goto(d, "fail")
    BY <1>2 DEF DrainVictim
  <2>2. CASE ~Inflight(v) /\ w' = [w EXCEPT ![d].pc = "drainBoundary", ![d].tgt = v]
    <3>1. /\ w'[d].pc = "drainBoundary" /\ w'[d].tgt = v
          /\ \A e \in Demand \ {d} : w'[e] = w[e]
      BY <1>0, <2>2 DEF Worker
    <3>2. Drained(v) BY <2>2 DEF Drained, Inflight
    <3>3. call' = call BY <1>2 DEF DrainVictim, document
    <3>4. (Drained(w[d].tgt))' BY <3>1, <3>2, <3>3 DEF Drained, CallsOf
    <3> QED BY <3>1, <3>4 DEF Enters, Stopping, Retirement, GivingUp
  <2> QED BY <1>f, <2>1, <2>2
<1>3. CASE DrainBoundary(d) \/ DrainStop(d)
  BY <1>3, <1>f, <1>s DEF DrainBoundary, DrainStop, At, Stopping
<1>4. CASE ReadyRetire(d)
  <2>1. ClosingRecord(dem'[d])
    BY <1>4 DEF ReadyRetire, Present, TypeOK, DemandRecord, ClosingRecord, Active
  <2>2. /\ w'[d].pc = "retRead" /\ \A e \in Demand \ {d} : w'[e] = w[e]
    BY <1>4, GotoFacts DEF ReadyRetire
  <2> QED BY <2>1, <2>2 DEF Enters, Stopping, Retirement, GivingUp
<1>5. CASE RetRead(d)
  <2>1. call' = call /\ w[d].pc \in Retirement BY <1>5 DEF RetRead, document, At, Retirement
  <2>2. PICK p : Goto(d, p) /\ \/ p \in {"retStopOnly", "fail"}
                               \/ p \in {"retCache", "retStop"} /\ ~InState(d, {"Running"})
    BY <1>5 DEF RetRead
  <2>3. ~InState(d, {"Running"}) => Drained(d)' BY <2>1 DEF InState, Drained, CallsOf
  <2>4. w'[d].pc = p /\ \A e \in Demand \ {d} : w'[e] = w[e] BY <2>2, GotoFacts
  <2> QED BY <2>1, <2>2, <2>3, <2>4 DEF Enters, Stopping, GivingUp
<1>6. CASE RetCache(d) BY <1>6, <1>r DEF RetCache, At, GivingUp
<1>7. CASE RetCacheSave(d) BY <1>7, <1>d, <1>r DEF RetCacheSave, At, GivingUp
<1>8. CASE RetStop(d)
  <2>1. Goto(d, "retFinish") \/ Goto(d, "fail") BY <1>8 DEF RetStop, StopOwned
  <2>2. w[d].pc \in GivingUp BY <1>8 DEF RetStop, At, GivingUp
  <2> QED BY <1>f, <1>r, <2>1, <2>2 DEF GivingUp
<1> QED BY <1>1, <1>2, <1>3, <1>4, <1>5, <1>6, <1>7, <1>8

\* No step brings a thread there without the facts it relies on.
LEMMA NextEnters ==
    ASSUME TypeOK, [Next]_vars, NEW d \in Demand
    PROVE  Enters(d)
<1>0. w \in [Demand -> Worker] BY DEF TypeOK
<1>k. ASSUME UNCHANGED w PROVE Enters(d) BY <1>k, StillEnters
<1>1. CASE TickStep
  <2>1. CASE Reconsider \/ Scan BY <1>k, <2>1 DEF Reconsider, Scan
  <2>2. CASE Spawn
    <3>1. w' = w \/ \E e : w' = [w EXCEPT ![e].pc = "inspect"] BY <2>2 DEF Spawn
    <3>2. w'[d] = w[d] \/ w'[d].pc = "inspect" BY <1>0, <3>1 DEF Worker
    <3> QED BY <3>2, StillEnters DEF Stopping, Retirement, GivingUp
  <2> QED BY <1>1, <2>1, <2>2 DEF TickStep
<1>2. ASSUME NEW e \in Demand, WorkerStep(e) PROVE Enters(d)
  <2>1. CASE \/ Inspect(e) \/ DrainVictim(e) \/ DrainBoundary(e) \/ DrainStop(e) \/ ReadyRetire(e)
             \/ RetRead(e) \/ RetCache(e) \/ RetCacheSave(e) \/ RetStop(e)
    <3>1. Enters(e) /\ \A f \in Demand \ {e} : w'[f] = w[f] BY <2>1, RelyingSteps
    <3> QED BY <3>1, StillEnters
  <2>2. CASE ~ \/ Inspect(e) \/ DrainVictim(e) \/ DrainBoundary(e) \/ DrainStop(e) \/ ReadyRetire(e)
               \/ RetRead(e) \/ RetCache(e) \/ RetCacheSave(e) \/ RetStop(e)
    <3>1. /\ w'[e].pc \notin Stopping \cup Retirement
          /\ \A f \in Demand \ {e} : w'[f] = w[f]
      BY <1>2, <2>2, ElsewhereSteps DEF WorkerStep, TransitionStep
    <3> QED BY <3>1, StillEnters
  <2> QED BY <2>1, <2>2
<1>3. ASSUME NEW e \in Demand, ClientStep(e) \/ Archive(e) \/ Expire(e) \/ BackendDies(e)
      PROVE  Enters(d)
  BY <1>3, <1>k DEF ClientStep, Acquire, ControlDemand, ControlReservation, Archive, Expire,
     BackendDies
<1>4. ASSUME NEW c \in Call, CallStep(c) PROVE Enters(d)
  BY <1>4, <1>k DEF CallStep, Submit, DispatchStart, DispatchExpire, Complete, CancelInvocation,
     AnalyseWorkspace
<1>5. CASE Restart
  <2>1. w'[d] = Idle BY <1>5 DEF Restart
  <2> QED BY <2>1, StillEnters DEF Idle, Stopping, Retirement, GivingUp
<1>6. CASE UNCHANGED vars BY <1>6, <1>k DEF vars
<1> QED BY <1>1, <1>2, <1>3, <1>4, <1>5, <1>6 DEF Next

\* What threads and calls know of each other is kept by every step.
LEMMA CallsNext == OwnershipInv /\ CallsInv /\ [Next]_vars => CallsInv'
<1> SUFFICES ASSUME OwnershipInv, CallsInv, [Next]_vars PROVE CallsInv' OBVIOUS
<1>0. /\ TypeOK /\ CallsMove
      /\ call \in [Call -> CallRecord]
  BY NextCalls DEF OwnershipInv, TypeOK
<1>1. ASSUME NEW d \in Demand PROVE QuietInv(d)'
  BY <1>0, <1>1, QuietThread, NextEnters DEF CallsInv
<1>2. ASSUME NEW c \in Call, call'[c].state # "None" PROVE call'[c].of \in Demand
  <2>1. CASE CallKept(c) BY <1>2, <2>1 DEF CallKept, CallsInv
  <2>2. CASE DispatchStart(c)
    <3>1. call'[c].of = call[c].of /\ call[c].state # "None"
      BY <1>0, <2>2 DEF DispatchStart, Eligible, CallRecord
    <3> QED BY <3>1 DEF CallsInv
  <2>3. ASSUME NEW d \in Demand, Submit(d, c) PROVE call'[c].of \in Demand
    BY <1>0, <2>3 DEF Submit, CallRecord
  <2> QED BY <1>0, <2>1, <2>2, <2>3 DEF CallsMove
<1>3. ASSUME NEW c \in Call \ Workspace, call'[c].state = "Running" PROVE (Owns(call[c].of))'
  <2>1. CASE call[c].state = "Running" /\ call'[c].of = call[c].of
    <3>1. PICK e \in Demand : e = call[c].of BY <2>1 DEF CallsInv
    <3>2. Owns(e) /\ ~Drained(e) BY <2>1, <3>1 DEF CallsInv, CallsOwned, Drained, CallsOf
    <3>3. ASSUME ~Owns(e)' PROVE FALSE
      <4>1. CASE RetFinish(e) \/ RetCacheSave(e)
        <5>1. w[e].pc \in GivingUp BY <4>1 DEF RetFinish, RetCacheSave, At, GivingUp
        <5> QED BY <3>2, <5>1 DEF CallsInv, QuietInv
      <4>2. CASE Quiescent(e)
        BY <3>2, <4>2 DEF Quiescent, InState, Drained
      <4>3. ASSUME NEW d \in Demand, DrainMark(d), w[d].tgt = e PROVE FALSE
        <5>1. w[d].pc \in Stopping BY <4>3 DEF DrainMark, At, Stopping
        <5> QED BY <3>2, <4>3, <5>1 DEF CallsInv, QuietInv
      <4> QED BY <1>0, <3>2, <3>3, <4>1, <4>2, <4>3, ClaimsLost
    <3> QED BY <2>1, <3>1, <3>3 DEF Owns, Resources
  <2>2. CASE DispatchStart(c)
    <3>1. call'[c].of = call[c].of /\ claims' = claims /\ Owns(call[c].of)
      BY <1>0, <2>2 DEF DispatchStart, Eligible, ReservationReady, CallRecord
    <3> QED BY <3>1 DEF Owns, Resources
  <2>3. ASSUME NEW d \in Demand, Submit(d, c) PROVE FALSE
    BY <1>0, <1>3, <2>3 DEF Submit, CallRecord
  <2> QED BY <1>0, <1>3, <2>1, <2>2, <2>3 DEF CallsMove, CallKept
<1>4. CallsOwned' BY <1>3 DEF CallsOwned, Owns, Resources
<1> QED BY <1>1, <1>2, <1>4 DEF CallsInv

\* A model call that runs keeps the GPUs of its reservation to itself, however
\* preemption, retirement, caching, recovery and restarts interleave with its
\* dispatch.
THEOREM CallsOwnedHolds == Spec => []CallsOwned
<1>1. Init => CallsInv
  BY DEF Init, CallsInv, CallsOwned, QuietInv, NoCall, Idle, Stopping, Retirement, GivingUp
<1>2. CallsInv => CallsOwned BY DEF CallsInv
<1> QED BY <1>1, <1>2, CallsNext, OwnershipHolds, PTL DEF Spec
=============================================================================
