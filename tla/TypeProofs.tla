------------------------------ MODULE TypeProofs ------------------------------
(* Proofs about the receiver for every set of demands, GPUs and profiles,    *)
(* every bound and every kind of failure.                                    *)
EXTENDS Ownership, TLAPS

-----------------------------------------------------------------------------
(* Types.                                                                    *)

\* Init is well typed.
LEMMA TypeInit == Init => TypeOK
BY NoneAssumption, ShapeAssumption, BoundAssumption
   DEF Init, TypeOK, NoDemand, DemandRecord, DemandState, Reason, Closure, CallRecord,
       CallState, NoCall, Call, WarmState, Idle, NoSnap, Worker, Snapshot, Pc

\* A thread that moves to a program counter, or ends, stays well typed.
LEMMA GotoType ==
    ASSUME TypeOK, NEW d \in Demand, NEW p \in Pc, Goto(d, p)
    PROVE  w' \in [Demand -> Worker]
BY DEF TypeOK, Goto, Worker

\* A thread that ends is idle.
LEMMA DoneType ==
    ASSUME TypeOK, NEW d \in Demand, Done(d)
    PROVE  w' \in [Demand -> Worker]
BY DEF TypeOK, Done, Worker, Idle, NoSnap, Snapshot, Pc, DemandState, Reason

\* An update of one demand's record, and of one thread, is typed by its value.
LEMMA DemSet ==
    ASSUME TypeOK, NEW d \in Demand, dem'[d] \in DemandRecord,
           dem' = [dem EXCEPT ![d] = dem'[d]]
    PROVE  dem' \in [Demand -> DemandRecord]
BY DEF TypeOK

\* The same for one thread.
LEMMA ThreadSet ==
    ASSUME TypeOK, NEW d \in Demand, w'[d] \in Worker, w' = [w EXCEPT ![d] = w'[d]]
    PROVE  w' \in [Demand -> Worker]
BY DEF TypeOK

\* Stopping a backend keeps the type of `backend`.
LEMMA StopType ==
    ASSUME TypeOK, NEW a \in Demand, StopOk(a) \/ StopErr(a)
    PROVE  backend' \in [Demand -> BOOLEAN]
BY DEF TypeOK, StopOk, StopErr

\* CancelCall and Supersede map call records to call records.
LEMMA CallUpdateType ==
    ASSUME NEW r \in CallRecord
    PROVE  CancelCall(r) \in CallRecord /\ Supersede(r) \in CallRecord
BY DEF CallRecord, CancelCall, Supersede, CallState

\* Closing a demand keeps the type of its record.
LEMMA CloseType ==
    ASSUME NEW r \in DemandRecord, NEW kind \in {"released", "cancelled"}
    PROVE  Close(r, kind) \in DemandRecord
<1> DEFINE state == IF r.state = "RecoveryRequired" THEN r.state ELSE "Releasing"
           reason == IF r.state = "RecoveryRequired" \/ r.reason = "idle_timeout"
                     THEN r.reason ELSE kind
<1>1. state \in DemandState /\ reason \in Reason /\ kind \in Closure
  BY DEF DemandRecord, DemandState, Reason, Closure
<1>2. CASE r.reconciled BY <1>2 DEF Close
<1>3. CASE ~r.reconciled
  <2>1. Close(r, kind) = [r EXCEPT !.released = TRUE, !.closed = kind,
                                   !.state = state, !.reason = reason]
    BY <1>3 DEF Close
  <2> HIDE DEF state, reason
  <2> QED BY <1>1, <2>1 DEF DemandRecord
<1> QED BY <1>2, <1>3

\* Members of a reservation and roots are demands.
LEMMA RootsAreDemands == Roots \subseteq Demand
BY ShapeAssumption DEF Roots

\* The activation reused or created for a demand runs the demand's profile.
LEMMA ActivationType ==
    ASSUME NEW d \in Demand
    PROVE  ActivationFor(d) \in Demand /\ ProfileOf[ActivationFor(d)] = ProfileOf[d]
<1>1. CASE ProfileOf[d] \in Warmable /\ \E a \in Demand : Compatible(a, d)
  <2>1. PICK a \in Demand : Compatible(a, d) BY <1>1
  <2>2. LET b == CHOOSE b \in Demand : Compatible(b, d)
        IN b \in Demand /\ Compatible(b, d)
    BY <2>1
  <2> QED BY <1>1, <2>2 DEF ActivationFor, Compatible
<1>2. CASE ~(ProfileOf[d] \in Warmable /\ \E a \in Demand : Compatible(a, d))
  BY <1>2 DEF ActivationFor
<1> QED BY <1>1, <1>2

\* The invariant over the next state from the parts an action may change.
LEMMA TypeParts ==
    ASSUME TypeOK,
           dem' \in [Demand -> DemandRecord], claims' \in [Resource -> Demand \cup {None}],
           warm' \in [Demand -> WarmState], call' \in [Call -> CallRecord],
           backend' \in [Demand -> BOOLEAN], w' \in [Demand -> Worker],
           UNCHANGED <<supervision, crashes>>
    PROVE  TypeOK'
BY DEF TypeOK, supervision, Call, CallRecord, CallState, DemandRecord, DemandState, Reason, Closure, Worker, Snapshot, Pc, WarmState

\* The steps of a transition thread that leave the document alone.
LEMMA TypeMoves ==
    ASSUME TypeOK, NEW d \in Demand,
           \/ Inspect(d) \/ Monitor(d) \/ Boundary(d) \/ Preflight(d)
           \/ DrainPeers(d) \/ DrainWait(d) \/ DrainVictim(d) \/ DrainDone(d)
           \/ DrainBoundary(d) \/ Adopt(d) \/ Empty(d) \/ ReadyWait(d) \/ ReadyProbe(d)
           \/ RetWait(d) \/ RetRead(d) \/ RetCache(d) \/ RecQuiesce(d) \/ Missing(d)
    PROVE  TypeOK'
<1>1. UNCHANGED <<document, backend, supervision, crashes>> /\ w' \in [Demand -> Worker]
  <2>1. CASE Inspect(d)
    <3>1. Advance(dem[d]) \in Pc BY DEF Advance, Pc
    <3>2. SnapshotOf(dem[d]) \in Snapshot BY DEF TypeOK, SnapshotOf, Snapshot, DemandRecord
    <3>3. CASE Done(d) BY <2>1, <3>3, DoneType DEF Inspect
    <3>4. CASE ~Done(d)
      <4>1. w' = [w EXCEPT ![d].pc = Advance(dem[d]), ![d].snap = SnapshotOf(dem[d])]
        BY <2>1, <3>4 DEF Inspect
      <4>2. w[d] \in Worker BY DEF TypeOK
      <4>3. [w[d] EXCEPT !.pc = Advance(dem[d]), !.snap = SnapshotOf(dem[d])] \in Worker
        BY <3>1, <3>2, <4>2 DEF Worker
      <4>4. w' = [w EXCEPT ![d] = [w[d] EXCEPT !.pc = Advance(dem[d]), !.snap = SnapshotOf(dem[d])]]
        BY <4>1
      <4> QED BY <2>1, <4>3, <4>4 DEF TypeOK, Inspect
    <3> QED BY <3>3, <3>4
  <2>2. CASE Monitor(d) BY <2>2, GotoType, DoneType DEF Monitor, Pc
  <2>3. CASE Boundary(d) BY <2>3, GotoType, DoneType DEF Boundary, Pc
  <2>4. CASE Preflight(d) BY <2>4, GotoType, DoneType DEF Preflight, Pc
  <2>5. CASE DrainPeers(d) BY <2>5, GotoType, DoneType DEF DrainPeers, Pc
  <2>6. CASE DrainWait(d) BY <2>6, GotoType, DoneType DEF DrainWait, Pc
  <2>7. CASE DrainVictim(d)
    <3>1. PICK v \in Undrained(d) :
            \/ w' = [w EXCEPT ![d].pc = "drainBoundary", ![d].tgt = v]
            \/ Goto(d, "fail")
      BY <2>7 DEF DrainVictim
    <3>2. v \in Demand BY DEF TypeOK, Undrained, DemandRecord
    <3> QED BY <2>7, <3>1, <3>2, GotoType DEF TypeOK, Worker, DrainVictim, Pc
  <2>8. CASE DrainDone(d) BY <2>8, GotoType, DoneType DEF DrainDone, Pc
  <2>9. CASE DrainBoundary(d) BY <2>9, GotoType, DoneType DEF DrainBoundary, Pc
  <2>10. CASE Adopt(d) BY <2>10, GotoType, DoneType DEF Adopt, Pc
  <2>11. CASE Empty(d) BY <2>11, GotoType, DoneType DEF Empty, Pc
  <2>12. CASE ReadyWait(d) BY <2>12, GotoType, DoneType DEF ReadyWait, Pc
  <2>13. CASE ReadyProbe(d) BY <2>13, GotoType, DoneType DEF ReadyProbe, Pc
  <2>14. CASE RetWait(d) BY <2>14, GotoType, DoneType DEF RetWait, Pc
  <2>15. CASE RetRead(d) BY <2>15, GotoType, DoneType DEF RetRead, Pc
  <2>16. CASE RetCache(d) BY <2>16, GotoType, DoneType DEF RetCache, Pc
  <2>17. CASE RecQuiesce(d) BY <2>17, GotoType, DoneType DEF RecQuiesce, Pc
  <2>18. CASE Missing(d) BY <2>18, GotoType, DoneType DEF Missing, Pc
  <2> QED BY <2>1, <2>2, <2>3, <2>4, <2>5, <2>6, <2>7, <2>8, <2>9, <2>10, <2>11, <2>12, <2>13, <2>14, <2>15, <2>16, <2>17, <2>18
<1> QED BY <1>1, TypeParts DEF document, TypeOK

\* The steps that stop, start or lose a backend.
LEMMA TypeEffects ==
    ASSUME TypeOK, NEW d \in Demand,
           \/ EvictStop(d) \/ DrainStop(d) \/ Start(d) \/ RetStopOnly(d) \/ RetStop(d)
           \/ RecStop(d) \/ BackendDies(d)
    PROVE  TypeOK'
<1>0. dem[d].act \in Demand BY DEF TypeOK, DemandRecord
<1>1. /\ UNCHANGED <<document, supervision, crashes>>
      /\ backend' \in [Demand -> BOOLEAN] /\ w' \in [Demand -> Worker]
  <2>1. CASE EvictStop(d)
    <3>1. PICK a \in w[d].evict :
            \/ StopOk(a) /\ w' = [w EXCEPT ![d].pc = "evictRemove", ![d].tgt = a]
            \/ StopErr(a) /\ Goto(d, "fail")
      BY <2>1 DEF EvictStop
    <3>2. a \in Demand BY DEF TypeOK, Worker
    <3> QED BY <2>1, <3>1, <3>2, StopType, GotoType DEF TypeOK, Worker, EvictStop, Pc
  <2>2. CASE DrainStop(d)
    <3>1. ~(w[d].tgt \in Demand) \/ dem[w[d].tgt].act \in Demand BY DEF TypeOK, DemandRecord
    <3> QED BY <2>2, <3>1, StopType, GotoType DEF DrainStop, Pc, StopOk, StopErr, TypeOK
  <2>3. CASE Start(d) BY <2>3, <1>0, GotoType DEF Start, StartOk, StartErr, Pc, TypeOK
  <2>4. CASE RetStopOnly(d)
    BY <2>4, <1>0, StopType, GotoType, DoneType DEF RetStopOnly, StopOwned, Pc, TypeOK
  <2>5. CASE RetStop(d)
    BY <2>5, <1>0, StopType, GotoType DEF RetStop, StopOwned, Pc, TypeOK
  <2>6. CASE RecStop(d) BY <2>6, <1>0, StopType, GotoType DEF RecStop, Pc, TypeOK
  <2>7. CASE BackendDies(d) BY <2>7 DEF BackendDies, TypeOK
  <2> QED BY <2>1, <2>2, <2>3, <2>4, <2>5, <2>6, <2>7
<1> QED BY <1>1, TypeParts DEF document, TypeOK

\* The steps of a transition thread that write the document.
LEMMA TypeWrites ==
    ASSUME TypeOK, NEW d \in Demand,
           \/ EvictMark(d) \/ EvictRemove(d) \/ AdoptSave(d) \/ AdoptEvict(d)
           \/ RetCacheSave(d) \/ RetFinish(d) \/ PreflightSave(d) \/ DrainMark(d)
           \/ Transfer(d) \/ ClaimEffect(d) \/ SaveProcess(d) \/ ReadySave(d)
           \/ ReadyRetire(d) \/ HandleError(d) \/ RecPrepare(d) \/ RecResolve(d)
           \/ RecFinish(d)
    PROVE  TypeOK'
<1>0. /\ dem[d] \in DemandRecord /\ dem[d].act \in Demand /\ DOMAIN dem = Demand
      /\ w[d] \in Worker /\ DOMAIN w = Demand /\ dem = [e \in Demand |-> dem[e]]
      /\ w = [e \in Demand |-> w[e]]
  BY DEF TypeOK, DemandRecord
<1>t. UNCHANGED call => call' \in [Call -> CallRecord] BY DEF TypeOK
<1>1. CASE EvictMark(d)
  <2>1. Incompatible(d) \subseteq Demand BY DEF Incompatible
  <2>2. (IF Incompatible(d) = {} THEN AfterEviction(d) ELSE "evictStop") \in Pc
    BY DEF AfterEviction, Pc
  <2>3. w' = [w EXCEPT ![d].evict = Incompatible(d),
                       ![d].pc = IF Incompatible(d) = {} THEN AfterEviction(d) ELSE "evictStop"]
    BY <1>1 DEF EvictMark
  <2>4. w' \in [Demand -> Worker]
    <3>1. w'[d] \in Worker BY <1>0, <2>1, <2>2, <2>3 DEF Worker
    <3>2. w' = [w EXCEPT ![d] = w'[d]] BY <1>0, <2>3
    <3> QED BY <3>1, <3>2, ThreadSet
  <2>5. warm' \in [Demand -> WarmState] BY <1>1 DEF EvictMark, TypeOK, WarmState
  <2> QED BY <1>1, <1>t, <2>4, <2>5, TypeParts DEF EvictMark, TypeOK
<1>2. CASE EvictRemove(d)
  <2>1. AfterEviction(d) \in Pc /\ "evictStop" \in Pc BY DEF AfterEviction, Pc
  <2>2. w' \in [Demand -> Worker]
    <3>1. w'[d] \in Worker
      <4>1. w[d].evict \ {w[d].tgt} \in SUBSET Demand BY <1>0 DEF Worker
      <4> QED BY <1>0, <1>2, <2>1, <4>1 DEF EvictRemove, Worker
    <3>2. w' = [w EXCEPT ![d] = w'[d]] BY <1>0, <1>2 DEF EvictRemove
    <3> QED BY <3>1, <3>2, ThreadSet
  <2>3. warm' \in [Demand -> WarmState] BY <1>2 DEF EvictRemove, TypeOK, WarmState
  <2> QED BY <1>2, <1>t, <2>2, <2>3, TypeParts DEF EvictRemove, TypeOK
<1>3. CASE AdoptSave(d)
  <2>1. w' \in [Demand -> Worker] BY <1>3, GotoType, DoneType DEF AdoptSave, Pc
  <2>2. warm' \in [Demand -> WarmState] BY <1>3 DEF AdoptSave, TypeOK, WarmState
  <2>3. dem' \in [Demand -> DemandRecord]
    <3>1. dem'[d] \in DemandRecord
      <4>1. dem'[d] = dem[d] \/ dem'[d] = [dem[d] EXCEPT !.process = TRUE, !.effect = TRUE] BY <1>0, <1>3 DEF AdoptSave
      <4> QED BY <1>0, <4>1 DEF DemandRecord
    <3>2. dem' = [dem EXCEPT ![d] = dem'[d]] BY <1>0, <1>3 DEF AdoptSave
    <3> QED BY <3>1, <3>2, DemSet
  <2> QED BY <1>3, <1>t, <2>1, <2>2, <2>3, TypeParts DEF AdoptSave, TypeOK
<1>4. CASE AdoptEvict(d)
  <2>1. w' \in [Demand -> Worker]
    <3>1. w'[d] \in Worker BY <1>0, <1>4 DEF AdoptEvict, Worker, Pc
    <3>2. w' = [w EXCEPT ![d] = w'[d]] BY <1>0, <1>4 DEF AdoptEvict
    <3> QED BY <3>1, <3>2, ThreadSet
  <2>2. warm' \in [Demand -> WarmState] BY <1>4 DEF AdoptEvict, TypeOK, WarmState
  <2> QED BY <1>4, <1>t, <2>1, <2>2, TypeParts DEF AdoptEvict, TypeOK
<1>r. ASSUME Retire(d)
      PROVE  /\ dem' \in [Demand -> DemandRecord]
             /\ claims' \in [Resource -> Demand \cup {None}]
  <2>1. Retired(dem[d]) \in DemandState BY DEF Retired, DemandState
  <2>2. dem' \in [Demand -> DemandRecord]
    <3>1. dem'[d] \in DemandRecord BY <1>0, <1>r, <2>1 DEF Retire, DemandRecord
    <3>2. dem' = [dem EXCEPT ![d] = dem'[d]] BY <1>0, <1>r DEF Retire
    <3> QED BY <3>1, <3>2, DemSet
  <2>3. claims' \in [Resource -> Demand \cup {None}] BY <1>r DEF Retire, Unclaimed, TypeOK
  <2> QED BY <2>2, <2>3
<1>5. CASE RetCacheSave(d)
  <2>1. w' \in [Demand -> Worker] BY <1>5, GotoType, DoneType DEF RetCacheSave, Pc
  <2>2. warm' \in [Demand -> WarmState] BY <1>5 DEF RetCacheSave, TypeOK, WarmState
  <2>3. /\ dem' \in [Demand -> DemandRecord]
        /\ claims' \in [Resource -> Demand \cup {None}]
    BY <1>5, <1>r DEF RetCacheSave, TypeOK
  <2> QED BY <1>5, <1>t, <2>1, <2>2, <2>3, TypeParts DEF RetCacheSave, TypeOK
<1>6. CASE RetFinish(d)
  BY <1>6, <1>r, <1>t, DoneType, TypeParts DEF RetFinish, TypeOK
<1>7. CASE PreflightSave(d)
  <2>1. dem' \in [Demand -> DemandRecord]
    <3>1. dem'[d] \in DemandRecord
      <4>1. (dem[d].preflight \/ Active(dem[d])) \in BOOLEAN OBVIOUS
      <4>2. dem' = [dem EXCEPT ![d].preflight = dem[d].preflight \/ Active(dem[d])]
        BY <1>7 DEF PreflightSave
      <4> QED BY <1>0, <4>1, <4>2 DEF DemandRecord
    <3>2. dem' = [dem EXCEPT ![d] = dem'[d]] BY <1>0, <1>7 DEF PreflightSave
    <3> QED BY <3>1, <3>2, DemSet
  <2> QED BY <1>7, <1>t, <2>1, DoneType, TypeParts DEF PreflightSave, TypeOK
<1>8. CASE DrainMark(d)
  <2>1. w' \in [Demand -> Worker] BY <1>8, GotoType, DoneType DEF DrainMark, Pc
  <2>2. dem' \in [Demand -> DemandRecord]
    <3>1. CASE UNCHANGED dem BY <3>1 DEF TypeOK
    <3>2. CASE ~UNCHANGED dem
      <4>0. dem' = [dem EXCEPT ![w[d].tgt] =
                      [dem[w[d].tgt] EXCEPT !.process = FALSE, !.effect = FALSE,
                                            !.state = "Preempted", !.reason = "preempted"]]
        BY <1>8, <3>2 DEF DrainMark
      <4>1. w[d].tgt \in Demand
        <5> SUFFICES ASSUME w[d].tgt \notin Demand PROVE dem' = dem BY <3>2
        <5> QED BY <1>0, <4>0
      <4>2. dem[w[d].tgt] \in DemandRecord BY <4>1 DEF TypeOK
      <4>3. dem'[w[d].tgt] \in DemandRecord
        <5>1. dem'[w[d].tgt] = [dem[w[d].tgt] EXCEPT !.process = FALSE, !.effect = FALSE,
                                  !.state = "Preempted", !.reason = "preempted"]
          BY <1>0, <4>0, <4>1
        <5> QED BY <4>2, <5>1 DEF DemandRecord, DemandState, Reason
      <4>4. dem' = [dem EXCEPT ![w[d].tgt] = dem'[w[d].tgt]]
        BY <1>0, <4>0, <4>1
      <4> QED BY <4>1, <4>3, <4>4, DemSet
    <3> QED BY <3>1, <3>2
  <2>3. claims' \in [Resource -> Demand \cup {None}] BY <1>8 DEF DrainMark, TypeOK, Unclaimed
  <2> QED BY <1>8, <1>t, <2>1, <2>2, <2>3, TypeParts DEF DrainMark, TypeOK
<1>9. CASE Transfer(d)
  <2>1. w' \in [Demand -> Worker] BY <1>9, GotoType DEF Transfer, Pc
  <2>2. claims' \in [Resource -> Demand \cup {None}] BY <1>9 DEF Transfer, TypeOK
  <2> QED BY <1>9, <1>t, <2>1, <2>2, TypeParts DEF Transfer, TypeOK
<1>10. CASE ClaimEffect(d)
  <2>1. w' \in [Demand -> Worker] BY <1>10, GotoType, DoneType DEF ClaimEffect, Pc
  <2>2. dem' \in [Demand -> DemandRecord]
    <3>1. dem'[d] \in DemandRecord
      <4>1. dem'[d] = dem[d] \/ dem'[d] = [dem[d] EXCEPT !.effect = TRUE] BY <1>0, <1>10 DEF ClaimEffect
      <4> QED BY <1>0, <4>1 DEF DemandRecord
    <3>2. dem' = [dem EXCEPT ![d] = dem'[d]] BY <1>0, <1>10 DEF ClaimEffect
    <3> QED BY <3>1, <3>2, DemSet
  <2> QED BY <1>10, <1>t, <2>1, <2>2, TypeParts DEF ClaimEffect, TypeOK
<1>11. CASE SaveProcess(d)
  <2>1. dem' \in [Demand -> DemandRecord]
    <3>1. dem'[d] \in DemandRecord BY <1>0, <1>11 DEF SaveProcess, DemandRecord
    <3>2. dem' = [dem EXCEPT ![d] = dem'[d]] BY <1>0, <1>11 DEF SaveProcess
    <3> QED BY <3>1, <3>2, DemSet
  <2> QED BY <1>11, <1>t, <2>1, DoneType, TypeParts DEF SaveProcess, TypeOK
<1>12. CASE ReadySave(d)
  <2>1. ASSUME NEW c \in [Demand -> DemandRecord]
        PROVE  CommitReady(d, c) \in [Demand -> DemandRecord]
    BY DEF CommitReady, DemandRecord, DemandState
  <2>2. [dem EXCEPT ![d].checked = TRUE] \in [Demand -> DemandRecord]
    <3>1. [dem[d] EXCEPT !.checked = TRUE] \in DemandRecord BY <1>0 DEF DemandRecord
    <3> QED BY <3>1 DEF TypeOK
  <2>3. dem' \in [Demand -> DemandRecord] BY <1>12, <2>1, <2>2 DEF ReadySave, TypeOK
  <2> QED BY <1>12, <1>t, <2>3, DoneType, TypeParts DEF ReadySave, TypeOK
<1>13. CASE ReadyRetire(d)
  <2>1. w' \in [Demand -> Worker] BY <1>13, GotoType DEF ReadyRetire, Pc
  <2>2. dem' \in [Demand -> DemandRecord]
    <3>1. dem'[d] \in DemandRecord BY <1>0, <1>13 DEF ReadyRetire, DemandRecord, Reason
    <3>2. dem' = [dem EXCEPT ![d] = dem'[d]] BY <1>0, <1>13 DEF ReadyRetire
    <3> QED BY <3>1, <3>2, DemSet
  <2> QED BY <1>13, <1>t, <2>1, <2>2, TypeParts DEF ReadyRetire, TypeOK
<1>14. CASE HandleError(d)
  <2>1. dem' \in [Demand -> DemandRecord]
    <3>1. dem'[d] \in DemandRecord BY <1>0, <1>14 DEF HandleError, DemandRecord, Reason, DemandState
    <3>2. dem' = [dem EXCEPT ![d] = dem'[d]] BY <1>0, <1>14 DEF HandleError
    <3> QED BY <3>1, <3>2, DemSet
  <2> QED BY <1>14, <1>t, <2>1, DoneType, TypeParts DEF HandleError, TypeOK
<1>15. CASE RecPrepare(d)
  <2>1. w' \in [Demand -> Worker] BY <1>15, GotoType DEF RecPrepare, Pc
  <2>2. dem' \in [Demand -> DemandRecord]
    <3>1. dem'[d] \in DemandRecord
      <4>1. dem'[d] = dem[d] \/ dem'[d] = [dem[d] EXCEPT !.released = TRUE] BY <1>0, <1>15 DEF RecPrepare
      <4> QED BY <1>0, <4>1 DEF DemandRecord
    <3>2. dem' = [dem EXCEPT ![d] = dem'[d]] BY <1>0, <1>15 DEF RecPrepare
    <3> QED BY <3>1, <3>2, DemSet
  <2>3. call' \in [Call -> CallRecord] BY <1>15, CallUpdateType DEF RecPrepare, TypeOK
  <2> QED BY <1>15, <2>1, <2>2, <2>3, TypeParts DEF RecPrepare, TypeOK
<1>16. CASE RecResolve(d)
  <2>1. backend[dem[d].act] \in BOOLEAN /\ (dem[d].process \/ backend[dem[d].act]) \in BOOLEAN
    BY <1>0 DEF TypeOK
  <2>2. w' \in [Demand -> Worker]
    <3>1. CASE Goto(d, "fail") BY <3>1, GotoType DEF Pc
    <3>2. CASE ~Goto(d, "fail")
      <4>1. w' = [w EXCEPT ![d].pc = "recStop", ![d].snap.effect = backend[dem[d].act],
                           ![d].snap.process = dem[d].process \/ backend[dem[d].act]]
        BY <1>16, <3>2 DEF RecResolve, Resolved
      <4>2. w'[d] = [w[d] EXCEPT !.pc = "recStop", !.snap =
                      [w[d].snap EXCEPT !.effect = backend[dem[d].act],
                                        !.process = dem[d].process \/ backend[dem[d].act]]]
        BY <1>0, <4>1 DEF Worker, Snapshot
      <4>3. w'[d] \in Worker
        <5>1. w[d].snap \in Snapshot /\ "recStop" \in Pc BY <1>0 DEF Worker, Pc
        <5>2. [w[d].snap EXCEPT !.effect = backend[dem[d].act],
                                !.process = dem[d].process \/ backend[dem[d].act]] \in Snapshot
          BY <2>1, <5>1 DEF Snapshot
        <5> QED BY <1>0, <4>2, <5>1, <5>2 DEF Worker
      <4>4. w' = [w EXCEPT ![d] = w'[d]] BY <1>0, <4>1
      <4> QED BY <4>3, <4>4, ThreadSet
    <3> QED BY <3>1, <3>2
  <2>3. dem' \in [Demand -> DemandRecord]
    <3>1. CASE UNCHANGED dem BY <3>1 DEF TypeOK
    <3>2. CASE dem' = [dem EXCEPT ![d].process = dem[d].process \/ backend[dem[d].act]]
      <4>1. dem'[d] \in DemandRecord BY <1>0, <2>1, <3>2 DEF DemandRecord
      <4>2. dem' = [dem EXCEPT ![d] = dem'[d]] BY <1>0, <3>2
      <4> QED BY <4>1, <4>2, DemSet
    <3> QED BY <1>16, <3>1, <3>2 DEF RecResolve, Resolved
  <2> QED BY <1>16, <1>t, <2>2, <2>3, TypeParts DEF RecResolve, Resolved, TypeOK
<1>17. CASE RecFinish(d)
  <2>1. w' \in [Demand -> Worker] BY <1>17, GotoType, DoneType DEF RecFinish, Pc
  <2>2. Reconciled(dem[d]) \in DemandState BY DEF Reconciled, DemandState
  <2>3. dem' \in [Demand -> DemandRecord]
    <3>1. dem'[d] \in DemandRecord
      <4>1. dem'[d] = dem[d] \/ dem'[d] = [dem[d] EXCEPT !.process = FALSE, !.effect = FALSE,
                    !.reconciled = TRUE, !.state = Reconciled(dem[d])] BY <1>0, <1>17 DEF RecFinish
      <4> QED BY <1>0, <4>1, <2>2 DEF DemandRecord
    <3>2. dem' = [dem EXCEPT ![d] = dem'[d]] BY <1>0, <1>17 DEF RecFinish
    <3> QED BY <3>1, <3>2, DemSet
  <2>4. claims' \in [Resource -> Demand \cup {None}] BY <1>17 DEF RecFinish, TypeOK, Unclaimed
  <2> QED BY <1>17, <1>t, <2>1, <2>3, <2>4, TypeParts DEF RecFinish, TypeOK
<1> QED BY <1>1, <1>2, <1>3, <1>4, <1>5, <1>6, <1>7, <1>8, <1>9, <1>10, <1>11, <1>12,
           <1>13, <1>14, <1>15, <1>16, <1>17

\* The four passes of Reconsider over the demands.
LEMMA PassType ==
    ASSUME NEW D \in [Demand -> DemandRecord], NEW idle
    PROVE  /\ Quarantine(D) \in [Demand -> DemandRecord]
           /\ Reap(D, idle) \in [Demand -> DemandRecord]
           /\ Abandon(D) \in [Demand -> DemandRecord]
           /\ Lapse(D) \in [Demand -> DemandRecord]
<1>1. ASSUME NEW r \in DemandRecord
      PROVE  /\ [r EXCEPT !.state = "RecoveryRequired", !.reason = "failure"] \in DemandRecord
             /\ [r EXCEPT !.state = "Releasing"] \in DemandRecord
  BY DEF DemandRecord, DemandState, Reason
<1>2. ASSUME NEW r \in DemandRecord
      PROVE  /\ [r EXCEPT !.released = TRUE, !.state = "Releasing", !.reason = "idle_timeout"]
                   \in DemandRecord
             /\ [r EXCEPT !.released = TRUE, !.state = "Releasing", !.reason = "preempted"]
                   \in DemandRecord
  BY DEF DemandRecord, DemandState, Reason
<1>3. Quarantine(D) \in [Demand -> DemandRecord] BY <1>1 DEF Quarantine, Update
<1>4. Reap(D, idle) \in [Demand -> DemandRecord] BY <1>2 DEF Reap, Update
<1>5. Abandon(D) \in [Demand -> DemandRecord] BY <1>2 DEF Abandon, Update
<1>6. Lapse(D) \in [Demand -> DemandRecord] BY <1>1 DEF Lapse, Update
<1> QED BY <1>3, <1>4, <1>5, <1>6

\* The supervisor's own steps.
LEMMA TypeTick ==
    ASSUME TypeOK, TickStep
    PROVE  TypeOK'
<1>1. CASE Reconsider
  <2>1. PICK idle, late : /\ dem' = Lapse(Abandon(Reap(Quarantine(dem), idle)))
                          /\ call' = ExpireCalls(dem', late)
    BY <1>1 DEF Reconsider
  <2>2. dem' \in [Demand -> DemandRecord]
    <3>1. dem \in [Demand -> DemandRecord] BY DEF TypeOK
    <3>2. Quarantine(dem) \in [Demand -> DemandRecord] BY <3>1, PassType
    <3>3. Reap(Quarantine(dem), idle) \in [Demand -> DemandRecord] BY <3>2, PassType
    <3>4. Abandon(Reap(Quarantine(dem), idle)) \in [Demand -> DemandRecord] BY <3>3, PassType
    <3> QED BY <2>1, <3>4, PassType
  <2>3. call' \in [Call -> CallRecord]
    <3>1. ASSUME NEW r \in CallRecord PROVE [r EXCEPT !.state = "Expired"] \in CallRecord
      BY DEF CallRecord, CallState
    <3> QED BY <2>1, <3>1 DEF ExpireCalls, TypeOK
  <2> HIDE DEF DemandRecord, CallRecord
  <2> QED BY <1>1, <2>2, <2>3 DEF Reconsider, TypeOK
<1>2. CASE Scan
  <2>1. todo' \subseteq (0 .. 2) \X Demand BY <1>2 DEF Scan, Rank
  <2>2. tick' \in {"reconsider", "scan", "spawn"} BY <1>2 DEF Scan
  <2> QED BY <1>2, <2>1, <2>2 DEF Scan, TypeOK, document, Call
<1>3. CASE Spawn
  <2>1. tick' \in {"reconsider", "scan", "spawn"} BY <1>3 DEF Spawn
  <2>2. todo' \subseteq (0 .. 2) \X Demand BY <1>3 DEF Spawn, TypeOK
  <2>3. w' \in [Demand -> Worker]
    <3>1. CASE UNCHANGED w BY <3>1 DEF TypeOK
    <3>2. CASE ~UNCHANGED w
      <4>1. PICK t \in todo : w' = [w EXCEPT ![t[2]].pc = "inspect"] BY <1>3, <3>2 DEF Spawn
      <4>2. t[2] \in Demand BY DEF TypeOK
      <4>3. Goto(t[2], "inspect") BY <4>1 DEF Goto
      <4> QED BY <4>2, <4>3, GotoType DEF Pc
    <3> QED BY <3>1, <3>2
  <2> QED BY <1>3, <2>1, <2>2, <2>3 DEF Spawn, TypeOK, document, Call
<1> QED BY <1>1, <1>2, <1>3 DEF TickStep

\* Invocations.
LEMMA TypeCalls ==
    ASSUME TypeOK, NEW c \in Call, CallStep(c)
    PROVE  TypeOK'
<1>1. call' \in [Call -> CallRecord]
  <2>0. call[c] \in CallRecord /\ call \in [Call -> CallRecord] BY DEF TypeOK
  <2>1. CASE \E d \in Demand : Submit(d, c)
    <3>1. PICK d \in Demand : call' = [call EXCEPT ![c] = [call[c] EXCEPT !.of = d, !.state = "Queued"]]
      BY <2>1 DEF Submit
    <3>2. [call[c] EXCEPT !.of = d, !.state = "Queued"] \in CallRecord
      BY <2>0 DEF CallRecord, CallState
    <3> QED BY <2>0, <3>1, <3>2
  <2>2. CASE DispatchStart(c) \/ DispatchExpire(c)
    <3>1. \/ call' = [call EXCEPT ![c] = [call[c] EXCEPT !.state = "Running"]]
          \/ call' = [call EXCEPT ![c] = [call[c] EXCEPT !.state = "Expired"]]
      BY <2>2 DEF DispatchStart, DispatchExpire
    <3>2. /\ [call[c] EXCEPT !.state = "Running"] \in CallRecord
          /\ [call[c] EXCEPT !.state = "Expired"] \in CallRecord
      BY <2>0 DEF CallRecord, CallState
    <3> QED BY <2>0, <3>1, <3>2
  <2>3. CASE Complete(c)
    <3>1. PICK s \in Outcome(c) : call' = [call EXCEPT ![c] = [call[c] EXCEPT !.state = s]]
      BY <2>3 DEF Complete
    <3>2. s \in CallState BY DEF Outcome, CallState
    <3>3. [call[c] EXCEPT !.state = s] \in CallRecord BY <2>0, <3>2 DEF CallRecord
    <3> QED BY <2>0, <3>1, <3>3
  <2>4. CASE CancelInvocation(c) BY <2>0, <2>4, CallUpdateType DEF CancelInvocation
  <2>5. CASE AnalyseWorkspace(c)
    <3>1. call' = [call EXCEPT ![c] = [call[c] EXCEPT !.analysed = TRUE]]
      BY <2>5 DEF AnalyseWorkspace
    <3>2. [call[c] EXCEPT !.analysed = TRUE] \in CallRecord BY <2>0 DEF CallRecord
    <3> QED BY <2>0, <3>1, <3>2
  <2> QED BY <2>1, <2>2, <2>3, <2>4, <2>5 DEF CallStep
<1>2. UNCHANGED <<dem, claims, warm, backend, w, supervision, crashes>>
  BY DEF CallStep, Submit, DispatchStart, DispatchExpire, Complete, CancelInvocation,
         AnalyseWorkspace
<1> QED BY <1>1, <1>2, TypeParts DEF TypeOK

\* Acquisition.
LEMMA TypeAcquire ==
    ASSUME TypeOK, NEW r \in Demand, Acquire(r)
    PROVE  TypeOK'
<1> DEFINE victims == UNION {Conflicts(d) : d \in Members(r)}
<1>1. victims \in SUBSET Demand
  <2>1. ASSUME NEW d \in Demand PROVE Conflicts(d) \subseteq Demand
    <3>1. Resources(d) \subseteq Resource BY ShapeAssumption DEF Resources
    <3> QED BY <3>1 DEF Conflicts, TypeOK
  <2> QED BY <2>1 DEF Members
<1>2. Fence(r, victims) /\ UNCHANGED <<warm, backend, w, supervision, crashes>>
  BY DEF Acquire
<1> HIDE DEF victims
<1>3. dem' \in [Demand -> DemandRecord]
  <2>1. ASSUME NEW d \in Demand
        PROVE  /\ [NoDemand(d) EXCEPT !.state = "Preparing", !.victims = victims,
                                     !.act = ActivationFor(d)] \in DemandRecord
               /\ [dem[d] EXCEPT !.state = "Preempting", !.reason = "preempted",
                                 !.preemptedBy = r] \in DemandRecord
               /\ dem[d] \in DemandRecord
    <3>1. dem[d] \in DemandRecord BY DEF TypeOK
    <3>2. NoDemand(d) \in DemandRecord BY DEF NoDemand, DemandRecord, DemandState, Reason, Closure
    <3>3. [NoDemand(d) EXCEPT !.state = "Preparing", !.victims = victims,
                              !.act = ActivationFor(d)] \in DemandRecord
      BY <1>1, <3>2, ActivationType DEF DemandRecord, DemandState
    <3>4. [dem[d] EXCEPT !.state = "Preempting", !.reason = "preempted",
                         !.preemptedBy = r] \in DemandRecord
      BY <3>1 DEF DemandRecord, DemandState, Reason
    <3> QED BY <3>1, <3>3, <3>4
  <2> QED BY <1>2, <2>1 DEF Fence, Prepared
<1>4. call' \in [Call -> CallRecord] BY <1>2, CallUpdateType DEF Fence, TypeOK
<1>5. claims' \in [Resource -> Demand \cup {None}]
  <2>1. ASSUME NEW x \in Resource, \E d \in Members(r) : x \in Resources(d)
        PROVE  (CHOOSE d \in Members(r) : x \in Resources(d)) \in Demand
    BY <2>1 DEF Members
  <2> QED BY <1>2, <2>1 DEF Fence, TypeOK
<1> QED BY <1>2, <1>3, <1>4, <1>5, TypeParts DEF TypeOK

\* Client control, the archive and leases.
LEMMA TypeControl ==
    ASSUME TypeOK, NEW d \in Demand,
           \/ \E kind \in {"released", "cancelled"} :
                 ControlDemand(d, kind) \/ ControlReservation(d, kind)
           \/ Archive(d) \/ Expire(d)
    PROVE  TypeOK'
<1>0. \A e \in Demand : dem[e] \in DemandRecord BY DEF TypeOK
<1>1. ASSUME NEW S, NEW kind PROVE CloseCalls(S, kind) \in [Call -> CallRecord]
  BY CallUpdateType DEF CloseCalls, TypeOK
<1>2. ASSUME NEW kind \in {"released", "cancelled"}, ControlDemand(d, kind) PROVE TypeOK'
  <2>1. dem' = [dem EXCEPT ![d] = Close(dem[d], kind)] BY <1>2 DEF ControlDemand
  <2>2. dem' \in [Demand -> DemandRecord] BY <1>0, <2>1, CloseType DEF TypeOK
  <2>3. call' \in [Call -> CallRecord] BY <1>1, <1>2 DEF ControlDemand
  <2> QED BY <1>2, <2>2, <2>3, TypeParts DEF ControlDemand, TypeOK
<1>3. ASSUME NEW kind \in {"released", "cancelled"}, ControlReservation(d, kind) PROVE TypeOK'
  <2>1. ASSUME NEW e \in Demand
        PROVE  /\ Close(dem[e], kind) \in DemandRecord
               /\ [Close(dem[e], kind) EXCEPT !.closed = kind] \in DemandRecord
    <3>1. Close(dem[e], kind) \in DemandRecord BY <1>0, CloseType
    <3>2. ASSUME NEW r \in DemandRecord PROVE [r EXCEPT !.closed = kind] \in DemandRecord
      BY DEF DemandRecord, Closure
    <3> QED BY <3>1, <3>2
  <2>2. dem' \in [Demand -> DemandRecord] BY <1>0, <1>3, <2>1 DEF ControlReservation
  <2>3. call' \in [Call -> CallRecord] BY <1>1, <1>3 DEF ControlReservation
  <2> QED BY <1>3, <2>2, <2>3, TypeParts DEF ControlReservation, TypeOK
<1>4. CASE Archive(d)
  <2>1. ASSUME NEW r \in DemandRecord PROVE [r EXCEPT !.state = "Archived"] \in DemandRecord
    BY DEF DemandRecord, DemandState
  <2>2. ASSUME NEW r \in CallRecord PROVE [r EXCEPT !.state = "Archived"] \in CallRecord
    BY DEF CallRecord, CallState
  <2>3. dem' \in [Demand -> DemandRecord] BY <1>0, <1>4, <2>1 DEF Archive
  <2>4. call' \in [Call -> CallRecord] BY <1>4, <2>2 DEF Archive, TypeOK
  <2> QED BY <1>4, <2>3, <2>4, TypeParts DEF Archive, TypeOK
<1>5. CASE Expire(d)
  <2>1. ASSUME NEW r \in DemandRecord PROVE [r EXCEPT !.expired = TRUE] \in DemandRecord
    BY DEF DemandRecord
  <2>2. dem' = [dem EXCEPT ![d] = [dem[d] EXCEPT !.expired = TRUE]] BY <1>5 DEF Expire
  <2>3. dem' \in [Demand -> DemandRecord] BY <1>0, <2>1, <2>2 DEF TypeOK
  <2> QED BY <1>5, <2>3, TypeParts DEF Expire, TypeOK
<1> QED BY <1>2, <1>3, <1>4, <1>5

\* The receiver's crash and restart.
LEMMA TypeRestart ==
    ASSUME TypeOK, Restart
    PROVE  TypeOK'
<1>0. \A e \in Demand : dem[e] \in DemandRecord BY DEF TypeOK
<1>1. dem' \in [Demand -> DemandRecord]
  <2>1. ASSUME NEW r \in DemandRecord
        PROVE  [r EXCEPT !.state = "RecoveryRequired", !.reason = "failure"] \in DemandRecord
    BY DEF DemandRecord, DemandState, Reason
  <2> QED BY <1>0, <2>1 DEF Restart
<1>2. call' \in [Call -> CallRecord]
  <2>1. ASSUME NEW r \in CallRecord
        PROVE  [r EXCEPT !.state = "Uncertain", !.restart = TRUE] \in CallRecord
    BY DEF CallRecord, CallState
  <2> QED BY <2>1 DEF Restart, TypeOK
<1>3. warm' \in [Demand -> WarmState] /\ backend' \in [Demand -> BOOLEAN]
  <2>1. ReconcileResidents BY DEF Restart
  <2> QED BY <2>1 DEF ReconcileResidents, TypeOK, WarmState
<1>4. w' \in [Demand -> Worker]
  BY DEF Restart, Idle, NoSnap, Worker, Snapshot, Pc, DemandState, Reason
<1>5. tick' \in {"reconsider", "scan", "spawn"} /\ todo' \subseteq (0 .. 2) \X Demand
      /\ crashes' \in Nat /\ claims' \in [Resource -> Demand \cup {None}]
  <2>1. tick' = "reconsider" /\ todo' = {} /\ crashes' = crashes + 1 /\ claims' = claims
    BY DEF Restart
  <2>2. crashes \in Nat /\ claims \in [Resource -> Demand \cup {None}] BY DEF TypeOK
  <2> QED BY <2>1, <2>2
<1> QED BY <1>1, <1>2, <1>3, <1>4, <1>5 DEF TypeOK, Call

\* Every step keeps the types.
LEMMA TypeNext == TypeOK /\ [Next]_vars => TypeOK'
<1> SUFFICES ASSUME TypeOK, [Next]_vars PROVE TypeOK' OBVIOUS
<1>1. CASE TickStep BY <1>1, TypeTick
<1>2. ASSUME NEW d \in Demand, WorkerStep(d) PROVE TypeOK'
  <2>1. CASE \/ Inspect(d) \/ Monitor(d) \/ Boundary(d) \/ Preflight(d)
            \/ DrainPeers(d) \/ DrainWait(d) \/ DrainVictim(d)
            \/ DrainDone(d) \/ DrainBoundary(d) \/ Adopt(d) \/ Empty(d)
            \/ ReadyWait(d) \/ ReadyProbe(d) \/ RetWait(d) \/ RetRead(d)
            \/ RetCache(d) \/ RecQuiesce(d) \/ Missing(d)
    BY <2>1, TypeMoves
  <2>2. CASE \/ EvictStop(d) \/ DrainStop(d) \/ Start(d) \/ RetStopOnly(d)
            \/ RetStop(d) \/ RecStop(d)
    BY <2>2, TypeEffects
  <2>3. CASE \/ EvictMark(d) \/ EvictRemove(d) \/ AdoptSave(d)
            \/ AdoptEvict(d) \/ RetCacheSave(d) \/ RetFinish(d)
            \/ PreflightSave(d) \/ DrainMark(d) \/ Transfer(d)
            \/ ClaimEffect(d) \/ SaveProcess(d) \/ ReadySave(d)
            \/ ReadyRetire(d) \/ HandleError(d) \/ RecPrepare(d)
            \/ RecResolve(d) \/ RecFinish(d)
    BY <2>3, TypeWrites
  <2> QED BY <1>2, <2>1, <2>2, <2>3 DEF WorkerStep, TransitionStep, RecoveryStep
<1>3. ASSUME NEW d \in Demand, ClientStep(d) \/ Archive(d) \/ Expire(d) PROVE TypeOK'
  BY <1>3, TypeAcquire, TypeControl DEF ClientStep
<1>4. ASSUME NEW d \in Demand, BackendDies(d) PROVE TypeOK' BY <1>4, TypeEffects
<1>5. ASSUME NEW c \in Call, CallStep(c) PROVE TypeOK' BY <1>5, TypeCalls
<1>6. CASE Restart BY <1>6, TypeRestart
<1>7. CASE UNCHANGED vars
  BY <1>7 DEF vars, TypeOK, Call, supervision
<1> QED BY <1>1, <1>2, <1>3, <1>4, <1>5, <1>6, <1>7 DEF Next

\* In every behaviour of the receiver the document, the backends, the threads
\* and the supervisor stay within their types.
THEOREM Typed == Spec => []TypeOK
<1>1. Init => TypeOK BY TypeInit
<1>2. TypeOK /\ [Next]_vars => TypeOK' BY TypeNext
<1> QED BY <1>1, <1>2, PTL DEF Spec
=============================================================================
