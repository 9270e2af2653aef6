--------------------------- MODULE OwnershipProofs ---------------------------
(* OwnershipInv is inductive: no step of a client, of a transition thread,   *)
(* of the supervisor, of the dispatchers or of the machine breaks it. First  *)
(* the frame lemmas and the steps that only move a thread, stop a backend or *)
(* evict, then those that write records, claims or backends.                 *)
EXTENDS TypeProofs

-----------------------------------------------------------------------------
(* GPUs, claims and activations.                                             *)

\* Two demands that hold their claims share no GPU.
LEMMA OwnersDisjoint ==
    ASSUME NEW d \in Demand, NEW e \in Demand, Owns(d), Owns(e), Overlap(d, e)
    PROVE  d = e
BY DEF Owns, Overlap

\* A demand overlaps itself: every profile needs a GPU.
LEMMA SelfOverlap ==
    ASSUME NEW d \in Demand
    PROVE  Overlap(d, d)
BY ShapeAssumption DEF Overlap, Resources

\* The activation of a demand runs on the demand's own GPUs.
LEMMA ActivationGpus ==
    ASSUME TypeOK, RecordInv, NEW d \in Demand, NEW a \in Demand
    PROVE  /\ dem[d].act \in Demand
           /\ Overlap(dem[d].act, a) <=> Overlap(d, a)
           /\ Overlap(a, dem[d].act) <=> Overlap(a, d)
<1>1. dem[d].act \in Demand BY DEF TypeOK, DemandRecord
<1>2. ProfileOf[dem[d].act] = ProfileOf[d] BY DEF RecordInv, Recorded
<1> QED BY <1>1, <1>2 DEF Overlap, Resources

\* Two owners never share an activation.
LEMMA ActivationOwner ==
    ASSUME TypeOK, RecordInv, NEW d \in Demand, NEW e \in Demand,
           Owns(d), Owns(e), dem[d].act = dem[e].act
    PROVE  d = e
<1>1. Overlap(dem[e].act, e) BY ActivationGpus, SelfOverlap
<1>2. Overlap(d, e) BY <1>1, ActivationGpus
<1> QED BY <1>2, OwnersDisjoint

-----------------------------------------------------------------------------
(* A thread that does not move.                                              *)

\* What the steps of others may do to the record of a demand.
Kept(e) ==
    /\ dem'[e].act = dem[e].act
    /\ dem'[e].process = dem[e].process /\ dem'[e].effect = dem[e].effect
    /\ dem[e].preflight => dem'[e].preflight
    /\ dem[e].state = "RecoveryRequired" => dem'[e].state = "RecoveryRequired"
    /\ dem'[e].state = "Preparing" => dem[e].state = "Preparing"

\* What any step may do to the record of a displaced victim.
StaysDisplaced(v) ==
    dem[v].state \in Displaced =>
      /\ dem'[v].state \in Displaced
      /\ dem'[v].state = "Preempting" => dem[v].state = "Preempting" /\ dem'[v].act = dem[v].act

\* The thread of `e` counts on backend `b` not running.
Relied(e, b) ==
    \/ w[e].pc \in {"claimEffect", "start"} /\ Overlap(e, b)
    \/ w[e].pc = "evictRemove" /\ b = w[e].tgt
    \/ w[e].pc = "drainMark" /\ dem[w[e].tgt].state = "Preempting" /\ b = dem[w[e].tgt].act
    \/ w[e].pc = "retFinish" /\ dem[e].effect /\ b = dem[e].act
    \/ w[e].pc = "recFinish" /\ b = dem[e].act

\* A thread that did not move keeps its part of the invariant.
LEMMA StillThread ==
    ASSUME OwnershipInv, NEW d \in Demand, w'[d] = w[d], Kept(d), Owns(d) => Owns(d)',
           Owns(d) /\ warm'[dem[d].act] = "resident" => warm[dem[d].act] = "resident",
           \A b \in Demand : backend'[b] => backend[b] \/ ~Relied(d, b),
           \A v \in Demand : StaysDisplaced(v)
    PROVE  ThreadInv(d)'
<1>0. ThreadInv(d) /\ TypeOK /\ dem[d].act \in Demand
  BY DEF OwnershipInv, WorkerInv, TypeOK, DemandRecord
<1>1. SnapInv(d)' BY <1>0 DEF ThreadInv, SnapInv, Kept
<1>2. ProcessInv(d)' BY <1>0 DEF ThreadInv, ProcessInv, Kept
<1>4. StartInv(d)'
  <2>1. w[d].pc \in {"claimEffect", "start"} => GpuFree(d)'
    <3> SUFFICES ASSUME w[d].pc \in {"claimEffect", "start"}, NEW b \in Demand, backend'[b]
                 PROVE  ~Overlap(d, b)
      BY DEF GpuFree, Overlap, Resources
    <3>1. GpuFree(d) BY <1>0 DEF ThreadInv, StartInv
    <3> QED BY <3>1 DEF GpuFree, Relied
  <2> QED BY <1>0, <2>1 DEF ThreadInv, StartInv, Kept, Acting
<1>5. EvictInv(d)'
  <2>1. w[d].evict \subseteq Demand BY <1>0 DEF TypeOK, Worker
  <2> QED BY <1>0, <2>1 DEF ThreadInv, EvictInv, Kept, Relied, Overlap, Resources
<1>6. DrainInv(d)'
  <2>1. SUFFICES ASSUME w[d].pc \in {"drainBoundary", "drainStop", "drainMark"}
                 PROVE  DrainInv(d)'
    BY DEF DrainInv
  <2> DEFINE v == w[d].tgt
  <2>2. v \in Demand /\ dem[v].state \in Displaced
        /\ (w[d].pc = "drainMark" /\ dem[v].state = "Preempting" => ~backend[dem[v].act])
    BY <1>0, <2>1 DEF ThreadInv, DrainInv
  <2>3. dem[v].act \in Demand /\ StaysDisplaced(v) BY <1>0, <2>2 DEF TypeOK, DemandRecord
  <2> QED BY <2>2, <2>3 DEF DrainInv, StaysDisplaced, Relied
<1>7. RetireInv(d)' BY <1>0 DEF ThreadInv, RetireInv, Kept, Relied
<1>8. RecoverInv(d)' BY <1>0 DEF ThreadInv, RecoverInv, Kept, Relied
<1> QED BY <1>1, <1>2, <1>4, <1>5, <1>6, <1>7, <1>8 DEF ThreadInv

-----------------------------------------------------------------------------
(* Steps that leave the claims alone and start nothing.                      *)

\* What such a step may do to the record of a demand.
Mild(e) ==
    /\ dem'[e].act = dem[e].act
    /\ dem'[e].process = dem[e].process /\ dem'[e].effect = dem[e].effect
    /\ dem[e].preflight => dem'[e].preflight
    /\ \/ dem'[e].state = dem[e].state
       \/ dem[e].state # "RecoveryRequired" /\ dem'[e].state \in {"Releasing", "RecoveryRequired"}
       \/ dem[e].state # "RecoveryRequired" /\ dem'[e].state = "Archived" /\ ~dem[e].effect
       \/ dem[e].state = "Preparing" /\ dem'[e].state = "Ready" /\ dem[e].process

\* Such a step keeps the invariant if the threads it moves keep theirs.
LEMMA MildStep ==
    ASSUME OwnershipInv, TypeOK', claims' = claims,
           \A a \in Demand : backend'[a] => backend[a],
           \A a \in Demand : warm'[a] = "resident" => warm[a] = "resident",
           \A a \in Demand : warm'[a] = "none" /\ backend'[a] => warm[a] = "none",
           \A e \in Demand : Mild(e),
           TodoInv',
           \A e \in Demand : w'[e] = w[e] \/ ThreadInv(e)',
           \A e \in Demand : dem'[e].state = "Absent" => w'[e] = Idle
    PROVE  OwnershipInv'
<1>0. TypeOK /\ Exclusive /\ Covered /\ RecordInv /\ WorkerInv BY DEF OwnershipInv
<1>1. \A e \in Demand : Owns(e)' = Owns(e) BY DEF Owns
<1>2. Exclusive' BY <1>0 DEF Exclusive
<1>3. Covered'
  <2> SUFFICES ASSUME NEW a \in Demand, backend'[a], warm'[a] = "none"
               PROVE  (\E d \in Demand : Present(d) /\ dem[d].act = a /\ dem[d].effect /\ Owns(d))'
    BY DEF Covered
  <2>1. PICK d \in Demand : Present(d) /\ dem[d].act = a /\ dem[d].effect /\ Owns(d)
    BY <1>0 DEF Covered
  <2>2. Present(d)' BY <2>1 DEF Mild, Present
  <2> QED BY <1>1, <2>1, <2>2 DEF Mild
<1>4. RecordInv'
  <2> SUFFICES ASSUME NEW d \in Demand
               PROVE  Recorded(d)'
    BY DEF RecordInv, Recorded
  <2>1. Mild(d) /\ dem[d].act \in Demand BY <1>0 DEF TypeOK, DemandRecord
  <2>2. (dem[d].effect => Present(d) /\ Owns(d) /\ warm[dem[d].act] # "resident")'
    BY <1>0, <1>1, <2>1 DEF RecordInv, Recorded, Mild, Present
  <2> QED BY <1>0, <2>1, <2>2 DEF RecordInv, Recorded, Mild
<1>5. WorkerInv'
  <2>1. \A e \in Demand : Kept(e) /\ StaysDisplaced(e) BY DEF Mild, Kept, StaysDisplaced, Displaced
  <2>2. \A e \in Demand : dem[e].act \in Demand BY <1>0 DEF TypeOK, DemandRecord
  <2> QED BY <1>1, <2>1, <2>2, StillThread DEF WorkerInv
<1> QED BY <1>2, <1>3, <1>4, <1>5 DEF OwnershipInv

-----------------------------------------------------------------------------
(* Moves of one thread.                                                      *)

\* A thread that moves keeps what it remembers.
LEMMA GotoFacts ==
    ASSUME TypeOK, NEW d \in Demand, NEW p, Goto(d, p)
    PROVE  /\ w'[d].pc = p /\ w'[d].snap = w[d].snap
           /\ w'[d].tgt = w[d].tgt /\ w'[d].evict = w[d].evict
           /\ \A e \in Demand \ {d} : w'[e] = w[e]
BY DEF TypeOK, Worker, Goto

\* A thread that ends is idle, and no other thread moves.
LEMMA DoneFacts ==
    ASSUME TypeOK, NEW d \in Demand, Done(d)
    PROVE  w'[d] = Idle /\ \A e \in Demand \ {d} : w'[e] = w[e]
BY DEF TypeOK, Done

\* An idle thread has no obligation.
LEMMA IdleThread ==
    ASSUME NEW d \in Demand, w'[d] = Idle
    PROVE  ThreadInv(d)'
BY DEF ThreadInv, SnapInv, ProcessInv, StartInv, EvictInv, DrainInv, RetireInv, RecoverInv,
       Idle, NoSnap, Acting

\* One that only inspected, or failed, has its snapshot's.
LEMMA FreeThread ==
    ASSUME NEW d \in Demand, w'[d].pc \in {"inspect", "monitor", "fail", "failFence", "recPrepare"},
           w'[d].snap.preflight => dem'[d].preflight
    PROVE  ThreadInv(d)'
BY DEF ThreadInv, SnapInv, ProcessInv, StartInv, EvictInv, DrainInv, RetireInv, RecoverInv, Acting

\* A working thread belongs to a demand that was accepted.
LEMMA WorkingPresent ==
    ASSUME OwnershipInv, NEW d \in Demand, w[d].pc # "idle"
    PROVE  dem[d].state # "Absent"
BY DEF OwnershipInv, RecordInv, Recorded, Idle

\* Only the thread of `d` moves, and the document keeps its demands and claims.
LEMMA ThreadStep ==
    ASSUME OwnershipInv, TypeOK', NEW d \in Demand, w[d].pc # "idle",
           UNCHANGED <<dem, claims, supervision>>,
           \A a \in Demand : backend'[a] => backend[a],
           \A a \in Demand : warm'[a] = "resident" => warm[a] = "resident",
           \A a \in Demand : warm'[a] = "none" /\ backend'[a] => warm[a] = "none",
           \A e \in Demand \ {d} : w'[e] = w[e],
           ThreadInv(d)'
    PROVE  OwnershipInv'
<1>1. \A e \in Demand : Mild(e) BY DEF Mild
<1>2. TodoInv' BY DEF OwnershipInv, TodoInv, supervision
<1>3. \A e \in Demand : dem'[e].state = "Absent" => w'[e] = Idle
  BY WorkingPresent DEF OwnershipInv, RecordInv, Recorded
<1>4. \A e \in Demand : w'[e] = w[e] \/ ThreadInv(e)' OBVIOUS
<1> QED BY <1>1, <1>2, <1>3, <1>4, MildStep

\* Only the thread of `d` moves; document and backends stay.
LEMMA QuietStep ==
    ASSUME OwnershipInv, TypeOK', NEW d \in Demand, w[d].pc # "idle",
           UNCHANGED <<document, backend, supervision>>,
           \A e \in Demand \ {d} : w'[e] = w[e],
           ThreadInv(d)'
    PROVE  OwnershipInv'
BY ThreadStep DEF document

\* The steps of a transition thread that leave the document alone.
LEMMA OwnMoves ==
    ASSUME OwnershipInv, NEW d \in Demand,
           \/ Inspect(d) \/ Monitor(d) \/ Boundary(d) \/ Preflight(d)
           \/ DrainPeers(d) \/ DrainWait(d) \/ DrainVictim(d) \/ DrainDone(d)
           \/ DrainBoundary(d) \/ Adopt(d) \/ Empty(d) \/ ReadyWait(d) \/ ReadyProbe(d)
           \/ RetWait(d) \/ RetRead(d) \/ RetCache(d) \/ RecQuiesce(d) \/ Missing(d)
    PROVE  OwnershipInv'
<1>0. TypeOK /\ RecordInv /\ ThreadInv(d) BY DEF OwnershipInv, WorkerInv
<1>1. TypeOK' BY <1>0, TypeMoves
<1>2. UNCHANGED <<document, backend, supervision>> /\ w[d].pc # "idle"
  <2> USE DEF At
  <2>1. CASE Inspect(d) BY <2>1 DEF Inspect
  <2>2. CASE Monitor(d) BY <2>2 DEF Monitor
  <2>3. CASE Boundary(d) BY <2>3 DEF Boundary
  <2>4. CASE Preflight(d) BY <2>4 DEF Preflight
  <2>5. CASE DrainPeers(d) BY <2>5 DEF DrainPeers
  <2>6. CASE DrainWait(d) BY <2>6 DEF DrainWait
  <2>7. CASE DrainVictim(d) BY <2>7 DEF DrainVictim
  <2>8. CASE DrainDone(d) BY <2>8 DEF DrainDone
  <2>9. CASE DrainBoundary(d) BY <2>9 DEF DrainBoundary
  <2>10. CASE Adopt(d) BY <2>10 DEF Adopt
  <2>11. CASE Empty(d) BY <2>11 DEF Empty
  <2>12. CASE ReadyWait(d) BY <2>12 DEF ReadyWait
  <2>13. CASE ReadyProbe(d) BY <2>13 DEF ReadyProbe
  <2>14. CASE RetWait(d) BY <2>14 DEF RetWait
  <2>15. CASE RetRead(d) BY <2>15 DEF RetRead
  <2>16. CASE RetCache(d) BY <2>16 DEF RetCache
  <2>17. CASE RecQuiesce(d) BY <2>17 DEF RecQuiesce
  <2>18. CASE Missing(d) BY <2>18 DEF Missing, DocumentPc
  <2> QED BY <2>1, <2>2, <2>3, <2>4, <2>5, <2>6, <2>7, <2>8, <2>9, <2>10, <2>11, <2>12, <2>13, <2>14, <2>15, <2>16, <2>17, <2>18
<1>3. Owns(d)' = Owns(d) /\ GpuFree(d)' = GpuFree(d) /\ dem' = dem /\ warm' = warm
  BY <1>2 DEF Owns, GpuFree, document
<1>4. \A p : Goto(d, p) => /\ w'[d].pc = p /\ w'[d].snap = w[d].snap
                           /\ w'[d].tgt = w[d].tgt /\ w'[d].evict = w[d].evict
                           /\ \A e \in Demand \ {d} : w'[e] = w[e]
  BY <1>0, GotoFacts
<1>5. CASE Done(d) BY <1>0, <1>1, <1>2, <1>5, DoneFacts, IdleThread, QuietStep
<1>6. ASSUME NEW p \in {"monitor", "fail", "failFence", "recPrepare"}, Goto(d, p)
      PROVE  OwnershipInv'
  <2>1. w'[d].snap.preflight => dem'[d].preflight BY <1>0, <1>3, <1>4, <1>6 DEF ThreadInv, SnapInv
  <2> QED BY <1>1, <1>2, <1>4, <1>6, <2>1, FreeThread, QuietStep
<1> SUFFICES ASSUME ~Done(d), \A p \in {"monitor", "fail", "failFence", "recPrepare"} : ~Goto(d, p)
             PROVE  OwnershipInv'
  BY <1>5, <1>6
<1>7. ThreadInv(d)' /\ \A e \in Demand \ {d} : w'[e] = w[e]
  <2> USE <1>0, <1>3, <1>4 DEF At, ThreadInv, SnapInv, ProcessInv, StartInv, EvictInv, DrainInv,
          RetireInv, RecoverInv, Acting
  <2>1. CASE Inspect(d)
    <3>1. /\ w'[d].pc = Advance(dem[d]) /\ w'[d].snap = SnapshotOf(dem[d])
          /\ \A e \in Demand \ {d} : w'[e] = w[e]
      BY <2>1 DEF Inspect, TypeOK, Worker
    <3>2. \/ Advance(dem[d]) \in {"recPrepare", "retRead", "monitor"}
          \/ Advance(dem[d]) = "boundary" /\ dem[d].state = "Preparing"
      BY <2>1 DEF Inspect, Advance
    <3>3. /\ w'[d].snap.preflight = dem[d].preflight /\ w'[d].snap.process = dem[d].process
          /\ w'[d].snap.effect = dem[d].effect
      BY <3>1 DEF SnapshotOf
    <3>4. dem[d].state = "Preparing" /\ dem[d].process => dem[d].preflight BY DEF RecordInv, Recorded
    <3> QED BY <3>1, <3>2, <3>3, <3>4
  <2>2. CASE Monitor(d) BY <2>2 DEF Monitor
  <2>3. CASE Boundary(d) BY <2>3 DEF Boundary
  <2>4. CASE Preflight(d) BY <2>4 DEF Preflight
  <2>5. CASE DrainPeers(d) BY <2>5 DEF DrainPeers
  <2>6. CASE DrainWait(d) BY <2>6 DEF DrainWait
  <2>7. CASE DrainVictim(d)
    <3>1. PICK v \in Undrained(d) : /\ dem[v].state = "Preempting"
                                    /\ w' = [w EXCEPT ![d].pc = "drainBoundary", ![d].tgt = v]
      BY <2>7 DEF DrainVictim
    <3>2. v \in Demand BY DEF Undrained, TypeOK, DemandRecord
    <3>3. /\ w'[d].pc = "drainBoundary" /\ w'[d].snap = w[d].snap /\ w'[d].tgt = v
          /\ \A e \in Demand \ {d} : w'[e] = w[e]
      BY <3>1 DEF TypeOK, Worker
    <3> QED BY <2>7, <3>1, <3>2, <3>3 DEF DrainVictim, Displaced
  <2>8. CASE DrainDone(d) BY <2>8 DEF DrainDone
  <2>9. CASE DrainBoundary(d) BY <2>9 DEF DrainBoundary
  <2>10. CASE Adopt(d) BY <2>10 DEF Adopt, PreparingOwner
  <2>11. CASE Empty(d) BY <2>11 DEF Empty
  <2>12. CASE ReadyWait(d) BY <2>12 DEF ReadyWait
  <2>13. CASE ReadyProbe(d) BY <2>13 DEF ReadyProbe
  <2>14. CASE RetWait(d) BY <2>14 DEF RetWait
  <2>15. CASE RetRead(d) BY <2>15 DEF RetRead
  <2>16. CASE RetCache(d) BY <2>16 DEF RetCache
  <2>17. CASE RecQuiesce(d) BY <2>17 DEF RecQuiesce, Quiescent, RecoveryFence
  <2>18. CASE Missing(d) BY <2>18 DEF Missing
  <2> QED BY <2>1, <2>2, <2>3, <2>4, <2>5, <2>6, <2>7, <2>8, <2>9, <2>10, <2>11, <2>12, <2>13, <2>14, <2>15, <2>16, <2>17, <2>18
<1> QED BY <1>1, <1>2, <1>7, QuietStep

\* Stopping a backend starts none, and Ok means that it is gone.
LEMMA StopFacts ==
    ASSUME TypeOK, NEW a \in Demand, StopOk(a) \/ StopErr(a)
    PROVE  /\ \A b \in Demand : backend'[b] => backend[b]
           /\ StopOk(a) => ~backend'[a]
BY DEF TypeOK, StopOk, StopErr

\* The steps that stop or lose a backend.
LEMMA OwnStops ==
    ASSUME OwnershipInv, NEW d \in Demand,
           EvictStop(d) \/ DrainStop(d) \/ RetStopOnly(d) \/ RetStop(d) \/ RecStop(d)
    PROVE  OwnershipInv'
<1>0. TypeOK /\ RecordInv /\ ThreadInv(d) /\ dem[d].act \in Demand
  BY DEF OwnershipInv, WorkerInv, TypeOK, DemandRecord
<1>1. TypeOK' BY <1>0, TypeEffects
<1>2. UNCHANGED <<document, supervision>> /\ w[d].pc # "idle"
  BY DEF At, EvictStop, DrainStop, RetStopOnly, RetStop, RecStop
<1>3. Owns(d)' = Owns(d) /\ dem' = dem /\ warm' = warm /\ claims' = claims
  BY <1>2 DEF Owns, document
<1>s. ASSUME \A b \in Demand : backend'[b] => backend[b],
             \A e \in Demand \ {d} : w'[e] = w[e], ThreadInv(d)'
      PROVE  OwnershipInv'
  BY <1>1, <1>2, <1>3, <1>s, ThreadStep
<1>f. ASSUME \A b \in Demand : backend'[b] => backend[b], Goto(d, "fail")
      PROVE  OwnershipInv'
  <2>1. w'[d].snap.preflight => dem'[d].preflight
    BY <1>0, <1>3, <1>f, GotoFacts DEF ThreadInv, SnapInv
  <2> QED BY <1>0, <1>s, <1>f, <2>1, GotoFacts, FreeThread
<1> USE DEF At, ThreadInv, SnapInv, ProcessInv, StartInv, EvictInv, DrainInv,
        RetireInv, RecoverInv, Acting
<1>4. CASE EvictStop(d)
  <2>1. PICK a \in w[d].evict :
          \/ StopOk(a) /\ w' = [w EXCEPT ![d].pc = "evictRemove", ![d].tgt = a]
          \/ StopErr(a) /\ Goto(d, "fail")
    BY <1>4 DEF EvictStop
  <2>2. a \in Demand BY <1>0 DEF TypeOK, Worker
  <2>3. CASE StopErr(a) /\ Goto(d, "fail") BY <1>0, <1>f, <2>2, <2>3, StopFacts
  <2>4. CASE StopOk(a) /\ w' = [w EXCEPT ![d].pc = "evictRemove", ![d].tgt = a]
    <3>1. /\ w'[d].pc = "evictRemove" /\ w'[d].snap = w[d].snap /\ w'[d].tgt = a
          /\ w'[d].evict = w[d].evict /\ \A e \in Demand \ {d} : w'[e] = w[e]
      BY <1>0, <2>4 DEF TypeOK, Worker
    <3>2. ~backend'[a] /\ \A b \in Demand : backend'[b] => backend[b]
      BY <1>0, <2>2, <2>4, StopFacts
    <3>3. ThreadInv(d)' BY <1>0, <1>3, <1>4, <3>1, <3>2 DEF EvictStop
    <3> QED BY <1>s, <3>1, <3>2, <3>3
  <2> QED BY <2>1, <2>3, <2>4
<1>5. CASE DrainStop(d)
  <2> DEFINE v == w[d].tgt
  <2>1. v \in Demand /\ dem[v].act \in Demand /\ dem[v].state \in Displaced
    BY <1>0, <1>5 DEF DrainStop, TypeOK, DemandRecord
  <2>2. \A b \in Demand : backend'[b] => backend[b]
    BY <1>0, <1>5, <2>1, StopFacts DEF DrainStop
  <2>3. CASE Goto(d, "fail") BY <1>f, <2>2, <2>3
  <2>4. CASE StopOk(dem[v].act) /\ Goto(d, "drainMark")
    <3>1. ~backend'[dem[v].act] BY <1>0, <2>1, <2>4, StopFacts
    <3>2. w'[d].pc = "drainMark" /\ w'[d].tgt = v /\ w'[d].snap = w[d].snap
      BY <1>0, <2>4, GotoFacts
    <3>3. ThreadInv(d)' BY <1>0, <1>3, <1>5, <2>1, <3>1, <3>2 DEF DrainStop
    <3> QED BY <1>0, <1>s, <2>2, <2>4, <3>3, GotoFacts
  <2> QED BY <1>5, <2>3, <2>4 DEF DrainStop
<1>6. CASE RetStopOnly(d)
  <2>1. \A b \in Demand : backend'[b] => backend[b]
    BY <1>0, <1>6, StopFacts DEF RetStopOnly, StopOwned
  <2>2. CASE Goto(d, "fail") BY <1>f, <2>1, <2>2
  <2>3. CASE Done(d) BY <1>0, <1>s, <2>1, <2>3, DoneFacts, IdleThread
  <2> QED BY <1>6, <2>2, <2>3 DEF RetStopOnly, StopOwned
<1>7. CASE RetStop(d)
  <2>1. \A b \in Demand : backend'[b] => backend[b]
    BY <1>0, <1>7, StopFacts DEF RetStop, StopOwned
  <2>2. CASE Goto(d, "fail") BY <1>f, <2>1, <2>2
  <2>3. CASE Goto(d, "retFinish")
    <3>1. w[d].snap.process \/ w[d].snap.effect => StopOk(dem[d].act) \/ Goto(d, "fail")
      BY <1>7 DEF RetStop, StopOwned
    <3>2. ~Goto(d, "fail") BY <1>0, <2>3, GotoFacts
    <3>3. dem[d].effect => ~backend'[dem[d].act]
      BY <1>0, <1>7, <3>1, <3>2, StopFacts DEF RetStop
    <3>4. w'[d].pc = "retFinish" /\ w'[d].snap = w[d].snap BY <1>0, <2>3, GotoFacts
    <3>5. ThreadInv(d)' BY <1>0, <1>3, <1>7, <3>3, <3>4 DEF RetStop
    <3> QED BY <1>0, <1>s, <2>1, <2>3, <3>5, GotoFacts
  <2> QED BY <1>7, <2>2, <2>3 DEF RetStop, StopOwned
<1>8. CASE RecStop(d)
  <2>1. \A b \in Demand : backend'[b] => backend[b] BY <1>0, <1>8, StopFacts DEF RecStop
  <2>2. CASE Goto(d, "fail") BY <1>f, <2>1, <2>2
  <2>3. CASE Goto(d, "recFinish")
    <3>1. ~Goto(d, "fail") BY <1>0, <2>3, GotoFacts
    <3>2. ~backend'[dem[d].act]
      <4>1. CASE w[d].snap.effect BY <1>0, <1>8, <3>1, <4>1, StopFacts DEF RecStop
      <4>2. CASE ~w[d].snap.effect
        <5>1. GpuFree(d) /\ backend' = backend BY <1>8, <3>1, <4>2 DEF RecStop
        <5>2. Overlap(d, dem[d].act) BY <1>0, ActivationGpus, SelfOverlap
        <5> QED BY <1>0, <5>1, <5>2 DEF GpuFree
      <4> QED BY <4>1, <4>2
    <3>3. w'[d].pc = "recFinish" /\ w'[d].snap = w[d].snap BY <1>0, <2>3, GotoFacts
    <3>4. ThreadInv(d)' BY <1>0, <1>3, <1>8, <3>2, <3>3 DEF RecStop
    <3> QED BY <1>0, <1>s, <2>1, <2>3, <3>4, GotoFacts
  <2> QED BY <1>8, <2>2, <2>3 DEF RecStop
<1> QED BY <1>4, <1>5, <1>6, <1>7, <1>8

\* The steps that change the warm cache only.
LEMMA OwnEvictions ==
    ASSUME OwnershipInv, NEW d \in Demand, EvictMark(d) \/ EvictRemove(d) \/ AdoptEvict(d)
    PROVE  OwnershipInv'
<1>0. TypeOK /\ RecordInv /\ ThreadInv(d) /\ dem[d].act \in Demand
  BY DEF OwnershipInv, WorkerInv, TypeOK, DemandRecord
<1>1. TypeOK' BY <1>0, TypeWrites
<1>2. UNCHANGED <<dem, claims, backend, supervision>> /\ w[d].pc # "idle"
  BY DEF At, EvictMark, EvictRemove, AdoptEvict
<1>3. Owns(d)' = Owns(d) BY <1>2 DEF Owns
<1>s. ASSUME \A a \in Demand : warm'[a] = "resident" => warm[a] = "resident",
             \A a \in Demand : warm'[a] = "none" /\ backend[a] => warm[a] = "none",
             \A e \in Demand \ {d} : w'[e] = w[e], ThreadInv(d)'
      PROVE  OwnershipInv'
  BY <1>1, <1>2, <1>s, ThreadStep
<1> USE DEF At, ThreadInv, SnapInv, ProcessInv, StartInv, EvictInv, DrainInv,
        RetireInv, RecoverInv, Acting
<1>4. CASE EvictMark(d)
  <2>1. /\ w'[d].evict = Incompatible(d) /\ w'[d].snap = w[d].snap
        /\ w'[d].pc = (IF Incompatible(d) = {} THEN AfterEviction(d) ELSE "evictStop")
        /\ \A e \in Demand \ {d} : w'[e] = w[e]
    BY <1>0, <1>4 DEF EvictMark, TypeOK, Worker
  <2>2. /\ \A a \in Demand : warm'[a] = "resident" => warm[a] = "resident"
        /\ \A a \in Demand : warm'[a] = "none" /\ backend[a] => warm[a] = "none"
    BY <1>4 DEF EvictMark
  <2>3. ~w[d].snap.preflight /\ ~dem[d].process BY <1>0, <1>4 DEF EvictMark
  <2>4. Incompatible(d) # {} => Owns(d) BY DEF Incompatible, PreparingOwner
  <2>5. \A a \in Incompatible(d) : Overlap(a, d) BY DEF Incompatible, Overlap
  <2>6. AfterEviction(d) = "preflight" BY <2>3 DEF AfterEviction
  <2>7. (\A a \in w[d].evict : Overlap(a, d))' = \A a \in Incompatible(d) : Overlap(a, d)
    BY <2>1 DEF Overlap, Resources
  <2>8. ThreadInv(d)' BY <1>0, <1>2, <1>3, <2>1, <2>3, <2>4, <2>5, <2>6, <2>7
  <2> QED BY <1>s, <2>1, <2>2, <2>8
<1>5. CASE EvictRemove(d)
  <2> DEFINE a == w[d].tgt
             left == w[d].evict \ {a}
  <2>1. a \in w[d].evict /\ ~backend[a] /\ a \in Demand
    BY <1>0, <1>5 DEF EvictRemove, TypeOK, Worker
  <2>2. /\ w'[d].evict = left /\ w'[d].snap = w[d].snap
        /\ w'[d].pc = (IF left = {} THEN AfterEviction(d) ELSE "evictStop")
        /\ \A e \in Demand \ {d} : w'[e] = w[e]
    BY <1>0, <1>5 DEF EvictRemove, TypeOK, Worker
  <2>3. warm' = [warm EXCEPT ![a] = "none"] BY <1>5 DEF EvictRemove
  <2>4. /\ \A b \in Demand : warm'[b] = "resident" => warm[b] = "resident"
        /\ \A b \in Demand : warm'[b] = "none" /\ backend[b] => warm[b] = "none"
        /\ warm'[a] = "none"
    BY <1>0, <2>1, <2>3 DEF TypeOK
  <2>5. w[d].snap.preflight => a = dem[d].act /\ left = {} BY <1>0, <1>5, <2>1 DEF EvictRemove
  <2>6. Owns(d) /\ ~dem[d].process /\ \A b \in left : Overlap(b, d)
    BY <1>0, <1>5 DEF EvictRemove
  <2>7. ThreadInv(d)'
    <3>1. CASE w[d].snap.preflight
      <4>1. w'[d].pc = "empty" BY <2>2, <2>5, <3>1 DEF AfterEviction
      <4> QED BY <1>0, <1>2, <1>3, <2>2, <2>4, <2>5, <2>6, <3>1, <4>1
    <3>2. CASE ~w[d].snap.preflight
      <4>1. w'[d].pc = "preflight" \/ w'[d].pc = "evictStop" BY <2>2, <3>2 DEF AfterEviction
      <4>2. (\A b \in w[d].evict : Overlap(b, d))' BY <2>2, <2>6 DEF Overlap, Resources
      <4> QED BY <1>0, <1>2, <1>3, <2>2, <2>6, <3>2, <4>1, <4>2
    <3> QED BY <3>1, <3>2
  <2> QED BY <1>s, <2>2, <2>4, <2>7
<1>6. CASE AdoptEvict(d)
  <2>1. /\ w'[d].evict = {dem[d].act} /\ w'[d].snap = w[d].snap /\ w'[d].pc = "evictStop"
        /\ \A e \in Demand \ {d} : w'[e] = w[e]
    BY <1>0, <1>6 DEF AdoptEvict, TypeOK, Worker
  <2>2. /\ \A a \in Demand : warm'[a] = "resident" => warm[a] = "resident"
        /\ \A a \in Demand : warm'[a] = "none" /\ backend[a] => warm[a] = "none"
    BY <1>0, <1>6 DEF AdoptEvict, TypeOK, WarmState
  <2>3. Overlap(dem[d].act, d) BY <1>0, ActivationGpus, SelfOverlap
  <2>4. (\A a \in w[d].evict : Overlap(a, d))' BY <2>1, <2>3 DEF Overlap, Resources
  <2>5. ThreadInv(d)' BY <1>0, <1>2, <1>3, <1>6, <2>1, <2>4 DEF AdoptEvict
  <2> QED BY <1>s, <2>1, <2>2, <2>5
<1> QED BY <1>4, <1>5, <1>6

-----------------------------------------------------------------------------
(* Steps that change records mildly.                                         *)

\* Only the thread of `d` moves, and records change mildly.
LEMMA RecordStep ==
    ASSUME OwnershipInv, TypeOK', NEW d \in Demand, w[d].pc # "idle",
           UNCHANGED <<claims, warm, backend, supervision>>,
           \A e \in Demand : Mild(e),
           \A e \in Demand \ {d} : w'[e] = w[e],
           ThreadInv(d)'
    PROVE  OwnershipInv'
<1>1. TodoInv' BY DEF OwnershipInv, TodoInv, TypeOK, supervision, Mild
<1>2. \A e \in Demand : dem'[e].state = "Absent" => w'[e] = Idle
  BY WorkingPresent DEF OwnershipInv, RecordInv, Recorded, Mild
<1>3. \A e \in Demand : w'[e] = w[e] \/ ThreadInv(e)' OBVIOUS
<1> QED BY <1>1, <1>2, <1>3, MildStep

\* No thread moves, and records change mildly.
LEMMA OutsideStep ==
    ASSUME OwnershipInv, TypeOK', UNCHANGED <<claims, warm, w, todo>>,
           \A a \in Demand : backend'[a] => backend[a],
           \A e \in Demand : Mild(e)
    PROVE  OwnershipInv'
<1>1. TodoInv' BY DEF OwnershipInv, TodoInv, TypeOK, Mild
<1>2. \A e \in Demand : dem'[e].state = "Absent" => w'[e] = Idle
  BY DEF OwnershipInv, RecordInv, Recorded, Mild
<1> QED BY <1>1, <1>2, MildStep

\* A thread writes its own record: preflight, readiness, failure, recovery's
\* first step.
LEMMA OwnRecords ==
    ASSUME OwnershipInv, NEW d \in Demand,
           PreflightSave(d) \/ ReadySave(d) \/ ReadyRetire(d) \/ RecPrepare(d) \/ HandleError(d)
    PROVE  OwnershipInv'
<1>0. TypeOK /\ RecordInv /\ ThreadInv(d) BY DEF OwnershipInv, WorkerInv
<1>1. TypeOK' BY <1>0, TypeWrites
<1>2. UNCHANGED <<claims, warm, backend, supervision>> /\ w[d].pc # "idle"
  BY DEF At, PreflightSave, ReadySave, ReadyRetire, RecPrepare, HandleError
<1>s. ASSUME \A e \in Demand : Mild(e), \A e \in Demand \ {d} : w'[e] = w[e], ThreadInv(d)'
      PROVE  OwnershipInv'
  BY <1>1, <1>2, <1>s, RecordStep
<1>d. ASSUME \A e \in Demand : Mild(e), Done(d) PROVE OwnershipInv'
  BY <1>0, <1>s, <1>d, DoneFacts, IdleThread
<1>3. CASE PreflightSave(d)
  <2>1. /\ dem'[d] = [dem[d] EXCEPT !.preflight = @ \/ Active(dem[d])]
        /\ \A e \in Demand \ {d} : dem'[e] = dem[e]
    BY <1>0, <1>3 DEF PreflightSave, TypeOK
  <2>2. \A e \in Demand : Mild(e) BY <1>0, <2>1 DEF Mild, TypeOK, DemandRecord
  <2> QED BY <1>d, <1>3, <2>2 DEF PreflightSave
<1>4. CASE ReadySave(d)
  <2> DEFINE checked == [dem EXCEPT ![d].checked = TRUE]
  <2>1. CASE dem' = dem BY <1>d, <1>4, <2>1 DEF ReadySave, Mild
  <2>2. CASE dem' = CommitReady(d, checked)
    <3>1. \A e \in Demand : /\ checked[e].act = dem[e].act /\ checked[e].process = dem[e].process
                            /\ checked[e].effect = dem[e].effect /\ checked[e].state = dem[e].state
                            /\ checked[e].preflight = dem[e].preflight
                            /\ checked[e] \in DemandRecord
      BY <1>0 DEF TypeOK, DemandRecord
    <3>2. dem[d].state = "Preparing" => dem[d].process
      BY <1>0, <1>4 DEF ReadySave, At, ThreadInv, ProcessInv
    <3> HIDE DEF checked
    <3>3. \A m \in Demand : \/ dem'[m] = checked[m]
                            \/ /\ dem'[m] = [checked[m] EXCEPT !.state = "Ready"]
                               /\ dem[m].state = "Preparing" /\ dem[m].process
      BY <2>2, <3>1, <3>2 DEF CommitReady
    <3>4. ASSUME NEW m \in Demand PROVE Mild(m)
      <4>1. CASE dem'[m] = checked[m] BY <3>1, <4>1 DEF Mild
      <4>2. CASE /\ dem'[m] = [checked[m] EXCEPT !.state = "Ready"]
                 /\ dem[m].state = "Preparing" /\ dem[m].process
        <5>1. /\ dem'[m].act = checked[m].act /\ dem'[m].process = checked[m].process
              /\ dem'[m].effect = checked[m].effect /\ dem'[m].state = "Ready"
              /\ dem'[m].preflight = checked[m].preflight
          BY <3>1, <4>2 DEF DemandRecord
        <5> QED BY <3>1, <4>2, <5>1 DEF Mild
      <4> QED BY <3>3, <4>1, <4>2
    <3> QED BY <1>d, <1>4, <3>4 DEF ReadySave
  <2> QED BY <1>4, <2>1, <2>2 DEF ReadySave
<1>5. CASE ReadyRetire(d)
  <2>1. /\ dem'[d] = [dem[d] EXCEPT !.released = TRUE, !.reason = "failure"]
        /\ \A e \in Demand \ {d} : dem'[e] = dem[e]
    BY <1>0, <1>5 DEF ReadyRetire, TypeOK
  <2>2. /\ dem'[d].act = dem[d].act /\ dem'[d].process = dem[d].process
        /\ dem'[d].effect = dem[d].effect /\ dem'[d].state = dem[d].state
        /\ dem'[d].preflight = dem[d].preflight
    BY <1>0, <2>1 DEF TypeOK, DemandRecord
  <2>m. \A e \in Demand : Mild(e) BY <2>1, <2>2 DEF Mild
  <2>3. /\ w'[d].pc = "retRead" /\ w'[d].snap = w[d].snap
        /\ \A e \in Demand \ {d} : w'[e] = w[e]
    BY <1>0, <1>5, GotoFacts DEF ReadyRetire
  <2>4. ThreadInv(d)'
    BY <1>0, <1>5, <2>2, <2>3 DEF ReadyRetire, At, ThreadInv, SnapInv, ProcessInv, StartInv,
       EvictInv, DrainInv, RetireInv, RecoverInv, Acting
  <2> QED BY <1>s, <2>m, <2>3, <2>4
<1>6. CASE RecPrepare(d)
  <2>1. CASE RecoveryFence(d)
    <3>1. /\ dem'[d] = [dem[d] EXCEPT !.released = TRUE]
          /\ \A e \in Demand \ {d} : dem'[e] = dem[e]
      BY <1>0, <1>6, <2>1 DEF RecPrepare, TypeOK
    <3>2. \A e \in Demand : Mild(e) BY <1>0, <3>1 DEF Mild, TypeOK, DemandRecord
    <3>3. /\ w'[d].pc = "recQuiesce" /\ w'[d].snap = w[d].snap
          /\ \A e \in Demand \ {d} : w'[e] = w[e]
      BY <1>0, <1>6, <2>1, GotoFacts DEF RecPrepare
    <3>4. dem'[d].state = "RecoveryRequired" /\ Owns(d)'
      BY <1>0, <1>2, <2>1, <3>1 DEF RecoveryFence, Owns, TypeOK, DemandRecord
    <3>5. ThreadInv(d)'
      BY <1>0, <1>6, <3>2, <3>3, <3>4 DEF Mild, ThreadInv, SnapInv, ProcessInv, StartInv,
         EvictInv, DrainInv, RetireInv, RecoverInv, Acting
    <3> QED BY <1>s, <3>2, <3>3, <3>5
  <2>2. CASE ~RecoveryFence(d)
    <3>1. dem' = dem /\ Goto(d, "fail") BY <1>6, <2>2 DEF RecPrepare
    <3>2. \A e \in Demand : Mild(e) BY <3>1 DEF Mild
    <3>3. w'[d].snap.preflight => dem'[d].preflight
      BY <1>0, <3>1, GotoFacts DEF ThreadInv, SnapInv
    <3> QED BY <1>0, <1>s, <3>1, <3>2, <3>3, GotoFacts, FreeThread
  <2> QED BY <2>1, <2>2
<1>7. CASE HandleError(d)
  <2>1. CASE dem' = dem BY <1>d, <1>7, <2>1 DEF HandleError, Mild
  <2>2. CASE dem' # dem
    <3>1. /\ dem' = [dem EXCEPT ![d].state = "RecoveryRequired", ![d].reason = "failure"]
          /\ dem[d].state # "RecoveryRequired"
      BY <1>7, <2>2 DEF HandleError
    <3>2. /\ dem'[d] = [dem[d] EXCEPT !.state = "RecoveryRequired", !.reason = "failure"]
          /\ \A e \in Demand \ {d} : dem'[e] = dem[e]
      BY <1>0, <3>1 DEF TypeOK
    <3>3. \A e \in Demand : Mild(e) BY <1>0, <3>1, <3>2 DEF Mild, TypeOK, DemandRecord
    <3> QED BY <1>d, <1>7, <3>3 DEF HandleError
  <2> QED BY <2>1, <2>2
<1> QED BY <1>3, <1>4, <1>5, <1>6, <1>7

\* The steps of a call leave demands, claims, threads and backends alone.
LEMMA CallMoves ==
    ASSUME OwnershipInv, NEW c \in Call, CallStep(c)
    PROVE  OwnershipInv'
<1>1. UNCHANGED <<dem, claims, warm, backend, w, todo>>
  BY DEF CallStep, Submit, DispatchStart, DispatchExpire, Complete, CancelInvocation,
     AnalyseWorkspace, supervision
<1>2. \A e \in Demand : Mild(e) BY <1>1 DEF Mild
<1>3. TypeOK' BY TypeCalls DEF OwnershipInv
<1> QED BY <1>1, <1>2, <1>3, OutsideStep

\* A backend that dies, a deadline, a client's release or cancellation and the
\* archive move no thread.
LEMMA OutsideMoves ==
    ASSUME OwnershipInv, NEW d \in Demand,
           \/ BackendDies(d) \/ Expire(d) \/ Archive(d)
           \/ \E kind \in {"released", "cancelled"} :
                 ControlDemand(d, kind) \/ ControlReservation(d, kind)
    PROVE  OwnershipInv'
<1>0. TypeOK /\ RecordInv /\ \A e \in Demand : dem[e] \in DemandRecord
  BY DEF OwnershipInv, TypeOK
<1>1. TypeOK' BY <1>0, TypeEffects, TypeControl
<1>s. ASSUME UNCHANGED <<claims, warm, w, todo>>, \A a \in Demand : backend'[a] => backend[a],
             \A e \in Demand : Mild(e)
      PROVE  OwnershipInv'
  BY <1>1, <1>s, OutsideStep
<1>2. CASE BackendDies(d)
  <2>1. \A a \in Demand : backend'[a] => backend[a] BY <1>0, <1>2 DEF BackendDies, TypeOK
  <2>2. \A e \in Demand : Mild(e) BY <1>2 DEF BackendDies, document, Mild
  <2> QED BY <1>s, <1>2, <2>1, <2>2 DEF BackendDies, document, supervision
<1>3. CASE Expire(d)
  <2>1. /\ dem'[d] = [dem[d] EXCEPT !.expired = TRUE]
        /\ \A e \in Demand \ {d} : dem'[e] = dem[e]
    BY <1>0, <1>3 DEF Expire, TypeOK
  <2>2. \A e \in Demand : Mild(e) BY <1>0, <2>1 DEF Mild, DemandRecord
  <2> QED BY <1>s, <1>3, <2>2 DEF Expire, supervision
<1>4. CASE Archive(d)
  <2>1. ASSUME NEW e \in Demand PROVE Mild(e)
    <3>1. CASE dem'[e] = dem[e] BY <3>1 DEF Mild
    <3>2. CASE e \in Members(d)
      <4>1. /\ dem'[e] = [dem[e] EXCEPT !.state = "Archived"]
            /\ ~dem[e].effect /\ dem[e].state # "RecoveryRequired"
        BY <1>4, <3>2 DEF Archive, Retirable
      <4> QED BY <1>0, <4>1 DEF Mild, DemandRecord
    <3> QED BY <1>4, <3>1, <3>2 DEF Archive
  <2> QED BY <1>s, <1>4, <2>1 DEF Archive, supervision
<1>5. ASSUME NEW kind \in {"released", "cancelled"}, NEW e \in Demand,
             \/ dem'[e] = Close(dem[e], kind)
             \/ dem'[e] = [Close(dem[e], kind) EXCEPT !.closed = kind]
             \/ dem'[e] = dem[e]
      PROVE  Mild(e)
  <2> DEFINE r == Close(dem[e], kind)
             state == IF dem[e].state = "RecoveryRequired" THEN dem[e].state ELSE "Releasing"
  <2>1. r \in DemandRecord BY <1>0, CloseType
  <2>2. \/ r = dem[e]
        \/ r = [dem[e] EXCEPT !.released = TRUE, !.closed = kind, !.state = state, !.reason = r.reason]
    <3>1. CASE dem[e].reconciled BY <3>1 DEF Close
    <3>2. CASE ~dem[e].reconciled
      <4> DEFINE reason == IF dem[e].state = "RecoveryRequired" \/ dem[e].reason = "idle_timeout"
                           THEN dem[e].reason ELSE kind
      <4>1. r = [dem[e] EXCEPT !.released = TRUE, !.closed = kind, !.state = state, !.reason = reason]
        BY <3>2 DEF Close
      <4> HIDE DEF r, state, reason
      <4>2. r.reason = reason BY <1>0, <4>1 DEF DemandRecord
      <4> QED BY <4>1, <4>2
    <3> QED BY <3>1, <3>2
  <2> HIDE DEF r
  <2>3. /\ r.act = dem[e].act /\ r.process = dem[e].process /\ r.effect = dem[e].effect
        /\ r.preflight = dem[e].preflight /\ r.state \in {dem[e].state, state}
    BY <1>0, <2>1, <2>2 DEF DemandRecord
  <2>4. [r EXCEPT !.closed = kind].act = r.act /\ [r EXCEPT !.closed = kind].process = r.process
        /\ [r EXCEPT !.closed = kind].effect = r.effect /\ [r EXCEPT !.closed = kind].state = r.state
        /\ [r EXCEPT !.closed = kind].preflight = r.preflight
    BY <2>1 DEF DemandRecord
  <2>5. CASE dem'[e] = r \/ dem'[e] = [r EXCEPT !.closed = kind]
    BY <2>3, <2>4, <2>5 DEF Mild
  <2>6. CASE dem'[e] = dem[e] BY <2>6 DEF Mild
  <2> QED BY <1>5, <2>5, <2>6 DEF r
<1>6. ASSUME NEW kind \in {"released", "cancelled"},
             ControlDemand(d, kind) \/ ControlReservation(d, kind)
      PROVE  OwnershipInv'
  <2>1. \A e \in Demand : \/ dem'[e] = Close(dem[e], kind)
                          \/ dem'[e] = [Close(dem[e], kind) EXCEPT !.closed = kind]
                          \/ dem'[e] = dem[e]
    BY <1>0, <1>6 DEF ControlDemand, ControlReservation, TypeOK
  <2>2. \A e \in Demand : Mild(e) BY <1>5, <2>1
  <2> QED BY <1>s, <1>6, <2>2 DEF ControlDemand, ControlReservation, supervision
<1> QED BY <1>2, <1>3, <1>4, <1>6

\* What a pass of the supervisor may do to a record.
MildTo(r, q) ==
    /\ q.act = r.act /\ q.process = r.process /\ q.effect = r.effect /\ q.preflight = r.preflight
    /\ \/ q.state = r.state
       \/ r.state # "RecoveryRequired" /\ q.state \in {"Releasing", "RecoveryRequired"}

\* Each pass of Reconsideration changes the records mildly.
LEMMA PassMild ==
    ASSUME NEW D \in [Demand -> DemandRecord], NEW idle, NEW d \in Demand
    PROVE  /\ MildTo(D[d], Quarantine(D)[d]) /\ MildTo(D[d], Reap(D, idle)[d])
           /\ MildTo(D[d], Abandon(D)[d]) /\ MildTo(D[d], Lapse(D)[d])
<1>0. D[d] \in DemandRecord /\ MildTo(D[d], D[d]) BY DEF MildTo
<1>1. D[d].state # "RecoveryRequired" =>
        /\ MildTo(D[d], [D[d] EXCEPT !.state = "RecoveryRequired", !.reason = "failure"])
        /\ MildTo(D[d], [D[d] EXCEPT !.state = "Releasing"])
        /\ MildTo(D[d], [D[d] EXCEPT !.released = TRUE, !.state = "Releasing", !.reason = "idle_timeout"])
        /\ MildTo(D[d], [D[d] EXCEPT !.released = TRUE, !.state = "Releasing", !.reason = "preempted"])
  BY <1>0 DEF MildTo, DemandRecord
<1>2. MildTo(D[d], Quarantine(D)[d]) BY <1>0, <1>1 DEF Quarantine, Update
<1>3. MildTo(D[d], Reap(D, idle)[d]) BY <1>0, <1>1 DEF Reap, Update
<1>4. MildTo(D[d], Abandon(D)[d]) BY <1>0, <1>1 DEF Abandon, Update
<1>5. MildTo(D[d], Lapse(D)[d]) BY <1>0, <1>1 DEF Lapse, Update
<1> QED BY <1>2, <1>3, <1>4, <1>5

\* The supervisor tick.
LEMMA TickMoves ==
    ASSUME OwnershipInv, TickStep
    PROVE  OwnershipInv'
<1>0. TypeOK /\ RecordInv /\ TodoInv /\ WorkerInv BY DEF OwnershipInv
<1>1. TypeOK' BY <1>0, TypeTick
<1>2. CASE Reconsider
  <2>1. PICK idle : dem' = Lapse(Abandon(Reap(Quarantine(dem), idle))) BY <1>2 DEF Reconsider
  <2> DEFINE A == Quarantine(dem)
             B == Reap(A, idle)
             C == Abandon(B)
  <2>2. /\ dem \in [Demand -> DemandRecord] /\ A \in [Demand -> DemandRecord]
        /\ B \in [Demand -> DemandRecord] /\ C \in [Demand -> DemandRecord]
    BY <1>0, PassType DEF TypeOK
  <2>3. ASSUME NEW e \in Demand PROVE Mild(e)
    <3>1. MildTo(dem[e], A[e]) BY <2>2, PassMild
    <3>2. MildTo(A[e], B[e]) BY <2>2, PassMild
    <3>3. MildTo(B[e], C[e]) BY <2>2, PassMild
    <3>4. MildTo(C[e], dem'[e]) BY <2>1, <2>2, PassMild
    <3> HIDE DEF A, B, C
    <3> QED BY <3>1, <3>2, <3>3, <3>4 DEF MildTo, Mild
  <2> QED BY <1>1, <1>2, <2>3, OutsideStep DEF Reconsider
<1>3. \A e \in Demand : dem' = dem => Mild(e) BY DEF Mild
<1>4. CASE Scan
  <2>1. \A e \in Demand : Due(e) => dem[e].state # "Absent" BY DEF Due, RecoveryDue
  <2>2. ASSUME NEW t \in todo' PROVE dem[t[2]].state # "Absent"
    <3>1. PICK e \in Demand : Due(e) /\ t = <<Rank(e), e>> BY <1>4, <2>2 DEF Scan
    <3> QED BY <2>1, <3>1
  <2>3. TodoInv' BY <1>4, <2>2 DEF Scan, document, TodoInv
  <2> QED BY <1>0, <1>1, <1>3, <1>4, <2>3, MildStep DEF Scan, document, RecordInv, Recorded
<1>5. CASE Spawn
  <2>1. UNCHANGED <<document, backend>> /\ todo' \subseteq todo BY <1>5 DEF Spawn
  <2>2. TodoInv' BY <1>0, <2>1 DEF TodoInv, document
  <2>3. CASE w' = w
    BY <1>0, <1>1, <1>3, <2>1, <2>2, <2>3, MildStep DEF document, RecordInv, Recorded
  <2>4. CASE w' # w
    <3>1. PICK t \in todo : t[2] \notin Busy /\ w' = [w EXCEPT ![t[2]].pc = "inspect"]
      BY <1>5, <2>4 DEF Spawn
    <3> DEFINE d == t[2]
    <3>2. d \in Demand /\ dem[d].state # "Absent" BY <1>0, <3>1 DEF TypeOK, TodoInv
    <3> HIDE DEF d
    <3>3. /\ w'[d].pc = "inspect" /\ w'[d].snap = w[d].snap
          /\ \A e \in Demand \ {d} : w'[e] = w[e]
      BY <1>0, <3>1, <3>2 DEF TypeOK, Worker, d
    <3>4. ThreadInv(d)'
      <4>1. w'[d].snap.preflight => dem'[d].preflight
        BY <1>0, <2>1, <3>2, <3>3 DEF WorkerInv, ThreadInv, SnapInv, document
      <4> QED BY <3>2, <3>3, <4>1, FreeThread
    <3>5. \A e \in Demand : w'[e] = w[e] \/ ThreadInv(e)' BY <3>3, <3>4
    <3>6. \A e \in Demand : dem'[e].state = "Absent" => w'[e] = Idle
      BY <1>0, <2>1, <3>2, <3>3 DEF RecordInv, Recorded, document
    <3>7. dem' = dem /\ claims' = claims /\ warm' = warm /\ backend' = backend
      BY <2>1 DEF document
    <3> QED BY <1>1, <1>3, <2>2, <3>5, <3>6, <3>7, MildStep
  <2> QED BY <2>3, <2>4
<1> QED BY <1>2, <1>4, <1>5 DEF TickStep

\* The receiver restarts.
LEMMA RestartMove ==
    ASSUME OwnershipInv, Restart
    PROVE  OwnershipInv'
<1>0. TypeOK /\ \A e \in Demand : dem[e] \in DemandRecord BY DEF OwnershipInv, TypeOK
<1>1. TypeOK' BY <1>0, TypeRestart
<1>2. ASSUME NEW e \in Demand PROVE Mild(e)
  <2>1. CASE dem'[e] = dem[e] BY <2>1 DEF Mild
  <2>2. CASE dem'[e] # dem[e]
    <3>1. /\ dem'[e] = [dem[e] EXCEPT !.state = "RecoveryRequired", !.reason = "failure"]
          /\ dem[e].state # "RecoveryRequired"
      BY <2>2 DEF Restart
    <3> QED BY <1>0, <3>1 DEF Mild, DemandRecord
  <2> QED BY <2>1, <2>2
<1>3. /\ \A a \in Demand : backend'[a] => backend[a]
      /\ \A a \in Demand : warm'[a] = "resident" => warm[a] = "resident"
      /\ \A a \in Demand : warm'[a] = "none" /\ backend'[a] => warm[a] = "none"
  BY DEF Restart, ReconcileResidents
<1>4. TodoInv' /\ \A e \in Demand : w'[e] = Idle BY DEF Restart, TodoInv
<1>5. \A e \in Demand : ThreadInv(e)' BY <1>4, IdleThread
<1> QED BY <1>1, <1>2, <1>3, <1>4, <1>5, MildStep DEF Restart

-----------------------------------------------------------------------------
(* Steps that hand over GPUs or a backend.                                   *)

\* The thread of `t` writes the record of `d`; nothing starts, and no other
\* demand loses its claims or finds its activation in the cache.
LEMMA HandoverStep ==
    ASSUME OwnershipInv, TypeOK', NEW d \in Demand, NEW t \in Demand, w[t].pc # "idle",
           dem[d].state # "Absent", dem'[d].state # "Absent",
           \A e \in Demand \ {d} :
             /\ dem'[e] = dem[e]
             /\ Owns(e) => Owns(e)'
             /\ Owns(e) /\ warm'[dem[e].act] = "resident" => warm[dem[e].act] = "resident",
           UNCHANGED <<backend, supervision>>,
           \A e \in Demand \ {t} : w'[e] = w[e],
           StaysDisplaced(d), Covered', Recorded(d)', ThreadInv(t)', ThreadInv(d)'
    PROVE  OwnershipInv'
<1>0. TypeOK /\ RecordInv /\ TodoInv /\ Exclusive BY DEF OwnershipInv
<1>1. Exclusive' BY <1>0 DEF Exclusive, Overlap, Resources
<1>2. TodoInv'
  <2> SUFFICES ASSUME NEW u \in todo PROVE dem'[u[2]].state # "Absent"
    BY DEF TodoInv, supervision
  <2>1. u[2] \in Demand /\ dem[u[2]].state # "Absent" BY <1>0 DEF TypeOK, TodoInv
  <2> QED BY <2>1
<1>3. ASSUME NEW e \in Demand \ {d} PROVE Recorded(e)'
  <2>1. Recorded(e) BY <1>0 DEF RecordInv
  <2>2. dem[e].state = "Absent" => w'[e] = Idle
    <3>1. CASE e = t BY <3>1, WorkingPresent
    <3>2. CASE e # t BY <2>1, <3>2 DEF Recorded
    <3> QED BY <3>1, <3>2
  <2> QED BY <2>1, <2>2 DEF Recorded, Present
<1>4. ASSUME NEW e \in Demand \ {d} PROVE ThreadInv(e)'
  <2>1. CASE e = t BY <2>1
  <2>2. CASE e # t
    <3>1. Kept(e) /\ \A v \in Demand : StaysDisplaced(v) BY DEF Kept, StaysDisplaced
    <3> QED BY <2>2, <3>1, StillThread
  <2> QED BY <2>1, <2>2
<1> QED BY <1>1, <1>2, <1>3, <1>4 DEF OwnershipInv, RecordInv, WorkerInv

\* A thread that gives up on the branch it took.
LEMMA FailStep ==
    ASSUME OwnershipInv, TypeOK', NEW d \in Demand, w[d].pc # "idle",
           NEW p \in {"fail", "failFence"}, Goto(d, p),
           UNCHANGED <<document, backend, supervision>>
    PROVE  OwnershipInv'
<1>0. TypeOK /\ ThreadInv(d) BY DEF OwnershipInv, WorkerInv
<1>1. /\ w'[d].pc = p /\ w'[d].snap = w[d].snap
      /\ \A e \in Demand \ {d} : w'[e] = w[e]
  BY <1>0, GotoFacts
<1>2. w'[d].snap.preflight => dem'[d].preflight BY <1>0, <1>1 DEF ThreadInv, SnapInv, document
<1> QED BY <1>1, <1>2, FreeThread, QuietStep

\* The start of a backend begins with the claim of the effect, and ends with
\* the record of the process.
LEMMA Starting ==
    ASSUME OwnershipInv, NEW d \in Demand, ClaimEffect(d) \/ SaveProcess(d)
    PROVE  OwnershipInv'
<1>0. /\ TypeOK /\ Recorded(d) /\ Covered /\ ThreadInv(d)
      /\ dem[d] \in DemandRecord /\ dem[d].act \in Demand
  BY DEF OwnershipInv, RecordInv, WorkerInv, TypeOK, DemandRecord
<1>1. TypeOK' BY <1>0, TypeWrites
<1>2. UNCHANGED <<claims, warm, backend, supervision>> /\ w[d].pc # "idle" /\ Present(d)
  BY DEF At, ClaimEffect, SaveProcess
<1>3. \A e \in Demand : Owns(e)' = Owns(e) BY <1>2 DEF Owns
<1>s. ASSUME \A e \in Demand \ {d} : dem'[e] = dem[e] /\ w'[e] = w[e],
             dem'[d].state = dem[d].state, dem'[d].act = dem[d].act, dem[d].effect => dem'[d].effect,
             Recorded(d)', ThreadInv(d)'
      PROVE  OwnershipInv'
  <2>1. Covered' BY <1>0, <1>2, <1>3, <1>s DEF Covered, Present
  <2>2. StaysDisplaced(d) BY <1>s DEF StaysDisplaced
  <2> QED BY <1>1, <1>2, <1>3, <1>s, <2>1, <2>2, HandoverStep DEF Present
<1>4. CASE ClaimEffect(d) /\ WithinFence(d) /\ Owns(d)
  <2>1. /\ dem'[d] = [dem[d] EXCEPT !.effect = TRUE]
        /\ \A e \in Demand \ {d} : dem'[e] = dem[e]
    BY <1>0, <1>4 DEF ClaimEffect, TypeOK
  <2>2. /\ dem'[d].act = dem[d].act /\ dem'[d].effect /\ dem'[d].process = dem[d].process
        /\ dem'[d].state = dem[d].state /\ dem'[d].preflight = dem[d].preflight
    BY <1>0, <2>1 DEF DemandRecord
  <2>3. /\ w'[d].pc = "start" /\ w'[d].snap = w[d].snap
        /\ \A e \in Demand \ {d} : w'[e] = w[e]
    BY <1>0, <1>4, GotoFacts DEF ClaimEffect
  <2>4. warm[dem[d].act] # "resident" /\ GpuFree(d) /\ ~dem[d].process
    BY <1>0, <1>4 DEF ClaimEffect, At, WithinFence, ThreadInv, StartInv, Acting
  <2>5. Recorded(d)' BY <1>0, <1>2, <1>3, <1>4, <2>2, <2>4 DEF Recorded, Present, WithinFence
  <2>6. GpuFree(d)' BY <1>2, <2>4 DEF GpuFree, Overlap, Resources
  <2>7. ThreadInv(d)'
    BY <1>0, <1>3, <1>4, <2>2, <2>3, <2>4, <2>6 DEF ClaimEffect, At, ThreadInv, SnapInv, ProcessInv,
       StartInv, EvictInv, DrainInv, RetireInv, RecoverInv, Acting
  <2> QED BY <1>s, <2>1, <2>2, <2>3, <2>5, <2>7
<1>5. CASE ClaimEffect(d) /\ ~(WithinFence(d) /\ Owns(d))
  <2>1. Done(d) /\ UNCHANGED <<document, backend, supervision>>
    BY <1>5 DEF ClaimEffect, document
  <2> QED BY <1>0, <1>1, <1>2, <2>1, DoneFacts, IdleThread, QuietStep
<1>6. CASE SaveProcess(d)
  <2>1. /\ dem'[d] = [dem[d] EXCEPT !.process = TRUE]
        /\ \A e \in Demand \ {d} : dem'[e] = dem[e]
    BY <1>0, <1>6 DEF SaveProcess, TypeOK
  <2>2. /\ dem'[d].act = dem[d].act /\ dem'[d].process /\ dem'[d].effect = dem[d].effect
        /\ dem'[d].state = dem[d].state /\ dem'[d].preflight = dem[d].preflight
    BY <1>0, <2>1 DEF DemandRecord
  <2>3. w'[d] = Idle /\ \A e \in Demand \ {d} : w'[e] = w[e]
    BY <1>0, <1>6, DoneFacts DEF SaveProcess
  <2>4. dem[d].effect /\ dem[d].preflight
    BY <1>0, <1>6 DEF SaveProcess, At, ThreadInv, SnapInv, StartInv, Acting
  <2>5. Recorded(d)' BY <1>0, <1>2, <1>3, <2>2, <2>3, <2>4 DEF Recorded, Present
  <2> QED BY <1>s, <2>1, <2>2, <2>3, <2>5, IdleThread
<1> QED BY <1>4, <1>5, <1>6

\* A started backend has the GPUs to itself, and no other thread counts on its
\* absence.
LEMMA StartStep ==
    ASSUME OwnershipInv, NEW d \in Demand, Start(d)
    PROVE  OwnershipInv'
<1> DEFINE a == dem[d].act
<1>0. /\ TypeOK /\ RecordInv /\ Exclusive /\ Covered /\ TodoInv /\ ThreadInv(d)
      /\ a \in Demand
  BY DEF OwnershipInv, WorkerInv, TypeOK, DemandRecord
<1>1. TypeOK' BY <1>0, TypeEffects
<1>2. /\ dem' = dem /\ claims' = claims /\ warm' = warm /\ UNCHANGED supervision
      /\ w[d].pc = "start"
  BY DEF At, Start, StartOk, StartErr, document
<1>3. \A e \in Demand : Owns(e)' = Owns(e) BY <1>2 DEF Owns
<1>4. Owns(d) /\ ~dem[d].process /\ dem[d].effect /\ GpuFree(d) /\ w[d].snap.preflight
  BY <1>0, <1>2 DEF ThreadInv, StartInv, SnapInv, Acting
<1>5. \A b \in Demand : backend'[b] => backend[b] \/ b = a BY <1>0 DEF Start, StartOk, StartErr, TypeOK
<1>6. \A e \in Demand \ {d} : w'[e] = w[e] BY <1>0, GotoFacts DEF Start, StartOk, StartErr
<1> HIDE DEF a
<1>7. Exclusive'
  <2>1. \A b \in Demand : backend[b] => ~Overlap(a, b) /\ ~Overlap(b, a)
    BY <1>0, <1>4, ActivationGpus DEF GpuFree, a, Overlap
  <2> QED BY <1>0, <1>5, <2>1 DEF Exclusive, Overlap, Resources
<1>8. Covered'
  <2>1. Present(d) /\ dem[d].act = a BY <1>0, <1>4 DEF RecordInv, Recorded, a
  <2> QED BY <1>0, <1>2, <1>3, <1>4, <1>5, <2>1 DEF Covered, Present
<1>9. RecordInv'
  <2>1. \A e \in Demand : dem[e].state = "Absent" => w'[e] = Idle
    BY <1>0, <1>2, <1>6, WorkingPresent DEF RecordInv, Recorded
  <2> QED BY <1>0, <1>2, <1>3, <2>1 DEF RecordInv, Recorded, Present
<1>10. ASSUME NEW e \in Demand \ {d} PROVE ThreadInv(e)'
  <2>0. ThreadInv(e) BY DEF OwnershipInv, WorkerInv
  <2>1. Overlap(e, a) <=> Overlap(e, d) BY <1>0, ActivationGpus DEF a
  <2>2. Owns(e) => ~Overlap(e, a) /\ dem[e].act # a
    BY <1>0, <1>4, <2>1, OwnersDisjoint, ActivationOwner DEF Overlap, a
  <2>3. ~Relied(e, a)
    <3> USE <2>0 DEF ThreadInv
    <3>1. ~(w[e].pc \in {"claimEffect", "start"} /\ Overlap(e, a))
      BY <2>2 DEF StartInv, Acting
    <3>2. ~(w[e].pc = "evictRemove" /\ a = w[e].tgt)
      BY <2>2 DEF StartInv, EvictInv, Acting, Overlap
    <3>3. ~(w[e].pc = "drainMark" /\ dem[w[e].tgt].state = "Preempting" /\ a = dem[w[e].tgt].act)
      <4> SUFFICES ASSUME w[e].pc = "drainMark", dem[w[e].tgt].state = "Preempting",
                          a = dem[w[e].tgt].act
                   PROVE  FALSE
        OBVIOUS
      <4> DEFINE v == w[e].tgt
      <4>1. v \in Demand BY DEF DrainInv
      <4>2. dem[v].process /\ Owns(v) BY <1>0, <4>1 DEF RecordInv, Recorded
      <4>3. v = d BY <1>0, <1>4, <4>1, <4>2, ActivationOwner DEF a
      <4> QED BY <1>4, <4>2, <4>3
    <3>4. ~(w[e].pc = "retFinish" /\ dem[e].effect /\ a = dem[e].act)
      BY <1>0, <2>2 DEF RecordInv, Recorded
    <3>5. ~(w[e].pc = "recFinish" /\ a = dem[e].act) BY <2>2 DEF RecoverInv
    <3> QED BY <3>1, <3>2, <3>3, <3>4, <3>5 DEF Relied
  <2>4. Kept(e) /\ \A v \in Demand : StaysDisplaced(v) BY <1>2 DEF Kept, StaysDisplaced
  <2>5. \A b \in Demand : backend'[b] => backend[b] \/ ~Relied(e, b) BY <1>5, <2>3
  <2> QED BY <1>2, <1>3, <1>6, <2>4, <2>5, StillThread
<1>11. ThreadInv(d)'
  <2>1. CASE Goto(d, "fail")
    BY <1>0, <1>2, <1>4, <2>1, GotoFacts, FreeThread DEF RecordInv, ThreadInv, SnapInv
  <2>2. CASE Goto(d, "saveProcess")
    <3>1. w'[d].pc = "saveProcess" /\ w'[d].snap = w[d].snap BY <1>0, <2>2, GotoFacts
    <3> QED BY <1>0, <1>2, <1>3, <1>4, <3>1 DEF ThreadInv, SnapInv, ProcessInv, StartInv, EvictInv,
           DrainInv, RetireInv, RecoverInv, Acting
  <2> QED BY <2>1, <2>2 DEF Start, StartOk, StartErr
<1>12. TodoInv' BY <1>0, <1>2 DEF TodoInv, supervision
<1> QED BY <1>1, <1>7, <1>8, <1>9, <1>10, <1>11, <1>12 DEF OwnershipInv, WorkerInv

\* A cached backend passes to the demand that adopts it, and the claims of
\* drained victims to the candidate that waited for them.
LEMMA Taking ==
    ASSUME OwnershipInv, NEW d \in Demand, AdoptSave(d) \/ Transfer(d)
    PROVE  OwnershipInv'
<1> DEFINE a == dem[d].act
<1>0. /\ TypeOK /\ Recorded(d) /\ Covered /\ ThreadInv(d)
      /\ dem[d] \in DemandRecord /\ a \in Demand
  BY DEF OwnershipInv, RecordInv, WorkerInv, TypeOK, DemandRecord
<1>1. TypeOK' BY <1>0, TypeWrites
<1>2. UNCHANGED <<backend, supervision>> /\ w[d].pc # "idle" /\ Present(d)
  BY DEF At, AdoptSave, Transfer
<1>3. CASE AdoptSave(d)
  <2>0. Owns(d) /\ ~dem[d].process /\ w[d].snap.preflight /\ dem[d].preflight
    BY <1>0, <1>3 DEF AdoptSave, At, ThreadInv, StartInv, SnapInv, Acting
  <2>c. claims' = claims /\ \A e \in Demand : Owns(e)' = Owns(e) BY <1>3 DEF AdoptSave, Owns
  <2>1. CASE warm[a] = "resident" /\ PreparingOwner(d)
    <3>1. /\ dem' = [dem EXCEPT ![d].process = TRUE, ![d].effect = TRUE]
          /\ warm' = [warm EXCEPT ![a] = "none"] /\ Done(d)
      BY <1>3, <2>1 DEF AdoptSave
    <3>2. /\ dem'[d] = [dem[d] EXCEPT !.process = TRUE, !.effect = TRUE]
          /\ \A e \in Demand \ {d} : dem'[e] = dem[e]
      BY <1>0, <3>1 DEF TypeOK
    <3>3. /\ dem'[d].act = a /\ dem'[d].process /\ dem'[d].effect
          /\ dem'[d].state = dem[d].state /\ dem'[d].preflight = dem[d].preflight
      BY <1>0, <3>2 DEF DemandRecord
    <3>4. /\ warm'[a] = "none" /\ \A b \in Demand \ {a} : warm'[b] = warm[b]
      BY <1>0, <3>1 DEF TypeOK
    <3>5. w'[d] = Idle /\ \A e \in Demand \ {d} : w'[e] = w[e] BY <1>0, <3>1, DoneFacts
    <3> HIDE DEF a
    <3>6. Covered'
      <4> SUFFICES ASSUME NEW b \in Demand, backend'[b], warm'[b] = "none"
                   PROVE  (\E e \in Demand : Present(e) /\ dem[e].act = b /\ dem[e].effect /\ Owns(e))'
        BY DEF Covered
      <4>1. CASE b = a BY <1>2, <2>0, <2>c, <3>3, <4>1 DEF Present
      <4>2. CASE b # a
        <5>1. PICK e \in Demand : Present(e) /\ dem[e].act = b /\ dem[e].effect /\ Owns(e)
          BY <1>0, <1>2, <3>4, <4>2 DEF Covered
        <5>2. e # d BY <4>2, <5>1 DEF a
        <5> QED BY <2>c, <3>2, <5>1, <5>2 DEF Present
      <4> QED BY <4>1, <4>2
    <3>7. Recorded(d)'
      BY <1>0, <1>2, <2>0, <2>c, <3>3, <3>4, <3>5 DEF Recorded, Present, a
    <3>8. \A e \in Demand \ {d} : warm'[dem[e].act] = "resident" => warm[dem[e].act] = "resident"
      BY <1>0, <3>4 DEF TypeOK, DemandRecord
    <3>9. StaysDisplaced(d) BY <3>3 DEF StaysDisplaced, a
    <3> QED BY <1>1, <1>2, <2>c, <3>2, <3>3, <3>5, <3>6, <3>7, <3>8, <3>9, IdleThread, HandoverStep DEF Present
  <2>2. CASE ~(warm[a] = "resident" /\ PreparingOwner(d))
    <3>1. Goto(d, "empty") /\ UNCHANGED <<document, backend, supervision>>
      BY <1>2, <1>3, <2>2 DEF AdoptSave, document
    <3>2. /\ w'[d].pc = "empty" /\ w'[d].snap = w[d].snap
          /\ \A e \in Demand \ {d} : w'[e] = w[e]
      BY <1>0, <3>1, GotoFacts
    <3>3. dem' = dem /\ warm' = warm BY <3>1 DEF document
    <3>4. dem[d].state = "Preparing" => warm[a] # "resident" BY <2>0, <2>2 DEF PreparingOwner
    <3>5. ThreadInv(d)'
      BY <1>0, <2>0, <2>c, <3>2, <3>3, <3>4 DEF ThreadInv, SnapInv, ProcessInv, StartInv, EvictInv,
         DrainInv, RetireInv, RecoverInv, Acting
    <3> QED BY <1>1, <1>2, <3>1, <3>2, <3>5, QuietStep
  <2> QED BY <2>1, <2>2
<1>4. CASE Transfer(d)
  <2>0. UNCHANGED <<dem, warm, call>> /\ w[d].pc = "transfer" BY <1>4 DEF Transfer, At
  <2>1. CASE claims' = [x \in Resource |-> IF x \in Resources(d) THEN d ELSE claims[x]]
             /\ dem[d].state = "Preparing" /\ (\A x \in Resources(d) : claims[x] \in {None, d})
             /\ Goto(d, IF w[d].snap.process THEN "ready" ELSE "adopt")
    <3>1. Resources(d) \subseteq Resource /\ \A e \in Demand : Resources(e) \subseteq Resource
      BY ShapeAssumption DEF Resources
    <3>2. Owns(d)' BY <2>1, <3>1 DEF Owns, Resources
    <3>3. \A e \in Demand \ {d} : Owns(e) => Owns(e)'
      BY <2>1, <3>1, NoneAssumption DEF Owns, Resources
    <3>4. Covered'
      BY <1>0, <1>2, <2>0, <3>2, <3>3 DEF Covered, Present
    <3>5. /\ w'[d].pc = (IF w[d].snap.process THEN "ready" ELSE "adopt") /\ w'[d].snap = w[d].snap
          /\ \A e \in Demand \ {d} : w'[e] = w[e]
      BY <1>0, <2>1, GotoFacts
    <3>6. Recorded(d)' BY <1>0, <1>2, <2>0, <3>2, <2>1 DEF Recorded, Present
    <3>7. ThreadInv(d)'
      BY <1>0, <2>0, <2>1, <3>2, <3>5 DEF ThreadInv, SnapInv, ProcessInv, StartInv, EvictInv,
         DrainInv, RetireInv, RecoverInv, Acting
    <3>8. StaysDisplaced(d) BY <2>0 DEF StaysDisplaced
    <3> QED BY <1>1, <1>2, <2>0, <3>3, <3>4, <3>5, <3>6, <3>7, <3>8, HandoverStep DEF Present
  <2>2. CASE claims' = claims /\ \E p \in {"fail", "failFence"} : Goto(d, p)
    BY <1>1, <1>2, <2>0, <2>2, FailStep DEF document
  <2> QED BY <1>4, <2>1, <2>2 DEF Transfer
<1> QED BY <1>3, <1>4

\* Demand `d` gives up its claims: its backend is gone or belongs to the cache.
LEMMA GiveUp ==
    ASSUME OwnershipInv, TypeOK', NEW d \in Demand, NEW t \in Demand, w[t].pc # "idle",
           dem[d].state # "Absent",
           \A e \in Demand \ {d} : dem'[e] = dem[e],
           dem'[d].act = dem[d].act, ~dem'[d].process, ~dem'[d].effect,
           dem'[d].state \in {"Preempted", "Released", "Cancelled", "Expired"},
           claims' = Unclaimed(d), UNCHANGED <<backend, supervision>>,
           \/ warm' = warm /\ (dem[d].effect => ~backend[dem[d].act])
           \/ warm' = [warm EXCEPT ![dem[d].act] = "resident"] /\ Owns(d),
           \A e \in Demand \ {t} : w'[e] = w[e],
           ThreadInv(t)', ThreadInv(d)'
    PROVE  OwnershipInv'
<1> DEFINE a == dem[d].act
<1>0. /\ TypeOK /\ RecordInv /\ Covered /\ a \in Demand
      /\ \A e \in Demand : dem[e].act \in Demand
  BY DEF OwnershipInv, TypeOK, DemandRecord
<1>1. \A e \in Demand : Resources(e) \subseteq Resource BY ShapeAssumption DEF Resources
<1>2. \A e \in Demand \ {d} : Owns(e) => Owns(e)'
  BY <1>1 DEF Unclaimed, Owns, Resources
<1>3. \A b \in Demand : /\ b # a => warm'[b] = warm[b]
                        /\ warm'[b] = "none" => warm[b] = "none"
  BY <1>0 DEF TypeOK
<1>4. Covered'
  <2> SUFFICES ASSUME NEW b \in Demand, backend'[b], warm'[b] = "none"
               PROVE  (\E e \in Demand : Present(e) /\ dem[e].act = b /\ dem[e].effect /\ Owns(e))'
    BY DEF Covered
  <2>1. PICK e \in Demand : Present(e) /\ dem[e].act = b /\ dem[e].effect /\ Owns(e)
    BY <1>0, <1>3 DEF Covered
  <2>2. e # d BY <1>0, <2>1 DEF TypeOK
  <2> QED BY <1>2, <2>1, <2>2 DEF Present
<1>5. ASSUME NEW e \in Demand \ {d}, Owns(e), warm'[dem[e].act] = "resident"
      PROVE  warm[dem[e].act] = "resident"
  <2>1. CASE warm' = warm BY <1>5, <2>1
  <2>2. CASE Owns(d)
    <3>1. dem[e].act # a BY <1>0, <1>5, <2>2, ActivationOwner
    <3> QED BY <1>0, <1>3, <1>5, <3>1
  <2> QED BY <2>1, <2>2
<1>6. ~(dem'[d].state \in {"Ready", "Preempting", "Preparing", "Absent", "RecoveryRequired"})
  OBVIOUS
<1>7. Recorded(d)' BY <1>0, <1>6 DEF RecordInv, Recorded
<1>8. StaysDisplaced(d) BY <1>6 DEF StaysDisplaced, Displaced
<1> QED BY <1>2, <1>4, <1>5, <1>6, <1>7, <1>8, HandoverStep

\* A thread retires its own demand.
LEMMA Retiring ==
    ASSUME OwnershipInv, NEW d \in Demand, RetCacheSave(d) \/ RetFinish(d)
    PROVE  OwnershipInv'
<1>0. /\ TypeOK /\ Recorded(d) /\ ThreadInv(d) /\ dem[d] \in DemandRecord
      /\ dem[d].act \in Demand /\ Retired(dem[d]) \in {"Cancelled", "Preempted", "Expired", "Released"}
  BY DEF OwnershipInv, RecordInv, WorkerInv, TypeOK, DemandRecord, Retired
<1>1. TypeOK' BY <1>0, TypeWrites
<1>2. UNCHANGED <<call, backend, supervision>> /\ w[d].pc # "idle"
  BY DEF At, RetCacheSave, RetFinish
<1>3. dem[d].state # "Absent" BY <1>2, WorkingPresent
<1>s. ASSUME Retire(d), Done(d),
             \/ warm' = warm /\ (dem[d].effect => ~backend[dem[d].act])
             \/ warm' = [warm EXCEPT ![dem[d].act] = "resident"] /\ Owns(d)
      PROVE  OwnershipInv'
  <2>1. /\ dem'[d] = [dem[d] EXCEPT !.process = FALSE, !.effect = FALSE, !.released = TRUE,
                                    !.state = Retired(dem[d])]
        /\ \A e \in Demand \ {d} : dem'[e] = dem[e]
    BY <1>0, <1>s DEF Retire, TypeOK
  <2>2. /\ dem'[d].act = dem[d].act /\ ~dem'[d].process /\ ~dem'[d].effect
        /\ dem'[d].state = Retired(dem[d])
    BY <1>0, <2>1 DEF DemandRecord
  <2>3. w'[d] = Idle /\ \A e \in Demand \ {d} : w'[e] = w[e] BY <1>0, <1>s, DoneFacts
  <2>4. claims' = Unclaimed(d) BY <1>s DEF Retire
  <2> QED BY <1>0, <1>1, <1>2, <1>3, <1>s, <2>1, <2>2, <2>3, <2>4, IdleThread, GiveUp
<1>4. CASE RetCacheSave(d) /\ Cacheable(d)
  <2>1. Owns(d) BY <1>0, <1>4 DEF Cacheable, CacheCandidate, Recorded
  <2> QED BY <1>s, <1>4, <2>1 DEF RetCacheSave
<1>5. CASE RetCacheSave(d) /\ ~Cacheable(d)
  <2>1. Goto(d, "retStop") /\ UNCHANGED <<document, backend, supervision>>
    BY <1>5 DEF RetCacheSave, document
  <2>2. /\ w'[d].pc = "retStop" /\ w'[d].snap = w[d].snap
        /\ \A e \in Demand \ {d} : w'[e] = w[e]
    BY <1>0, <2>1, GotoFacts
  <2>3. ThreadInv(d)'
    BY <1>0, <1>5, <2>1, <2>2 DEF RetCacheSave, At, document, ThreadInv, SnapInv, ProcessInv, StartInv,
       EvictInv, DrainInv, RetireInv, RecoverInv, Acting
  <2> QED BY <1>1, <1>2, <2>1, <2>2, <2>3, QuietStep
<1>6. CASE RetFinish(d)
  <2>1. dem[d].effect => ~backend[dem[d].act]
    BY <1>0, <1>6 DEF RetFinish, At, ThreadInv, RetireInv
  <2> QED BY <1>s, <1>6, <2>1 DEF RetFinish
<1> QED BY <1>4, <1>5, <1>6

\* A candidate's thread marks the victim whose backend it stopped.
LEMMA Displacing ==
    ASSUME OwnershipInv, NEW d \in Demand, DrainMark(d)
    PROVE  OwnershipInv'
<1>0. TypeOK /\ ThreadInv(d) /\ w[d].pc = "drainMark"
  BY DEF OwnershipInv, WorkerInv, DrainMark, At
<1>1. TypeOK' BY <1>0, TypeWrites
<1>v. PICK v \in Demand : v = w[d].tgt BY <1>0 DEF ThreadInv, DrainInv
<1>2. dem[v] \in DemandRecord /\ Recorded(v) /\ ThreadInv(v) /\ dem[v].act \in Demand
  BY <1>0 DEF OwnershipInv, RecordInv, WorkerInv, TypeOK, DemandRecord
<1>3. CASE dem[v].state # "Preempting"
  <2>1. Goto(d, "fail") /\ UNCHANGED <<document, backend, supervision>>
    BY <1>3, <1>v DEF DrainMark, document
  <2> QED BY <1>0, <1>1, <2>1, FailStep
<1>4. CASE dem[v].state = "Preempting"
  <2>1. /\ dem' = [dem EXCEPT ![v].process = FALSE, ![v].effect = FALSE,
                              ![v].state = "Preempted", ![v].reason = "preempted"]
        /\ claims' = Unclaimed(v) /\ Done(d) /\ UNCHANGED <<warm, backend, supervision>>
    BY <1>4, <1>v DEF DrainMark
  <2>2. /\ dem'[v] = [dem[v] EXCEPT !.process = FALSE, !.effect = FALSE,
                                    !.state = "Preempted", !.reason = "preempted"]
        /\ \A e \in Demand \ {v} : dem'[e] = dem[e]
    BY <1>0, <1>2, <2>1 DEF TypeOK
  <2>3. /\ dem'[v].act = dem[v].act /\ ~dem'[v].process /\ ~dem'[v].effect
        /\ dem'[v].state = "Preempted" /\ dem'[v].preflight = dem[v].preflight
    BY <1>2, <2>2 DEF DemandRecord
  <2>4. w'[d] = Idle /\ \A e \in Demand \ {d} : w'[e] = w[e] BY <1>0, <2>1, DoneFacts
  <2>5. ~backend[dem[v].act] BY <1>0, <1>4, <1>v DEF ThreadInv, DrainInv
  <2>6. ThreadInv(v)'
    <3>1. CASE v = d BY <2>4, <3>1, IdleThread
    <3>2. CASE v # d
      <4>0. w'[v] = w[v] BY <1>2, <2>4, <3>2
      <4>1. dem[v].process BY <1>2, <1>4 DEF Recorded
      <4>2. w[v].pc \notin Acting BY <1>2, <4>1 DEF ThreadInv, StartInv
      <4>3. w[v].pc \notin {"recQuiesce", "recResolve", "recStop", "recFinish"}
        BY <1>2, <1>4 DEF ThreadInv, RecoverInv
      <4>4. SnapInv(v)' /\ ProcessInv(v)' BY <1>2, <2>3, <4>0 DEF ThreadInv, SnapInv, ProcessInv
      <4>5. StartInv(v)' /\ EvictInv(v)' BY <4>0, <4>2 DEF StartInv, EvictInv, Acting
      <4>6. RetireInv(v)' /\ RecoverInv(v)' BY <2>3, <4>0, <4>3 DEF RetireInv, RecoverInv
      <4>7. DrainInv(v)'
        <5> SUFFICES ASSUME w[v].pc \in {"drainBoundary", "drainStop", "drainMark"}
                     PROVE  DrainInv(v)'
          BY <4>0 DEF DrainInv
        <5>1. PICK u \in Demand :
                /\ u = w[v].tgt /\ dem[u].state \in Displaced
                /\ w[v].pc = "drainMark" /\ dem[u].state = "Preempting" => ~backend[dem[u].act]
          BY <1>2 DEF ThreadInv, DrainInv
        <5>2. CASE u = v BY <2>3, <4>0, <5>1, <5>2 DEF DrainInv, Displaced
        <5>3. CASE u # v
          <6>1. dem'[u] = dem[u] /\ backend' = backend BY <2>1, <2>2, <5>3
          <6>2. w'[v].tgt = u BY <4>0, <5>1
          <6> QED BY <4>0, <5>1, <6>1, <6>2 DEF DrainInv
        <5> QED BY <5>2, <5>3
      <4> QED BY <4>4, <4>5, <4>6, <4>7 DEF ThreadInv
    <3> QED BY <3>1, <3>2
  <2>7. ThreadInv(d)' BY <2>4, IdleThread
  <2> QED BY <1>0, <1>1, <1>2, <1>4, <2>1, <2>2, <2>3, <2>4, <2>5, <2>6, <2>7, GiveUp
<1> QED BY <1>3, <1>4

\* Recovery records what it found, stops it and gives the claims up.
LEMMA Recovering ==
    ASSUME OwnershipInv, NEW d \in Demand, RecResolve(d) \/ RecFinish(d)
    PROVE  OwnershipInv'
<1>0. /\ TypeOK /\ Recorded(d) /\ Covered /\ ThreadInv(d) /\ dem[d] \in DemandRecord
      /\ dem[d].act \in Demand /\ backend[dem[d].act] \in BOOLEAN
      /\ Reconciled(dem[d]) \in {"Cancelled", "Preempted", "Expired", "Released"}
  BY DEF OwnershipInv, RecordInv, WorkerInv, TypeOK, DemandRecord, Reconciled
<1>1. TypeOK' BY <1>0, TypeWrites
<1>2. /\ UNCHANGED <<warm, call, backend, supervision>> /\ w[d].pc # "idle"
      /\ dem[d].state = "RecoveryRequired" /\ Owns(d)
  BY <1>0 DEF At, RecResolve, Resolved, RecFinish, ThreadInv, RecoverInv
<1>f. ASSUME Goto(d, "fail"), UNCHANGED <<dem, claims>> PROVE OwnershipInv'
  BY <1>1, <1>2, <1>f, FailStep DEF document
<1>3. CASE RecResolve(d)
  <2> DEFINE live == backend[dem[d].act]
  <2>c. claims' = claims /\ \A e \in Demand : Owns(e)' = Owns(e) BY <1>3 DEF RecResolve, Resolved, Owns
  <2>1. CASE /\ dem' = [dem EXCEPT ![d].process = @ \/ live]
             /\ w' = [w EXCEPT ![d].pc = "recStop", ![d].snap.effect = live,
                               ![d].snap.process = dem[d].process \/ live]
    <3>1. /\ dem'[d] = [dem[d] EXCEPT !.process = @ \/ live]
          /\ \A e \in Demand \ {d} : dem'[e] = dem[e]
      BY <1>0, <2>1 DEF TypeOK
    <3>2. /\ dem'[d].act = dem[d].act /\ dem'[d].effect = dem[d].effect
          /\ dem'[d].state = dem[d].state /\ dem'[d].preflight = dem[d].preflight
      BY <1>0, <3>1 DEF DemandRecord
    <3>3. /\ w'[d].pc = "recStop" /\ w'[d].snap.preflight = w[d].snap.preflight
          /\ \A e \in Demand \ {d} : w'[e] = w[e]
      BY <1>0, <2>1 DEF TypeOK, Worker, Snapshot
    <3>4. Covered'
      <4>1. \A e \in Demand : /\ dem'[e].act = dem[e].act /\ dem'[e].effect = dem[e].effect
                              /\ dem'[e].state = dem[e].state
        BY <3>1, <3>2
      <4> QED BY <1>0, <1>2, <2>c, <4>1 DEF Covered, Present
    <3>5. Recorded(d)' BY <1>0, <1>2, <2>c, <3>2 DEF Recorded, Present
    <3>6. ThreadInv(d)'
      BY <1>0, <1>2, <2>c, <3>2, <3>3 DEF ThreadInv, SnapInv, ProcessInv, StartInv,
         EvictInv, DrainInv, RetireInv, RecoverInv, Acting
    <3>7. StaysDisplaced(d) BY <1>2, <3>2 DEF StaysDisplaced
    <3> QED BY <1>1, <1>2, <2>c, <3>1, <3>2, <3>3, <3>4, <3>5, <3>6, <3>7, HandoverStep
  <2>2. CASE Goto(d, "fail") /\ UNCHANGED dem BY <1>f, <2>2, <2>c
  <2> QED BY <1>3, <2>1, <2>2 DEF RecResolve, Resolved
<1>4. CASE RecFinish(d) /\ Quiescent(d)
  <2>1. /\ dem' = [dem EXCEPT ![d].process = FALSE, ![d].effect = FALSE,
                              ![d].reconciled = TRUE, ![d].state = Reconciled(dem[d])]
        /\ claims' = Unclaimed(d) /\ Done(d)
    BY <1>4 DEF RecFinish
  <2>2. /\ dem'[d] = [dem[d] EXCEPT !.process = FALSE, !.effect = FALSE,
                                    !.reconciled = TRUE, !.state = Reconciled(dem[d])]
        /\ \A e \in Demand \ {d} : dem'[e] = dem[e]
    BY <1>0, <2>1 DEF TypeOK
  <2>3. /\ dem'[d].act = dem[d].act /\ ~dem'[d].process /\ ~dem'[d].effect
        /\ dem'[d].state = Reconciled(dem[d])
    BY <1>0, <2>2 DEF DemandRecord
  <2>4. w'[d] = Idle /\ \A e \in Demand \ {d} : w'[e] = w[e] BY <1>0, <2>1, DoneFacts
  <2>5. ~backend[dem[d].act] BY <1>0, <1>4 DEF RecFinish, At, ThreadInv, RecoverInv
  <2>6. dem[d].state # "Absent" BY <1>2
  <2> QED BY <1>0, <1>1, <1>2, <2>1, <2>2, <2>3, <2>4, <2>5, <2>6, IdleThread, GiveUp
<1>5. CASE RecFinish(d) /\ ~Quiescent(d) BY <1>f, <1>5 DEF RecFinish
<1> QED BY <1>3, <1>4, <1>5

\* An acquisition takes free GPUs only: whoever owns GPUs keeps them.
LEMMA AcquireKeeps ==
    ASSUME NEW r \in Demand, Acquire(r), NEW e \in Demand, Owns(e)
    PROVE  Owns(e)'
<1> DEFINE victims == UNION {Conflicts(d) : d \in Members(r)}
<1>1. Fence(r, victims) BY DEF Acquire
<1>2. victims = {} => \A m \in Members(r) : \A x \in Resources(m) : claims[x] \in {None, m}
  BY DEF Conflicts
<1> HIDE DEF victims
<1>3. CASE victims # {} BY <1>1, <1>3 DEF Fence, Owns
<1>4. CASE victims = {}
  <2> SUFFICES ASSUME NEW x \in Resources(e) PROVE claims'[x] = e
    BY DEF Owns, Resources
  <2>1. claims[x] = e /\ x \in Resource BY ShapeAssumption DEF Owns, Resources
  <2>2. CASE \E m \in Members(r) : x \in Resources(m)
    <3>1. \A m \in Members(r) : x \in Resources(m) => m = e
      BY <1>2, <1>4, <2>1, NoneAssumption
    <3>2. (CHOOSE m \in Members(r) : x \in Resources(m)) = e BY <2>2, <3>1
    <3> QED BY <1>1, <1>4, <2>1, <2>2, <3>2 DEF Fence
  <2>3. CASE ~ \E m \in Members(r) : x \in Resources(m)
    BY <1>1, <1>4, <2>1, <2>3 DEF Fence
  <2> QED BY <2>2, <2>3
<1> QED BY <1>3, <1>4

\* An accepted acquisition takes free GPUs at once, and puts every incumbent
\* it displaces under its fence.
LEMMA Acquiring ==
    ASSUME OwnershipInv, NEW r \in Demand, Acquire(r)
    PROVE  OwnershipInv'
<1> DEFINE victims == UNION {Conflicts(d) : d \in Members(r)}
<1>0. /\ TypeOK /\ RecordInv /\ Covered /\ TodoInv /\ Exclusive
      /\ \A e \in Demand : dem[e] \in DemandRecord /\ dem[e].act \in Demand
  BY DEF OwnershipInv, TypeOK, DemandRecord
<1>1. TypeOK' BY <1>0, TypeAcquire
<1>2. Fence(r, victims) /\ UNCHANGED <<warm, backend, w, supervision, crashes>>
  BY DEF Acquire
<1>3. \A v \in victims : dem[v].state = "Ready" BY DEF Acquire, Acquirable, Admissible
<1>4. Members(r) \subseteq Demand /\ \A m \in Members(r) : dem[m].state = "Absent"
  BY DEF Acquire, Acquirable, Members
<1> HIDE DEF victims
<1>6. ASSUME NEW m \in Members(r)
      PROVE  /\ dem'[m].state = "Preparing" /\ ~dem'[m].process /\ ~dem'[m].effect
             /\ ProfileOf[dem'[m].act] = ProfileOf[m]
  <2>1. /\ m \in Demand
        /\ dem'[m] = [NoDemand(m) EXCEPT !.state = "Preparing", !.victims = victims,
                                         !.act = ActivationFor(m)]
    BY <1>2, <1>4 DEF Fence, Prepared
  <2>2. ProfileOf[ActivationFor(m)] = ProfileOf[m] BY <2>1, ActivationType
  <2> QED BY <2>1, <2>2 DEF NoDemand
<1>7. ASSUME NEW e \in Demand, e \notin Members(r)
      PROVE  /\ dem'[e].act = dem[e].act /\ dem'[e].process = dem[e].process
             /\ dem'[e].effect = dem[e].effect /\ dem'[e].preflight = dem[e].preflight
             /\ dem'[e].state = (IF e \in victims THEN "Preempting" ELSE dem[e].state)
  <2>1. dem'[e] = IF e \in victims
                  THEN [dem[e] EXCEPT !.state = "Preempting", !.reason = "preempted", !.preemptedBy = r]
                  ELSE dem[e]
    BY <1>2, <1>7 DEF Fence
  <2> QED BY <1>0, <2>1 DEF DemandRecord
<1>8. ASSUME NEW e \in Demand, Owns(e) PROVE Owns(e)' BY <1>8, AcquireKeeps
<1>9. \A e \in Demand : dem[e].effect => e \notin Members(r)
  BY <1>0, <1>4 DEF RecordInv, Recorded, Present
<1>10. \A e \in Demand : dem'[e].state = "Absent" => dem[e].state = "Absent"
  BY <1>6, <1>7
<1>11. Exclusive' BY <1>0, <1>2 DEF Exclusive, Overlap, Resources
<1>12. Covered'
  <2> SUFFICES ASSUME NEW b \in Demand, backend'[b], warm'[b] = "none"
               PROVE  (\E e \in Demand : Present(e) /\ dem[e].act = b /\ dem[e].effect /\ Owns(e))'
    BY DEF Covered
  <2>1. PICK e \in Demand : Present(e) /\ dem[e].act = b /\ dem[e].effect /\ Owns(e)
    BY <1>0, <1>2 DEF Covered
  <2>2. e \notin Members(r) BY <1>9, <2>1
  <2> QED BY <1>7, <1>8, <2>1, <2>2 DEF Present
<1>13. ASSUME NEW e \in Demand PROVE Recorded(e)'
  <2>1. Recorded(e) BY <1>0 DEF RecordInv
  <2>2. CASE e \in Members(r) BY <1>6, <2>2 DEF Recorded
  <2>3. CASE e \notin Members(r) /\ e \notin victims
    BY <1>2, <1>7, <1>8, <2>1, <2>3 DEF Recorded, Present
  <2>4. CASE e \notin Members(r) /\ e \in victims
    BY <1>2, <1>3, <1>7, <1>8, <2>1, <2>4 DEF Recorded, Present
  <2> QED BY <2>2, <2>3, <2>4
<1>14. TodoInv'
  <2>1. \A t \in todo : t[2] \in Demand BY <1>0 DEF TypeOK
  <2> QED BY <1>0, <1>2, <1>10, <2>1 DEF TodoInv, supervision
<1>15. ASSUME NEW e \in Demand PROVE ThreadInv(e)'
  <2>1. CASE e \in Members(r)
    <3>1. w'[e] = Idle BY <1>0, <1>2, <1>4, <2>1 DEF RecordInv, Recorded
    <3> QED BY <3>1, IdleThread
  <2>2. CASE e \notin Members(r)
    <3>1. Kept(e) BY <1>3, <1>7, <2>2 DEF Kept
    <3>2. \A v \in Demand : StaysDisplaced(v)
      BY <1>3, <1>4, <1>7 DEF StaysDisplaced, Displaced
    <3> QED BY <1>2, <1>8, <3>1, <3>2, StillThread
  <2> QED BY <2>1, <2>2
<1> QED BY <1>1, <1>11, <1>12, <1>13, <1>14, <1>15 DEF OwnershipInv, RecordInv, WorkerInv

-----------------------------------------------------------------------------
(* The theorems.                                                             *)

\* The receiver starts with nothing owned, running or recorded.
LEMMA OwnershipInit == Init => OwnershipInv
<1> SUFFICES ASSUME Init PROVE OwnershipInv OBVIOUS
<1>1. TypeOK BY TypeInit
<1>2. Exclusive /\ Covered /\ TodoInv BY DEF Init, Exclusive, Covered, TodoInv
<1>3. RecordInv BY DEF Init, RecordInv, Recorded, NoDemand
<1>4. WorkerInv
  BY DEF Init, WorkerInv, ThreadInv, SnapInv, ProcessInv, StartInv, EvictInv, DrainInv, RetireInv,
     RecoverInv, Acting, Idle, NoSnap
<1> QED BY <1>1, <1>2, <1>3, <1>4 DEF OwnershipInv

\* Every step of the receiver, its clients and the machine keeps the invariant.
LEMMA OwnershipNext == OwnershipInv /\ [Next]_vars => OwnershipInv'
<1> SUFFICES ASSUME OwnershipInv, [Next]_vars PROVE OwnershipInv' OBVIOUS
<1>1. CASE TickStep BY <1>1, TickMoves
<1>2. ASSUME NEW d \in Demand, WorkerStep(d) PROVE OwnershipInv'
  <2>1. CASE TransitionStep(d)
    BY <2>1, OwnMoves, OwnStops, OwnEvictions, OwnRecords, Starting, StartStep, Taking, Retiring,
       Displacing
       DEF TransitionStep
  <2>2. CASE RecoveryStep(d)
    BY <2>2, OwnMoves, OwnStops, OwnRecords, Recovering DEF RecoveryStep
  <2> QED BY <1>2, <2>1, <2>2 DEF WorkerStep
<1>3. ASSUME NEW d \in Demand, ClientStep(d) \/ Archive(d) \/ Expire(d) \/ BackendDies(d)
      PROVE  OwnershipInv'
  BY <1>3, Acquiring, OutsideMoves DEF ClientStep
<1>4. ASSUME NEW c \in Call, CallStep(c) PROVE OwnershipInv'
  BY <1>4, CallMoves
<1>5. CASE Restart BY <1>5, RestartMove
<1>6. CASE UNCHANGED vars
  <2>1. /\ UNCHANGED <<claims, warm, w, todo, backend, dem>> BY <1>6 DEF vars
  <2>2. TypeOK' BY <1>6, TypeNext DEF OwnershipInv
  <2>3. \A e \in Demand : Mild(e) BY <2>1 DEF Mild
  <2> QED BY <2>1, <2>2, <2>3, OutsideStep
<1> QED BY <1>1, <1>2, <1>3, <1>4, <1>5, <1>6 DEF Next

\* In every reachable state records, claims, backends, the cache and the
\* threads in the middle of an effect agree on who owns what.
THEOREM OwnershipHolds == Spec => []OwnershipInv
<1>1. Init => OwnershipInv BY OwnershipInit
<1>2. OwnershipInv /\ [Next]_vars => OwnershipInv' BY OwnershipNext
<1> QED BY <1>1, <1>2, PTL DEF Spec

\* Whatever the interleaving of preemption, retirement, caching, recovery and
\* restarts, two backends never run on one GPU.
THEOREM ExclusiveHolds == Spec => []Exclusive
<1>1. OwnershipInv => Exclusive BY DEF OwnershipInv
<1> QED BY <1>1, OwnershipHolds, PTL

\* A running backend is never without an owner: a warm record, or a demand that
\* holds its GPUs and has recorded the effect.
THEOREM CoveredHolds == Spec => []Covered
<1>1. OwnershipInv => Covered BY DEF OwnershipInv
<1> QED BY <1>1, OwnershipHolds, PTL

\* Whoever is Ready or Preempting has its process recorded and its GPUs claimed.
THEOREM ReadyBackedHolds == Spec => []ReadyBacked
<1>1. OwnershipInv => ReadyBacked BY DEF OwnershipInv, RecordInv, Recorded, ReadyBacked
<1> QED BY <1>1, OwnershipHolds, PTL

\* A backend never has two owners.
THEOREM SingleOwnerHolds == Spec => []SingleOwner
<1>1. OwnershipInv => SingleOwner
  <2> SUFFICES ASSUME OwnershipInv, NEW d \in Demand, dem[d].effect
               PROVE  /\ warm[dem[d].act] # "resident"
                      /\ \A e \in Demand : dem[e].effect /\ dem[e].act = dem[d].act => e = d
    BY DEF SingleOwner
  <2>1. Owns(d) /\ warm[dem[d].act] # "resident" BY DEF OwnershipInv, RecordInv, Recorded
  <2>2. ASSUME NEW e \in Demand, dem[e].effect, dem[e].act = dem[d].act PROVE e = d
    <3>1. Owns(e) BY <2>2 DEF OwnershipInv, RecordInv, Recorded
    <3> QED BY <2>1, <2>2, <3>1, ActivationOwner DEF OwnershipInv
  <2> QED BY <2>1, <2>2
<1> QED BY <1>1, OwnershipHolds, PTL
=============================================================================
