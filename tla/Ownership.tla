------------------------------ MODULE Ownership ------------------------------
(* Why a GPU never has two backends: the inductive invariant behind          *)
(* Exclusive, Covered, SingleOwner and ReadyBacked. A demand that may have a *)
(* backend holds its claims, and a transition thread in the middle of an     *)
(* effect relies on facts no other thread can take away from it.             *)
EXTENDS Reservation

\* What the record of a demand says about its GPUs and its backend.
Recorded(d) ==
    /\ ProfileOf[dem[d].act] = ProfileOf[d]
    /\ dem[d].process /\ dem[d].state # "RecoveryRequired" => dem[d].effect
    /\ dem[d].effect => Present(d) /\ Owns(d) /\ warm[dem[d].act] # "resident"
    /\ dem[d].state \in {"Ready", "Preempting"} => dem[d].process
    /\ dem[d].state = "Preparing" /\ dem[d].process => dem[d].preflight
    /\ dem[d].state = "Absent" => w[d] = Idle

RecordInv == \A d \in Demand : Recorded(d)

\* Only demands that were accepted are scheduled.
TodoInv == \A t \in todo : dem[t[2]].state # "Absent"

\* States a victim never leaves towards Ready.
Displaced == {"Preempting", "Preempted", "Releasing", "Released", "Cancelled",
              "Expired", "RecoveryRequired", "Archived"}

\* Before the process of a start is recorded, the thread owns the GPUs.
Acting == {"evictStop", "evictRemove", "adopt", "adoptSave", "adoptEvict",
           "empty", "claimEffect", "start", "saveProcess"}

\* The thread does not find out about a preflight that is not recorded.
SnapInv(d) ==
    /\ w[d].snap.preflight => dem[d].preflight
    /\ w[d].pc \in {"evictMark", "preflight", "preflightSave"} => ~w[d].snap.preflight
    /\ w[d].pc \in {"peers", "drain", "drainBoundary", "drainStop", "drainMark", "transfer"}
                   \cup (Acting \ {"evictStop", "evictRemove"}) => w[d].snap.preflight

\* The recorded process is the one the thread saw.
ProcessInv(d) ==
    /\ w[d].pc \in {"boundary", "evictMark", "preflight", "preflightSave"}
         /\ ~w[d].snap.preflight => ~dem[d].process
    /\ w[d].pc \in {"boundary", "peers", "drain", "transfer"} =>
         /\ ~w[d].snap.process => ~dem[d].process
         /\ w[d].snap.process /\ dem[d].state = "Preparing" => dem[d].process
    /\ w[d].pc \in {"ready", "readySave", "readyRetire"} => w[d].snap.process
    /\ w[d].pc \in {"ready", "readySave"} /\ dem[d].state = "Preparing" => dem[d].process

\* A start is alone on GPUs its demand owns.
StartInv(d) ==
    /\ w[d].pc \in Acting => Owns(d) /\ ~dem[d].process
    /\ w[d].pc \in {"start", "saveProcess"} => dem[d].effect
    /\ w[d].pc \in {"claimEffect", "start"} => GpuFree(d)
    /\ w[d].pc \in {"empty", "claimEffect"} /\ dem[d].state = "Preparing"
         => warm[dem[d].act] # "resident"

\* A thread evicts residents of its own GPUs, and removes stopped ones only.
EvictInv(d) ==
    /\ w[d].pc \in {"evictStop", "evictRemove"} =>
         /\ \A a \in w[d].evict : Overlap(a, d)
         /\ w[d].snap.preflight => w[d].evict = {dem[d].act}
    /\ w[d].pc = "evictRemove" => w[d].tgt \in w[d].evict /\ ~backend[w[d].tgt]

\* A victim under drain never serves again; it is marked once it is stopped.
DrainInv(d) ==
    w[d].pc \in {"drainBoundary", "drainStop", "drainMark"} =>
      /\ w[d].tgt \in Demand
      /\ dem[w[d].tgt].state \in Displaced
      /\ w[d].pc = "drainMark" /\ dem[w[d].tgt].state = "Preempting"
           => ~backend[dem[w[d].tgt].act]

\* Claims are given up after the backend of a recorded effect is stopped.
RetireInv(d) ==
    /\ w[d].pc \in {"retRead", "retStopOnly", "retCache", "retCacheSave", "retStop", "retFinish"}
         => (dem[d].effect => w[d].snap.process \/ w[d].snap.effect)
    /\ w[d].pc = "retFinish" /\ dem[d].effect => ~backend[dem[d].act]

\* A demand under recovery keeps its claims until its backend is gone.
RecoverInv(d) ==
    /\ w[d].pc \in {"recQuiesce", "recResolve", "recStop", "recFinish"}
         => dem[d].state = "RecoveryRequired" /\ Owns(d)
    /\ w[d].pc = "recFinish" => ~backend[dem[d].act]

\* What the thread of a demand may rely on, wherever it is.
ThreadInv(d) ==
    /\ SnapInv(d) /\ ProcessInv(d) /\ StartInv(d) /\ EvictInv(d)
    /\ DrainInv(d) /\ RetireInv(d) /\ RecoverInv(d)

WorkerInv == \A d \in Demand : ThreadInv(d)

\* The inductive invariant.
OwnershipInv ==
    /\ TypeOK /\ Exclusive /\ Covered
    /\ RecordInv /\ TodoInv /\ WorkerInv

-----------------------------------------------------------------------------
(* Why a running call keeps its GPUs: whoever is about to give up the claims *)
(* of a demand has seen that none of its calls runs, and none starts again.  *)

\* No model call of the demand is running.
Drained(d) == \A c \in CallsOf(d) \ Workspace : call[c].state # "Running"

\* A demand that starts no call any more.
Closing(d) == dem[d].state \in Displaced \/ (dem[d].state # "Absent" /\ ~Active(dem[d]))

Stopping == {"drainBoundary", "drainStop", "drainMark"}
GivingUp == {"retCache", "retCacheSave", "retStop", "retFinish"}
Retirement == {"retRead", "retStopOnly"} \cup GivingUp

\* What a thread knows of the calls of the demand it stops.
QuietInv(d) ==
    /\ w[d].pc \in Stopping => Drained(w[d].tgt)
    /\ w[d].pc \in Retirement => Closing(d)
    /\ w[d].pc \in GivingUp => Drained(d)

\* The inductive invariant of CallsOwned, beside OwnershipInv.
CallsInv ==
    /\ CallsOwned
    /\ \A c \in Call : call[c].state # "None" => call[c].of \in Demand
    /\ \A d \in Demand : QuietInv(d)
=============================================================================
