----------------------------- MODULE MediaBridge -----------------------------
(* The runtime as the owner of the media GPU: a managed reservation (grant)  *)
(* starts, watches, stops and cleans up the same service record, from        *)
(* another process and for the most part without lifecycle.lock (media.rs,   *)
(* media_recovery.rs, recovery_media.rs, transition.rs).                     *)
EXTENDS MediaService

CONSTANT MaxGrants   \* bound on managed reservations

ASSUME BridgeAssumption == MaxGrants \in Nat

VARIABLE grants   \* activations the runtime granted

bridgeVars == <<vars, grants>>

rt == at["rt"]
RtGoto(pc) == Goto("rt", pc)

\* A reservation is admitted and owns the GPU.
Grant(mode) ==
    /\ rt.pc = "sleep" /\ lease = NoAct /\ acts < MaxAct /\ Cardinality(grants) < MaxGrants
    /\ acts' = acts + 1 /\ grants' = grants \cup {acts'}
    /\ lease' = acts' /\ grant' = [NoGrant EXCEPT !.act = acts', !.mode = mode, !.st = "preparing"]
    /\ RtGoto("begin")
    /\ UNCHANGED <<unit, starts, auth, idled, dirty, workVars, receipts, svc, jobs, sess, oplock, faults>>

\* The last look at the reservation before its effect; a reservation that
\* ended before has nothing to stop.
EffectStarts ==
    /\ rt.pc = "begin"
    /\ \/ grant.st = "preparing" /\ RtGoto("shared") /\ UNCHANGED <<lease, grant>>
       \/ grant.st = "releasing" /\ RtGoto("sleep") /\ lease' = NoAct /\ grant' = NoGrant
    /\ UNCHANGED <<unit, starts, auth, idled, dirty, workVars, receipts, svc, jobs, sess, oplock, acts, faults, grants>>

\* SharedActivation::begin; an interactive grant brings its own session.
SharedBegin ==
    /\ rt.pc = "shared" /\ Gone /\ svc.state \in {"stopped", "waiting"} /\ ~Demand
    /\ \E s \in Session \cup {NoSession} :
          /\ IF grant.mode = "interactive" THEN s # NoSession /\ sess[s].st = "absent" ELSE s = NoSession
          /\ svc' = [NoService EXCEPT !.state = "starting", !.mode = grant.mode, !.act = grant.act,
                                      !.lease = grant.act, !.session = s]
          /\ sess' = [t \in Session |-> IF t = s THEN [NoOne EXCEPT !.st = "open", !.of = grant.act] ELSE sess[t]]
    /\ RtGoto("start")
    /\ UNCHANGED <<backendVars, jobs, oplock, acts, faults, grants>>

SharedRefused ==
    /\ rt.pc = "shared" /\ RtGoto("failed")
    /\ UNCHANGED <<backendVars, svc, jobs, sess, oplock, acts, faults, grants>>

\* A start is requested once; its process is awaited and recorded.
Started ==
    /\ rt.pc = "await"
    /\ \/ /\ unit.inv # 0 /\ RtGoto("again")
          /\ grant' = [grant EXCEPT !.st = IF @ = "preparing" THEN "started" ELSE @, !.proc = TRUE]
       \/ UNCHANGED grant /\ RtGoto("failed")
    /\ UNCHANGED <<unit, starts, auth, idled, dirty, workVars, lease, receipts, svc, jobs, sess, oplock, acts, faults, grants>>

-----------------------------------------------------------------------------
(* Readiness, idleness and release. *)

Bound == svc.act = grant.act
Restarting == Bound /\ svc.phase \notin {"none", "completed"}
Turn(pc, why) == at' = [at EXCEPT !["rt"] =
    [Start0 EXCEPT !.pc = pc, !.snap = IF pc \in {"failed", "observe"} THEN @ ELSE svc, !.res = why]]

\* MediaAdapter::ready reads the record, and observes a startup like the
\* supervisor does.
Monitor ==
    /\ rt.pc = "again" /\ oplock # "rt" /\ grant.st \in {"started", "ready"}
    /\ Turn(IF ~Bound THEN "failed"
            ELSE CASE svc.state = "starting" -> "observe" [] svc.state = "ready" -> "check" [] OTHER -> "failed",
            "watch")
    /\ UNCHANGED <<backendVars, svc, jobs, sess, oplock, acts, faults, grants>>

\* The record that was read is verified, and its authority refreshed.
ReadyCommit ==
    /\ rt.pc = "check"
    /\ IF Verify(rt.snap)
       THEN /\ Authorise(rt.snap) /\ RtGoto("again")
            /\ grant' = [grant EXCEPT !.st = IF @ = "started" THEN "ready" ELSE @]
       ELSE UNCHANGED <<auth, grant>> /\ RtGoto("failed")
    /\ UNCHANGED <<unit, starts, idled, dirty, workVars, lease, receipts, svc, jobs, sess, oplock, acts, faults, grants>>

\* ReadyMonitor takes a restart for a preparation.
RestartSeen ==
    /\ rt.pc = "failed" /\ rt.res = "watch" /\ Restarting /\ grant.st \in {"started", "ready"}
    /\ grant' = [grant EXCEPT !.st = "started"] /\ RtGoto("again")
    /\ UNCHANGED <<unit, starts, auth, idled, dirty, workVars, lease, receipts, svc, jobs, sess, oplock, acts, faults, grants>>

\* The client, the deadline or a receipt of the media service ends the
\* reservation at any time; or the gate closed it for idleness.
ReleaseGrant ==
    /\ grant.st \in {"preparing", "started", "ready"}
    /\ grant' = [grant EXCEPT !.st = "releasing"]
    /\ \/ UNCHANGED idled
       \/ /\ grant.st = "ready" /\ rt.pc = "again"
          /\ Answers /\ QueueEmpty /\ unit.act = grant.act /\ idled' = grant.act
    /\ UNCHANGED <<unit, starts, auth, dirty, workVars, lease, receipts, serviceVars, grants>>

\* MediaAdapter::stop: one turn of its loop; the claim goes with the record.
Stop ==
    /\ rt.pc = "again" /\ oplock # "rt" /\ grant.st = "releasing"
    /\ \/ /\ svc.state = "stopped" /\ RtGoto("sleep") /\ lease' = NoAct /\ grant' = NoGrant
       \/ /\ svc.state # "stopped" /\ UNCHANGED <<lease, grant>>
          /\ Turn(IF ~Bound THEN "failed" ELSE IF svc.state = "stopping" THEN "stopping" ELSE "drain", "stop")
    /\ UNCHANGED <<unit, starts, auth, idled, dirty, workVars, receipts, svc, jobs, sess, oplock, acts, faults, grants>>

-----------------------------------------------------------------------------
(* Recovery: of health by MediaRecovery, of ownership by MediaCleanup. *)

\* An error of the transition leaves the reservation to recovery.
GiveUp ==
    /\ rt.pc = "failed"
    /\ grant' = [grant EXCEPT !.st = "recovery"] /\ RtGoto("again")
    /\ UNCHANGED <<unit, starts, auth, idled, dirty, workVars, lease, receipts, svc, jobs, sess, oplock, acts, faults, grants>>

Watched == rt.pc = "failed" /\ rt.res = "watch" /\ oplock = "free" /\ grant.proc /\ grant.st \in {"started", "ready", "releasing"}

\* retire_stopped: the record is bound to the grant and everything is gone.
RetireStopped ==
    /\ Watched /\ Gone /\ ~Restarting
    /\ \/ /\ svc = NoService /\ ~Busy /\ ~Wanted
          /\ RtGoto("sleep") /\ lease' = NoAct /\ grant' = NoGrant /\ UNCHANGED oplock
       \/ /\ Bound /\ Verified(svc.lease) /\ oplock' = "rt"
          /\ Turn("stopping", "watch") /\ UNCHANGED <<lease, grant>>
    /\ UNCHANGED <<unit, starts, auth, idled, dirty, workVars, receipts, svc, jobs, sess, acts, faults, grants>>

\* reconcile_effect_absent: a start of unknown outcome left nothing behind.
StartUnknown == grant.st = "recovery" /\ ~grant.proc
EffectAbsent ==
    /\ svc = NoService /\ Gone /\ ~Busy
    /\ \A s \in Session : sess[s].st = "open" => sess[s].stopped
ReconcileAbsent ==
    /\ rt.pc = "again" /\ oplock = "free" /\ StartUnknown /\ EffectAbsent
    /\ RtGoto("sleep") /\ lease' = NoAct /\ grant' = NoGrant
    /\ UNCHANGED <<unit, starts, auth, idled, dirty, workVars, receipts, svc, jobs, sess, oplock, acts, faults, grants>>

\* advance: an owned process whose health failed is closed and observed again,
\* or stopped when the reservation is over or its deadline has passed.
Owned == Bound /\ Verified(svc.lease) /\ unit.inv # 0 /\ svc.inv = unit.inv
Advance ==
    /\ Watched /\ Owned
    /\ \/ /\ grant.st \in {"started", "releasing"}
          /\ Close(svc) /\ svc' = [svc EXCEPT !.state = "stopping"]
          /\ grant' = [grant EXCEPT !.st = "releasing"] /\ oplock' = "rt" /\ Turn("stopreq", "watch")
       \/ /\ grant.st \in {"started", "ready"}
          /\ IF svc.state \in {"ready", "recovery"}
             THEN Close(svc) /\ svc' = [svc EXCEPT !.state = "starting"]
             ELSE UNCHANGED <<auth, svc>>
          /\ grant' = [grant EXCEPT !.st = "started"] /\ RtGoto("again") /\ UNCHANGED oplock
    /\ UNCHANGED <<unit, starts, idled, dirty, workVars, lease, receipts, jobs, sess, acts, faults, grants>>

RtUnlock ==
    /\ rt.pc \in {"again", "failed"} /\ oplock = "rt" /\ oplock' = "free"
    /\ UNCHANGED <<backendVars, svc, jobs, sess, at, acts, faults, grants>>

\* MediaCleanup::binding
Clean ==
    /\ \/ Bound /\ svc.lease = grant.act
       \/ svc.act = NoAct /\ svc.lease = NoAct /\ svc.inv = 0 /\ svc.phase = "none"
    /\ \A s \in Session : sess[s].st = "open" /\ ~sess[s].stopped => sess[s].of = grant.act
    /\ \A j \in Job : Pending(j) \/ jobs[j].cleanup =>
          jobs[j].bind = grant.act /\ jobs[j].act \in {NoAct, grant.act}

\* The unit is gone, or it is the process of the grant.
Identified == Gone \/ (unit.inv # 0 /\ unit.act = grant.act /\ svc.inv \in {0, unit.inv})

Cleanup ==
    /\ rt.pc = "again" /\ grant.st = "recovery" /\ oplock = "free" /\ Clean /\ Identified
    /\ oplock' = "rt" /\ Close(svc)
    /\ svc' = [svc EXCEPT !.mode = "closed", !.state = "recovery", !.phase = "none"]
    /\ sess' = [s \in Session |-> [sess[s] EXCEPT !.rel = @ \/ (sess[s].st = "open" /\ ~sess[s].stopped)]]
    /\ at' = [at EXCEPT !["rt"] = [@ EXCEPT !.pc = "cstop", !.snap = [svc EXCEPT !.inv = unit.inv]]]
    /\ UNCHANGED <<unit, starts, idled, dirty, workVars, holdVars, jobs, acts, faults, grants>>

CleanupStop ==
    /\ rt.pc = "cstop"
    /\ IF StopRefused(rt.snap.inv) THEN UNCHANGED unit /\ RtGoto("again")
                                   ELSE StopUnit(rt.snap.inv) /\ RtGoto("cwait")
    /\ UNCHANGED <<starts, auth, idled, dirty, workVars, holdVars, svc, jobs, sess, oplock, acts, faults, grants>>

CleanupPurge ==
    /\ rt.pc = "cwait"
    /\ \/ Gone /\ dirty' = FALSE /\ RtGoto("cdone")
       \/ ~Gone /\ UNCHANGED dirty /\ RtGoto("again")          \* the deadline
    /\ UNCHANGED <<unit, starts, auth, idled, workVars, holdVars, svc, jobs, sess, oplock, acts, faults, grants>>

CleanupDone ==
    /\ rt.pc = "cdone"
    /\ IF Clean
       THEN /\ svc' = NoService /\ RtGoto("cfree")
            /\ sess' = [s \in Session |-> [sess[s] EXCEPT
                  !.stopped = @ \/ sess[s].st = "open", !.rel = @ \/ (sess[s].st = "open" /\ ~sess[s].stopped)]]
            /\ jobs' = [j \in Job |->
                  IF ~(Pending(j) \/ jobs[j].cleanup) THEN jobs[j]
                  ELSE IF jobs[j].act = NoAct THEN [jobs[j] EXCEPT !.st = "cancelled"] ELSE Interrupted(j)]
       ELSE UNCHANGED <<svc, sess, jobs>> /\ RtGoto("again")
    /\ UNCHANGED <<backendVars, oplock, acts, faults, grants>>

Reconciled ==
    /\ rt.pc = "cfree"
    /\ lease' = NoAct /\ grant' = NoGrant /\ oplock' = "free" /\ RtGoto("sleep")
    /\ UNCHANGED <<unit, starts, auth, idled, dirty, workVars, receipts, svc, jobs, sess, acts, faults, grants>>

\* The runtime restarts: an interrupted start is not repeated.
RtCrash ==
    /\ rt.pc # "sleep" /\ Fault
    /\ grant' = [grant EXCEPT !.st = IF rt.pc # "begin" /\ ~grant.proc THEN "recovery" ELSE @]
    /\ RtGoto(IF rt.pc = "begin" THEN "begin" ELSE "again")
    /\ oplock' = IF oplock = "rt" THEN "free" ELSE oplock
    /\ UNCHANGED <<unit, starts, auth, idled, dirty, workVars, lease, receipts, svc, jobs, sess, acts, grants>>

-----------------------------------------------------------------------------
Bridge ==
    \/ \E m \in {"interactive", "managed"} : Grant(m)
    \/ EffectStarts \/ SharedBegin \/ SharedRefused \/ Started
    \/ Monitor \/ ReadyCommit \/ RestartSeen \/ ReleaseGrant \/ Stop
    \/ GiveUp \/ RetireStopped \/ ReconcileAbsent \/ Advance \/ RtUnlock
    \/ Cleanup \/ CleanupStop \/ CleanupPurge \/ CleanupDone \/ Reconciled \/ RtCrash
    \/ Lifecycle("rt") /\ UNCHANGED grants

Init == BackendInit /\ ServiceInit /\ grants = {}
Next ==
    \/ Bridge
    \/ (Supervise \/ Serve \/ Deadline \/ Crash \/ Surroundings) /\ UNCHANGED grants
Spec == Init /\ [][Next]_bridgeVars

-----------------------------------------------------------------------------
(* Types.                                                                    *)

\* Where a process stands between two steps.
Places ==
    {"sleep", "sweep", "tick", "exec", "end", "failed", "again", "begin", "create", "acquire", "persist", "start",
     "observe", "adopt", "verify", "open", "drain", "halt", "stopreq", "stopping", "reset", "ready", "idle", "idled",
     "finish", "restarting", "rdrain", "rhalt", "robserve", "rpending", "rstart", "rstarting", "rfinish", "rstop",
     "ropen", "prepare", "submit", "post", "acked", "poll", "publish", "cancel", "cancelling", "cleaned", "recover",
     "recovered", "shared", "await", "check", "cstop", "cwait", "cdone", "cfree"}
\* The phases of a restart, and none.
Phases == {"none", "draining", "stopping", "finishing", "pending", "starting", "completed"}
\* The service record.
Service ==
    [state : {"stopped", "waiting", "reserving", "starting", "ready", "restarting", "draining", "stopping", "recovery"},
     mode : Modes, act : Act, session : Session \cup {NoSession}, inv : 0..MaxStarts,
     lease : Act, phase : Phases, prev : 0..MaxStarts, target : 0..MaxStarts]
\* What a process remembers: its copy of the record, its job, the last answer.
Control ==
    [pc : Places, snap : Service, job : Job \cup {"none"},
     res : {"none", "keep", "finish", "expired", "watch", "stop", "ok", "error", "completed", "failed", "interrupted"}]
\* A job, and a session.
JobRecord ==
    [st : {"absent", "waiting", "starting", "dispatching", "running", "uncertain",
           "completed", "failed", "cancelled", "interrupted"},
     cleanup : BOOLEAN, cancel : BOOLEAN, act : Act, bind : Act, late : BOOLEAN]
SessionRecord == [st : {"absent", "open"}, rel : BOOLEAN, stopped : BOOLEAN, over : BOOLEAN, of : Act]

\* An activation that is about to be issued is within the bound.
TypeOK ==
    /\ BackendTypeOK
    /\ svc \in Service /\ jobs \in [Job -> JobRecord] /\ sess \in [Session -> SessionRecord]
    /\ at \in [Proc -> Control]
    /\ oplock \in {"free", "sup", "rt"} /\ acts \in Act /\ faults \in 0..MaxFaults /\ grants \subseteq Act
    /\ sup.pc \in {"begin", "create"} => acts <= MaxAct

\* The GPU is free for others only after the image backend is gone, with no start
\* of it pending, and the files of its last activation are purged, whatever
\* crash or timeout came in between (the receiver without reservations of the
\* runtime: a unit of theirs may be left behind, see the README).
Reserved == lease \in {NoAct, Other} => Gone /\ ~dirty

\* The unit that was started under a lease of the media service itself keeps
\* that lease while it may run, beside the reservations of the runtime.
OwnReserved == ~Gone /\ unit.for \notin grants => lease = svc.lease /\ lease \notin {NoAct, Other}

\* A job is submitted to the backend at most once, whatever answer was lost
\* (the receiver without reservations of the runtime: their stop does not wait
\* for a submission in progress, see the README).
AtMostOnce == \A j \in Job : posts[j] <= 1

\* A unit of the media service is asked to stop only when no job is in its queue, and
\* no native request either: accepted work is drained, not killed. A native request
\* may be there when an opening of the gate was cut short before it was recorded:
\* the start is then past its deadline, or the session is over during its restart.
Drained == [][unit.st = "up" /\ unit'.st = "stopping" /\ unit.for \notin grants =>
    queue = {} /\ (native = "queued" => sup.snap.state = "starting" \/ svc.phase = "finishing")]_bridgeVars

\* A recorded cancellation is never overwritten by a result.
CancelSticks == [][\A j \in Job : jobs[j].cancel => jobs'[j].st = "cancelled"]_bridgeVars

\* No start is submitted for a session whose Finish was accepted, by the receiver
\* for its own activations and for a restart of either's. The first start of a
\* reservation is excepted: the runtime records its session and requests the
\* start without another look, and a Finish in between is followed by it.
NoStartAfterFinish ==
    [][Gone /\ unit'.st = "pending" /\ svc.session # NoSession /\ sess[svc.session].rel
         => rt.pc = "start" /\ unit'.for = grant.act]_bridgeVars
=============================================================================
