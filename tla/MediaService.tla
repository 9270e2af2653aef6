---------------------------- MODULE MediaService ----------------------------
(* The media receiver (rack_ai_media): one service record, jobs and sessions *)
(* in a state file, a supervisor thread that advances them, and the handlers *)
(* of the HTTP interface. An update of the file is one step. The supervisor  *)
(* and the operations on sessions hold lifecycle.lock; submissions and       *)
(* cancellations of jobs do not, and neither does the runtime, which calls   *)
(* the same startup and shutdown code from its own process: those steps take *)
(* the process p, "sup" or "rt", whose control and copy of the service are   *)
(* at[p].                                                                    *)
EXTENDS MediaBackend

CONSTANTS
    Session, NoSession,
    MaxFaults     \* bound on crashes, failed probes and passed deadlines

ASSUME ServiceAssumption == NoSession \notin Session /\ MaxFaults \in Nat

VARIABLES
    svc,      \* the service record
    jobs, sess,
    at,       \* process -> control, copy of the service, job at hand, result
    oplock,   \* holder of lifecycle.lock
    acts,     \* activations issued
    faults

serviceVars == <<svc, jobs, sess, at, oplock, acts, faults>>
vars == <<backendVars, serviceVars>>

Proc == {"sup", "rt"}
NoService == [state |-> "stopped", mode |-> "closed", act |-> NoAct, session |-> NoSession,
              inv |-> 0, lease |-> NoAct, phase |-> "none", prev |-> 0, target |-> 0]
NoJob == [st |-> "absent", cleanup |-> FALSE, cancel |-> FALSE, act |-> NoAct,
          bind |-> NoAct, late |-> FALSE]
NoOne == [st |-> "absent", rel |-> FALSE, stopped |-> FALSE, over |-> FALSE, of |-> NoAct]
Start0 == [pc |-> "sleep", snap |-> NoService, job |-> "none", res |-> "none"]

Terminal(j) == jobs[j].st \in {"completed", "failed", "cancelled", "interrupted"}
Pending(j) == jobs[j].st # "absent" /\ ~Terminal(j)
Open(s) == sess[s].st = "open" /\ ~sess[s].stopped /\ ~sess[s].rel

\* The copies a step took are forgotten where its caller does not use them.
Settled == {"exec", "end", "sweep", "recover", "sleep", "again", "begin"}
Goto(p, pc) ==
    at' = [at EXCEPT ![p] = IF pc \in Settled THEN [Start0 EXCEPT !.pc = pc]
                            ELSE IF pc \in {"failed", "verify"} THEN [Start0 EXCEPT !.pc = pc, !.res = IF p = "rt" THEN at[p].res ELSE "none"]
                            ELSE [at[p] EXCEPT !.pc = pc]]
GotoWith(p, pc, snap) == at' = [at EXCEPT ![p].pc = pc, ![p].snap = snap]
\* Where a step of the lifecycle leads: the supervisor goes on to the jobs.
After(p) == IF p = "sup" THEN "exec" ELSE "again"

\* Lifecycle::verify: lease, invocation, process and gate are the recorded ones.
Verify(s) == Verified(s.lease) /\ Answers /\ s.inv = unit.inv /\ unit.act = s.act

\* Lifecycle::authority
Authority(act, mode) == auth' = [act |-> act, mode |-> mode]
Authorise(s) == Authority(s.act, s.mode)
Close(s) == Authority(s.act, "closed")

\* A job the backend may still hold ends as interrupted when it is not over.
Interrupted(j) == [jobs[j] EXCEPT !.cleanup = FALSE, !.st = IF Terminal(j) THEN @ ELSE "interrupted"]

Fault == faults < MaxFaults /\ faults' = faults + 1

\* What a step asks of the world before its effect.
Holds(p) ==
    LET s == at[p].snap IN
    CASE at[p].pc = "observe" -> svc.inv \in {0, unit.inv}
      [] at[p].pc \in {"drain", "ready", "rdrain", "ropen"} -> Verify(s)
      [] at[p].pc = "stopping" -> Gone => s.lease # NoAct /\ Releasable(s.lease)
      [] at[p].pc = "idle" -> Answers /\ unit.act = s.act
      [] at[p].pc = "restarting" -> s.mode = "interactive" /\ s.session # NoSession /\ Verified(s.lease)
      [] at[p].pc = "rpending" -> Gone
      [] at[p].pc = "rstarting" -> unit.inv # 0 =>
            unit.inv # s.prev /\ s.target \in {0, unit.inv} /\ unit.act = s.act
      [] at[p].pc = "submit" -> Verify(svc) /\ Admitted(svc.lease)
      [] OTHER -> TRUE

\* The step fails before it has an effect: it does not hold, or a probe, a
\* request or a deadline of it fails.
Probing == {"begin", "acquire", "persist", "start", "observe", "adopt", "verify", "open", "drain",
            "stopreq", "stopping", "ready", "idle", "restarting", "rdrain", "robserve", "rpending",
            "rstarting", "ropen", "exec", "submit", "cancel"}
ProbeFails(p) ==
    /\ at[p].pc \in Probing
    /\ IF Holds(p) THEN Fault ELSE UNCHANGED faults
    /\ Goto(p, "failed")
    /\ UNCHANGED <<backendVars, svc, jobs, sess, oplock, acts>>

-----------------------------------------------------------------------------
(* Startup, by the supervisor and by the runtime. *)

Observe(p) ==
    /\ at[p].pc = "observe" /\ Holds(p)
    /\ Close(svc) /\ GotoWith(p, "adopt", svc)
    /\ UNCHANGED <<unit, starts, idled, dirty, workVars, holdVars, svc, jobs, sess, oplock, acts, faults>>

\* An invocation is adopted when its gate names the activation.
Adopt(p) ==
    /\ at[p].pc = "adopt"
    /\ \/ at[p].snap.inv = 0 /\ Answers /\ unit.act = at[p].snap.act
          /\ svc' = [svc EXCEPT !.inv = unit.inv] /\ Goto(p, "verify")
       \/ /\ UNCHANGED svc
          /\ \/ Goto(p, "verify")
             \/ at[p].snap.inv = 0 /\ Answers /\ unit.act # at[p].snap.act /\ Goto(p, "failed")
    /\ UNCHANGED <<backendVars, jobs, sess, oplock, acts, faults>>

StartupVerify(p) ==
    /\ at[p].pc = "verify"
    /\ \/ /\ Verify(svc)
          /\ svc.session # NoSession /\ sess[svc.session].rel
          /\ svc' = [svc EXCEPT !.state = "draining"] /\ Goto(p, After(p))
       \/ /\ Verify(svc)
          /\ svc.session # NoSession => ~sess[svc.session].rel
          /\ UNCHANGED svc /\ GotoWith(p, "open", svc)
       \/ UNCHANGED svc /\ Goto(p, After(p))
       \/ /\ svc.inv # 0                       \* start_timeout
          /\ svc' = [svc EXCEPT !.state = "stopping"] /\ GotoWith(p, "stopreq", svc)
    /\ UNCHANGED <<backendVars, jobs, sess, oplock, acts, faults>>

OpenGate(p) ==
    /\ at[p].pc = "open"
    /\ Authorise(at[p].snap)
    /\ \/ /\ Answers /\ unit.act = at[p].snap.act /\ idled # unit.act
          /\ svc' = [svc EXCEPT !.state = "ready"] /\ Goto(p, After(p))
       \/ UNCHANGED svc /\ Goto(p, "failed")
    /\ UNCHANGED <<unit, starts, idled, dirty, workVars, holdVars, jobs, sess, oplock, acts, faults>>

-----------------------------------------------------------------------------
(* Shutdown, by the supervisor and by the runtime. *)

\* Mutation of Drain: the queue is looked at before the gate is closed.
DrainOpen(p) ==
    /\ at[p].pc = "drain" /\ Holds(p)
    /\ Goto(p, IF QueueEmpty THEN "halt" ELSE After(p))
    /\ UNCHANGED <<backendVars, svc, jobs, sess, oplock, acts, faults>>

\* The gate is closed, its barrier passed, and then the queue is looked at.
Drain(p) ==
    /\ at[p].pc = "drain" /\ Holds(p)
    /\ Close(at[p].snap)
    /\ Goto(p, IF QueueEmpty THEN "halt" ELSE After(p))
    /\ UNCHANGED <<unit, starts, idled, dirty, workVars, holdVars, svc, jobs, sess, oplock, acts, faults>>

Halt(p) ==
    /\ at[p].pc = "halt"
    /\ svc' = [svc EXCEPT !.state = "stopping"] /\ Goto(p, "stopreq")
    /\ UNCHANGED <<backendVars, jobs, sess, oplock, acts, faults>>

StopRequest(p) ==
    /\ at[p].pc = "stopreq"
    /\ IF StopRefused(at[p].snap.inv) THEN UNCHANGED unit /\ Goto(p, "failed")
                                      ELSE StopUnit(at[p].snap.inv) /\ Goto(p, After(p))
    /\ UNCHANGED <<starts, auth, idled, dirty, workVars, holdVars, svc, jobs, sess, oplock, acts, faults>>

\* Mutation of Stopping: the lease is released once the stop was requested.
StoppingEarly(p) ==
    /\ at[p].pc = "stopping"
    /\ at[p].snap.lease # NoAct /\ Releasable(at[p].snap.lease)
    /\ Release(at[p].snap.lease) /\ dirty' = FALSE /\ Goto(p, "reset")
    /\ UNCHANGED <<unit, starts, auth, idled, workVars, svc, jobs, sess, oplock, acts, faults>>

\* Files are purged and the lease released once unit and GPU are empty.
Stopping(p) ==
    /\ at[p].pc = "stopping"
    /\ \/ /\ Gone /\ Holds(p)
          /\ Release(at[p].snap.lease) /\ dirty' = FALSE /\ Goto(p, "reset")
       \/ ~Gone /\ Goto(p, After(p)) /\ UNCHANGED <<dirty, holdVars>>
    /\ UNCHANGED <<unit, starts, auth, idled, workVars, svc, jobs, sess, oplock, acts, faults>>

Reset(p) ==
    /\ at[p].pc = "reset"
    /\ svc' = NoService
    /\ sess' = [s \in Session |-> [sess[s] EXCEPT !.stopped = @ \/ sess[s].rel \/ s = at[p].snap.session]]
    /\ jobs' = [j \in Job |-> IF jobs[j].cleanup /\ jobs[j].act = at[p].snap.act
                              THEN Interrupted(j) ELSE jobs[j]]
    /\ Goto(p, After(p))
    /\ UNCHANGED <<backendVars, oplock, acts, faults>>

-----------------------------------------------------------------------------
(* The supervisor's round: sweep the jobs, then under the lock one step of   *)
(* the lifecycle and one of the jobs.                                        *)

sup == at["sup"]
SupGoto(pc) == Goto("sup", pc)

Sweep ==
    /\ sup.pc = "sweep"
    /\ jobs' = [j \in Job |->
          IF ~Pending(j) \/ jobs[j].cleanup THEN jobs[j]
          ELSE [jobs[j] EXCEPT !.st = IF jobs[j].late THEN "failed"
                                      ELSE IF svc.mode = "managed" /\ svc.state = "starting" THEN "starting"
                                      ELSE @]]
    /\ SupGoto("tick")
    /\ UNCHANGED <<backendVars, svc, sess, oplock, acts, faults>>

Wanted == \E s \in Session : Open(s)
Demand == Wanted \/ \E j \in Job : Pending(j)

\* Whether the session the record names is still asked for.
Asked == svc.session # NoSession /\ ~sess[svc.session].rel
Lasting == Asked /\ ~sess[svc.session].stopped /\ ~sess[svc.session].over
Busy == \E j \in Job : Pending(j) \/ jobs[j].cleanup

\* What the state read at the start of the round says about finishing. The
\* idle time of a managed activation may or may not be over.
Verdicts ==
    CASE svc.state = "ready" /\ svc.mode = "interactive" ->
            {IF ~Asked THEN "finish" ELSE IF sess[svc.session].over THEN "expired" ELSE "keep"}
      [] svc.state = "ready" /\ svc.mode # "interactive" -> IF Busy THEN {"keep"} ELSE {"keep", "finish"}
      [] svc.state = "restarting" -> {IF Lasting THEN "keep" ELSE "finish"}
      [] OTHER -> {"none"}

Route ==
    CASE svc.state \in {"stopped", "waiting"} -> IF Demand /\ acts < MaxAct THEN "begin" ELSE "exec"
      [] svc.state = "reserving" -> "failed"
      [] svc.state = "starting" -> "observe"
      [] svc.state = "recovery" -> IF svc.mode = "interactive" /\ svc.session # NoSession /\ ~Asked
                                   THEN "drain" ELSE "exec"
      [] svc.state = "draining" -> "drain"
      [] OTHER -> svc.state

Tick ==
    /\ sup.pc = "tick" /\ oplock = "free" /\ oplock' = "sup"
    /\ \E v \in Verdicts : at' = [at EXCEPT !["sup"] =
          [Start0 EXCEPT !.pc = Route, !.res = v,
                         !.snap = CASE Route = "begin" ->
                                          [NoService EXCEPT !.mode = IF Wanted THEN "interactive" ELSE "managed"]
                                    [] Route \in {"exec", "failed", "observe"} -> NoService
                                    [] OTHER -> svc]]
    /\ UNCHANGED <<backendVars, svc, jobs, sess, acts, faults>>

\* A round ends: the lock is dropped.
Unlocked == oplock' = IF oplock = "sup" THEN "free" ELSE oplock

\* The error of a round, or of recovery, closes the gate and keeps what is held.
Quarantine ==
    /\ sup.pc = "failed"
    /\ Close(svc)
    /\ svc' = [svc EXCEPT !.state = "recovery"]
    /\ jobs' = [j \in Job |-> IF jobs[j].cleanup THEN [Interrupted(j) EXCEPT !.cleanup = TRUE] ELSE jobs[j]]
    /\ SupGoto("sweep") /\ Unlocked
    /\ UNCHANGED <<unit, starts, idled, dirty, workVars, holdVars, sess, acts, faults>>

-----------------------------------------------------------------------------
(* A dedicated activation. *)

Waits == svc' = [svc EXCEPT !.state = "waiting"] /\ SupGoto("exec")

BeginProbe ==
    /\ sup.pc = "begin"
    /\ \/ Gone /\ SupGoto("create") /\ UNCHANGED svc
       \/ Waits                                  \* a process on the GPU
       \/ ~Gone /\ SupGoto("failed") /\ UNCHANGED svc
    /\ UNCHANGED <<backendVars, jobs, sess, oplock, acts, faults>>

\* The record is overwritten, whatever it has become since it was read.
Create ==
    /\ sup.pc = "create"
    /\ acts' = acts + 1
    /\ \E s \in Session \cup {NoSession} :
          /\ IF sup.snap.mode = "interactive" /\ Wanted THEN s # NoSession /\ Open(s) ELSE s = NoSession
          /\ svc' = [NoService EXCEPT !.state = "reserving", !.mode = sup.snap.mode, !.act = acts', !.session = s]
    /\ GotoWith("sup", "acquire", svc')
    /\ UNCHANGED <<backendVars, jobs, sess, oplock, faults>>

Acquire ==
    /\ sup.pc = "acquire"
    /\ \/ lease = NoAct /\ lease' = sup.snap.act /\ SupGoto("persist") /\ UNCHANGED svc
       \/ lease # NoAct /\ Waits /\ UNCHANGED lease
    /\ UNCHANGED <<unit, starts, auth, idled, dirty, workVars, receipts, grant, jobs, sess, oplock, acts, faults>>

Persist ==
    /\ sup.pc = "persist"
    /\ svc' = [svc EXCEPT !.lease = sup.snap.act, !.state = "starting"] /\ SupGoto("start")
    /\ UNCHANGED <<backendVars, jobs, sess, oplock, acts, faults>>

\* The authority is closed before the unit is started, so the gate boots with
\* the activation and admits nothing.
Start(p) ==
    /\ at[p].pc = "start"
    /\ Close(svc)
    /\ IF CanStart THEN StartUnit(IF p = "sup" THEN svc.act ELSE grant.act) /\ Goto(p, IF p = "sup" THEN "exec" ELSE "await")
                   ELSE UNCHANGED unit /\ Goto(p, "failed")
    /\ UNCHANGED <<starts, idled, dirty, workVars, holdVars, svc, jobs, sess, oplock, acts, faults>>

-----------------------------------------------------------------------------
(* Ready: refresh the authority, and finish when nobody asks any more. *)

Ready ==
    /\ sup.pc = "ready" /\ Holds("sup")
    /\ Authorise(sup.snap)
    /\ SupGoto(IF Managed(sup.snap.lease) THEN "finish" ELSE "idle")
    /\ UNCHANGED <<unit, starts, idled, dirty, workVars, holdVars, svc, jobs, sess, oplock, acts, faults>>

\* The gate decides on idleness under its barrier.
Idle ==
    /\ sup.pc = "idle" /\ Holds("sup")
    /\ \/ QueueEmpty /\ idled' = unit.act
       \/ UNCHANGED idled
    /\ SupGoto("idled")
    /\ UNCHANGED <<unit, starts, auth, dirty, workVars, holdVars, svc, jobs, sess, oplock, acts, faults>>

IdleSaved ==
    /\ sup.pc = "idled"
    /\ \/ /\ svc.act # sup.snap.act \/ svc.state # "ready"
          /\ SupGoto("failed") /\ UNCHANGED <<svc, sess>>
       \/ /\ svc.act = sup.snap.act /\ svc.state = "ready"
          /\ IF idled = sup.snap.act
             THEN /\ svc' = [svc EXCEPT !.state = "draining"]
                  /\ sess' = [s \in Session |-> [sess[s] EXCEPT !.rel = @ \/ s = sup.snap.session]]
                  /\ SupGoto("exec")
             ELSE UNCHANGED <<svc, sess>> /\ SupGoto("finish")
    /\ UNCHANGED <<backendVars, jobs, oplock, acts, faults>>

Finish ==
    /\ sup.pc = "finish"
    /\ LET shared == Managed(sup.snap.lease) IN
       svc' = IF /\ sup.res = "finish" \/ (sup.res = "expired" /\ ~shared)
                 /\ ~(shared /\ sup.snap.mode = "managed")
              THEN [svc EXCEPT !.state = "draining"] ELSE svc
    /\ SupGoto("exec")
    /\ UNCHANGED <<backendVars, jobs, sess, oplock, acts, faults>>

-----------------------------------------------------------------------------
(* A supervised restart of an interactive activation. *)

RestartPcs == [draining |-> "rdrain", stopping |-> "robserve", finishing |-> "robserve",
               pending |-> "rpending", starting |-> "rstarting", completed |-> "failed", none |-> "failed"]

\* A phase is written into an intent that is still there.
Phase(ph, pc) ==
    IF svc.phase = "none" THEN UNCHANGED svc /\ SupGoto("failed")
                          ELSE svc' = [svc EXCEPT !.phase = ph] /\ SupGoto(pc)

Restart ==
    /\ sup.pc = "restarting" /\ Holds("sup")
    /\ Close(sup.snap) /\ SupGoto(RestartPcs[sup.snap.phase])
    /\ UNCHANGED <<unit, starts, idled, dirty, workVars, holdVars, svc, jobs, sess, oplock, acts, faults>>

RestartDrain ==
    /\ sup.pc = "rdrain" /\ Holds("sup")
    /\ SupGoto(IF QueueEmpty THEN "rhalt" ELSE "exec")
    /\ UNCHANGED <<backendVars, svc, jobs, sess, oplock, acts, faults>>

RestartHalt ==
    /\ sup.pc = "rhalt"
    /\ Phase("stopping", "stopreq")
    /\ UNCHANGED <<backendVars, jobs, sess, oplock, acts, faults>>

\* Stopping or finishing: only the expected generation may still be there.
RestartObserve ==
    /\ sup.pc = "robserve"
    /\ LET expected == IF sup.snap.phase = "finishing" /\ sup.snap.target # 0
                       THEN sup.snap.target ELSE sup.snap.prev
           ends == sup.res = "finish" \/ sup.snap.phase = "finishing" IN
       \/ /\ unit.inv \notin {0, expected} /\ SupGoto("failed") /\ UNCHANGED svc
       \/ /\ Gone
          /\ IF ends THEN SupGoto("stopping") /\ UNCHANGED svc
                     ELSE Phase("pending", "exec")
       \/ ~Gone /\ unit.inv \in {0, expected} /\ SupGoto("exec") /\ UNCHANGED svc
    /\ UNCHANGED <<backendVars, jobs, sess, oplock, acts, faults>>

\* Mutation of RestartPending: Finish is not looked at before the start.
RestartPendingBlind ==
    /\ sup.pc = "rpending" /\ Holds("sup")
    /\ Phase("starting", "rstart")
    /\ UNCHANGED <<backendVars, jobs, sess, oplock, acts, faults>>

RestartPending ==
    /\ sup.pc = "rpending" /\ Holds("sup")
    /\ IF sup.res = "finish" THEN SupGoto("stopping") /\ UNCHANGED svc
                             ELSE Phase("starting", "rstart")
    /\ UNCHANGED <<backendVars, jobs, sess, oplock, acts, faults>>

RestartStart ==
    /\ sup.pc = "rstart"
    /\ IF CanStart THEN StartUnit(sup.snap.act) /\ SupGoto("exec") ELSE UNCHANGED unit /\ SupGoto("failed")
    /\ UNCHANGED <<starts, auth, idled, dirty, workVars, holdVars, svc, jobs, sess, oplock, acts, faults>>

\* No process yet: wait, or cancel the start when the session is over.
RestartAwait ==
    /\ sup.pc = "rstarting" /\ unit.inv = 0
    /\ \/ sup.res = "keep" /\ SupGoto("exec") /\ UNCHANGED unit
       \/ sup.res = "finish" /\ Gone /\ SupGoto("stopping") /\ UNCHANGED unit
       \/ sup.res = "finish" /\ ~Gone /\ SupGoto("rfinish") /\ unit' = [unit EXCEPT !.st = "stopping"]
    /\ UNCHANGED <<starts, auth, idled, dirty, workVars, holdVars, svc, jobs, sess, oplock, acts, faults>>

\* A process: a new generation, and no other than the one seen before.
RestartTarget ==
    /\ sup.pc = "rstarting" /\ unit.inv # 0 /\ Holds("sup")
    /\ \/ svc.phase = "none" /\ SupGoto("failed") /\ UNCHANGED svc
       \/ /\ svc.phase # "none" /\ svc' = [svc EXCEPT !.target = unit.inv]
          /\ \E pc \in IF sup.res = "finish" THEN {"rstop"} ELSE {"exec", "ropen"} :
                IF pc = "exec" THEN SupGoto(pc) ELSE GotoWith("sup", pc, [sup.snap EXCEPT !.inv = unit.inv])
    /\ UNCHANGED <<backendVars, jobs, sess, oplock, acts, faults>>

RestartFinish ==
    /\ sup.pc \in {"rfinish", "rstop"}
    /\ Phase("finishing", IF sup.pc = "rstop" THEN "stopreq" ELSE "exec")
    /\ UNCHANGED <<backendVars, jobs, sess, oplock, acts, faults>>

RestartOpen ==
    /\ sup.pc = "ropen" /\ Holds("sup")
    /\ Authorise(sup.snap)
    /\ \/ /\ idled # unit.act /\ svc.phase # "none"
          /\ svc' = [svc EXCEPT !.inv = sup.snap.inv, !.phase = "completed", !.state = "ready"]
          /\ SupGoto("exec")
       \/ UNCHANGED svc /\ SupGoto("failed")
    /\ UNCHANGED <<unit, starts, idled, dirty, workVars, holdVars, jobs, sess, oplock, acts, faults>>

-----------------------------------------------------------------------------
(* Jobs: one at a time, and one request per round. *)

WithJob(pc, j) == at' = [at EXCEPT !["sup"] = [@ EXCEPT !.pc = pc, !.job = j]]
SetJob(j, job) == jobs' = [jobs EXCEPT ![j] = job]
Result(pc, r) == at' = [at EXCEPT !["sup"] = [@ EXCEPT !.pc = pc, !.res = r]]

Exec ==
    /\ sup.pc = "exec"
    /\ \/ /\ svc.state # "ready" \/ svc.mode # "managed" \/ ~Busy
          /\ SupGoto("end")
       \/ /\ svc.state = "ready" /\ svc.mode = "managed"
          /\ \E j \in Job :
                \/ /\ jobs[j].cleanup
                   /\ WithJob(IF jobs[j].act # svc.act THEN "failed"
                              ELSE IF jobs[j].cancel \/ jobs[j].late THEN "cancel" ELSE "poll", j)
                \/ (\A k \in Job : ~jobs[k].cleanup) /\ Pending(j) /\ WithJob("prepare", j)
    /\ UNCHANGED <<backendVars, svc, jobs, sess, oplock, acts, faults>>

\* Mutation of Prepare: the intent to dispatch is not recorded.
PrepareLost ==
    /\ sup.pc = "prepare"
    /\ LET j == sup.job IN
       IF jobs[j].cancel \/ Terminal(j) THEN UNCHANGED jobs /\ SupGoto("end")
       ELSE SetJob(j, [jobs[j] EXCEPT !.st = "dispatching", !.act = svc.act]) /\ SupGoto("submit")
    /\ UNCHANGED <<backendVars, svc, sess, oplock, acts, faults>>

\* The intent is durable before the request: from here on the job is never
\* submitted again. A checkpoint that does not verify fails the job.
Prepare ==
    /\ sup.pc = "prepare"
    /\ LET j == sup.job IN
       \/ (jobs[j].cancel \/ Terminal(j)) /\ UNCHANGED jobs /\ SupGoto("end")
       \/ ~Terminal(j) /\ SetJob(j, [jobs[j] EXCEPT !.st = "failed"]) /\ SupGoto("end")
       \/ /\ ~jobs[j].cancel /\ ~Terminal(j) /\ ~jobs[j].late
          /\ SetJob(j, [jobs[j] EXCEPT !.st = "dispatching", !.cleanup = TRUE, !.act = svc.act])
          /\ SupGoto("submit")
    /\ UNCHANGED <<backendVars, svc, sess, oplock, acts, faults>>

Submit ==
    /\ sup.pc = "submit" /\ Holds("sup")
    /\ SupGoto("post")
    /\ UNCHANGED <<backendVars, svc, jobs, sess, oplock, acts, faults>>

\* The gate enqueues under its barrier or refuses; the answer may be lost.
PostJob ==
    /\ sup.pc = "post"
    /\ \/ /\ Answers /\ GateMode = "managed"
          /\ Post(sup.job) /\ \E r \in {"ok", "error"} : Result("acked", r)
       \/ Result("acked", "error") /\ UNCHANGED <<queue, posts>>
    /\ UNCHANGED <<unit, starts, auth, idled, dirty, native, hist, holdVars, svc, jobs, sess, oplock, acts, faults>>

Acked ==
    /\ sup.pc = "acked"
    /\ SetJob(sup.job, [jobs[sup.job] EXCEPT
          !.st = IF jobs[sup.job].cancel THEN @ ELSE IF sup.res = "ok" THEN "running" ELSE "uncertain"])
    /\ SupGoto("end")
    /\ UNCHANGED <<backendVars, svc, sess, oplock, acts, faults>>

\* artifacts::collect: the image is copied and checked, or the job failed.
Collected == {"completed", "failed"}

\* Queue and history of the backend: still there, done, or not known.
Poll ==
    /\ sup.pc = "poll"
    /\ \/ Answers /\ sup.job \in queue /\ SupGoto("end")
       \/ Answers /\ sup.job \in hist \ queue /\ \E r \in Collected : Result("publish", r)
       \/ Answers /\ sup.job \notin queue \cup hist /\ Result("publish", "interrupted")
       \/ ~Answers /\ SupGoto("failed")
    /\ UNCHANGED <<backendVars, svc, jobs, sess, oplock, acts, faults>>

\* Mutation of Publish: a cancellation is overwritten by the result.
PublishAnyway ==
    /\ sup.pc = "publish"
    /\ SetJob(sup.job, [jobs[sup.job] EXCEPT !.cleanup = FALSE, !.st = sup.res])
    /\ SupGoto("end")
    /\ UNCHANGED <<backendVars, svc, sess, oplock, acts, faults>>

Publish ==
    /\ sup.pc = "publish"
    /\ SetJob(sup.job, [jobs[sup.job] EXCEPT
          !.cleanup = FALSE, !.st = IF jobs[sup.job].cancel THEN @ ELSE sup.res])
    /\ SupGoto("end")
    /\ UNCHANGED <<backendVars, svc, sess, oplock, acts, faults>>

Cancellation ==
    /\ sup.pc = "cancel"
    /\ SetJob(sup.job, [jobs[sup.job] EXCEPT !.st = IF jobs[sup.job].cancel THEN @ ELSE "failed"])
    /\ SupGoto("cancelling")
    /\ UNCHANGED <<backendVars, svc, sess, oplock, acts, faults>>

\* The gate admits the cancellation only in managed mode; the backend takes
\* the job out at once or later.
CancelPosted ==
    /\ sup.pc = "cancelling"
    /\ \/ /\ Answers /\ GateMode = "managed"
          /\ queue' \in {queue, queue \ {sup.job}}
          /\ SupGoto(IF sup.job \in queue' THEN "end" ELSE "cleaned")
       \/ UNCHANGED queue /\ SupGoto("failed")
    /\ UNCHANGED <<unit, starts, auth, idled, dirty, native, hist, posts, holdVars, svc, jobs, sess, oplock, acts, faults>>

Cleaned ==
    /\ sup.pc = "cleaned"
    /\ SetJob(sup.job, [jobs[sup.job] EXCEPT !.cleanup = FALSE]) /\ SupGoto("end")
    /\ UNCHANGED <<backendVars, svc, sess, oplock, acts, faults>>

EndRound ==
    /\ sup.pc = "end" /\ SupGoto("sweep") /\ Unlocked
    /\ UNCHANGED <<backendVars, svc, jobs, sess, acts, faults>>

-----------------------------------------------------------------------------
(* The receiver restarts. *)

\* Also the end of a supervisor that waited too long for the lock. A native
\* request that was not forwarded is lost.
Crash ==
    /\ Fault
    /\ SupGoto("recover") /\ Unlocked
    /\ native' = IF native = "sent" THEN "none" ELSE native
    /\ UNCHANGED <<unit, starts, auth, idled, dirty, queue, hist, posts, holdVars, svc, jobs, sess, acts>>

\* Nothing recorded as running: the unit must not be there.
RecoverStopped ==
    /\ sup.pc = "recover" /\ svc.state \in {"stopped", "waiting"}
    /\ SupGoto(IF Gone THEN "sweep" ELSE "failed")
    /\ UNCHANGED <<backendVars, svc, jobs, sess, oplock, acts, faults>>

\* The gate is closed; what is gone is released, what is verified resumes, an
\* unknown ownership is kept for an operator.
RecoverActive ==
    /\ sup.pc = "recover" /\ svc.state \notin {"stopped", "waiting"}
    /\ Close(svc)
    /\ \/ /\ svc.state = "restarting"
          /\ SupGoto(IF Verified(svc.lease) /\ svc.mode = "interactive" /\ svc.phase # "none"
                     THEN "sweep" ELSE "failed")
          /\ UNCHANGED <<dirty, holdVars>>
       \/ /\ svc.state # "restarting" /\ Gone /\ svc.lease # NoAct /\ dirty' = FALSE
          /\ IF Releasable(svc.lease) THEN Release(svc.lease) /\ SupGoto("recovered")
                                      ELSE UNCHANGED holdVars /\ SupGoto("failed")
       \/ /\ svc.state # "restarting" /\ ~(Gone /\ svc.lease # NoAct)
          /\ SupGoto(IF \/ svc.state = "ready" /\ Verify(svc)
                        \/ svc.state \in {"draining", "stopping", "starting"}
                     THEN "sweep" ELSE "failed")
          /\ UNCHANGED <<dirty, holdVars>>
    /\ UNCHANGED <<unit, starts, idled, workVars, svc, jobs, sess, oplock, acts, faults>>

Recovered ==
    /\ sup.pc = "recovered"
    /\ svc' = NoService
    /\ jobs' = [j \in Job |-> IF jobs[j].cleanup THEN Interrupted(j) ELSE jobs[j]]
    /\ sess' = [s \in Session |-> [sess[s] EXCEPT !.stopped = @ \/ sess[s].rel]]
    /\ SupGoto("sweep")
    /\ UNCHANGED <<backendVars, oplock, acts, faults>>

-----------------------------------------------------------------------------
(* The HTTP interface, open once recovery is over, and the passing of time. *)

Serving == sup.pc \notin {"recover", "recovered"}

\* A job is bound to a managed reservation exactly when one is active; a bound
\* job is admitted by the gate as activity of the reservation.
SubmitJob(j) ==
    /\ Serving /\ jobs[j].st = "absent"
    /\ \/ ~Managed(svc.lease) /\ SetJob(j, [NoJob EXCEPT !.st = "waiting"])
       \/ /\ Managed(svc.lease) /\ grant.st = "ready" /\ svc.mode = "managed"
          /\ Answers /\ GateMode = "managed" /\ unit.act = svc.lease
          /\ SetJob(j, [NoJob EXCEPT !.st = "waiting", !.bind = svc.lease])
    /\ UNCHANGED <<backendVars, svc, sess, at, oplock, acts, faults>>

CancelJob(j) ==
    /\ Serving /\ jobs[j].st \notin {"absent", "completed"}
    /\ SetJob(j, [jobs[j] EXCEPT !.cancel = TRUE, !.st = "cancelled"])
    /\ UNCHANGED <<backendVars, svc, sess, at, oplock, acts, faults>>

\* An operator has one session that is not stopped.
SubmitSession(s) ==
    /\ Serving /\ sess[s].st = "absent"
    /\ \A t \in Session : sess[t].st = "open" => sess[t].stopped
    /\ sess' = [sess EXCEPT ![s] = [NoOne EXCEPT !.st = "open"]]
    /\ UNCHANGED <<backendVars, svc, jobs, at, oplock, acts, faults>>

\* Mutation of ReleaseSession: Finish does not wait for the lifecycle lock.
ReleaseUnlocked(s) ==
    /\ Serving /\ sess[s].st = "open" /\ ~sess[s].rel
    /\ sess' = [sess EXCEPT ![s].rel = TRUE, ![s].stopped = @ \/ svc.session # s]
    /\ svc' = IF svc.session = s /\ svc.state = "ready" THEN [svc EXCEPT !.state = "draining"] ELSE svc
    /\ UNCHANGED <<backendVars, jobs, at, oplock, acts, faults>>

ReleaseSession(s) ==
    /\ Serving /\ sess[s].st = "open" /\ ~sess[s].rel /\ oplock = "free"
    /\ sess' = [sess EXCEPT ![s].rel = TRUE, ![s].stopped = @ \/ svc.session # s]
    /\ svc' = IF svc.session = s /\ svc.state = "ready" THEN [svc EXCEPT !.state = "draining"] ELSE svc
    /\ UNCHANGED <<backendVars, jobs, at, oplock, acts, faults>>

RequestRestart ==
    /\ Serving /\ oplock = "free"
    /\ svc.mode = "interactive" /\ svc.session # NoSession /\ Open(svc.session)
    /\ svc.state = "ready" /\ Verify(svc)
    /\ svc' = [svc EXCEPT !.state = "restarting", !.phase = "draining", !.prev = unit.inv, !.target = 0]
    /\ UNCHANGED <<backendVars, jobs, sess, at, oplock, acts, faults>>

\* The receiver lets a native request through; it reaches the gate later, when
\* the state it was judged by may be past.
NativeSubmit ==
    /\ Serving /\ native = "none"
    /\ svc.state = "ready" /\ svc.mode = "interactive" /\ svc.session # NoSession /\ Open(svc.session)
    /\ Verify(svc) /\ Admitted(svc.lease)
    /\ native' = "sent"
    /\ UNCHANGED <<unit, starts, auth, idled, dirty, queue, hist, posts, holdVars, serviceVars>>

NativeForward ==
    /\ native = "sent" /\ native' = IF Answers THEN "wire" ELSE "none"
    /\ UNCHANGED <<unit, starts, auth, idled, dirty, queue, hist, posts, holdVars, serviceVars>>

NativeArrives ==
    /\ native = "wire"
    /\ native' = IF Answers /\ GateMode = "interactive" THEN "queued" ELSE "none"
    /\ UNCHANGED <<unit, starts, auth, idled, dirty, queue, hist, posts, holdVars, serviceVars>>

Deadline ==
    /\ \/ \E j \in Job : Pending(j) /\ ~jobs[j].late /\ jobs' = [jobs EXCEPT ![j].late = TRUE] /\ UNCHANGED sess
       \/ \E s \in Session : Open(s) /\ ~sess[s].over /\ sess' = [sess EXCEPT ![s].over = TRUE] /\ UNCHANGED jobs
    /\ Fault
    /\ UNCHANGED <<backendVars, svc, at, oplock, acts>>

-----------------------------------------------------------------------------
Lifecycle(p) ==
    \/ Observe(p) \/ Adopt(p) \/ StartupVerify(p) \/ OpenGate(p)
    \/ Drain(p) \/ Halt(p) \/ StopRequest(p) \/ Stopping(p) \/ Reset(p)
    \/ Start(p) \/ ProbeFails(p)
Supervise ==
    \/ Lifecycle("sup") \/ Sweep \/ Tick \/ Quarantine \/ EndRound
    \/ BeginProbe \/ Create \/ Acquire \/ Persist \/ Ready \/ Idle \/ IdleSaved \/ Finish
    \/ Restart \/ RestartDrain \/ RestartHalt \/ RestartObserve \/ RestartPending \/ RestartStart
    \/ RestartAwait \/ RestartTarget \/ RestartFinish \/ RestartOpen
    \/ Exec \/ Prepare \/ Submit \/ PostJob \/ Acked \/ Poll \/ Publish
    \/ Cancellation \/ CancelPosted \/ Cleaned
    \/ RecoverStopped \/ RecoverActive \/ Recovered
Serve ==
    \/ \E j \in Job : SubmitJob(j) \/ CancelJob(j)
    \/ \E s \in Session : SubmitSession(s) \/ ReleaseSession(s)
    \/ RequestRestart \/ NativeSubmit \/ NativeForward \/ NativeArrives
Surroundings ==
    /\ UnitStarts \/ UnitEnds \/ AuthorityExpires \/ Render \/ OtherHolds
    /\ UNCHANGED serviceVars

ServiceInit ==
    /\ svc = NoService
    /\ jobs = [j \in Job |-> NoJob] /\ sess = [s \in Session |-> NoOne]
    /\ at = [p \in Proc |-> [Start0 EXCEPT !.pc = IF p = "sup" THEN "recover" ELSE "sleep"]]
    /\ oplock = "free" /\ acts = 0 /\ faults = 0
=============================================================================
