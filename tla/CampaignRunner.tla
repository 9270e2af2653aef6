---------------------------- MODULE CampaignRunner ----------------------------
(* One campaign of crates/rack_ai_application/src/campaign_runner.rs: its      *)
(* state file, which operators, the supervisor and the runners all write, the  *)
(* runners' private copies of it, its worktree, and the runners' control from  *)
(* loading the state to clearing the lease.                                    *)
(*                                                                             *)
(* A runner's save merges its copy into the file under control.lock and does   *)
(* not read the result back: between two checkpoints the copy is stale.  Each  *)
(* action here ends with at most one write of the file.                        *)
EXTENDS CampaignLease, Integers, Sequences, FiniteSets, FiniteSetsExt

\* The processes that may run the campaign; the supervisor is one of them.
Runners == Procs

CONSTANTS Subject,        \* the campaign
          Plan,           \* its steps, in order
          Revision,       \* a step an operator may append
          Verification,   \* the steps of kind verification
          PrimaryAttempts, RepairAttempts, FallbackAttempts,
          MaxAttempts,    \* max_total_attempts
          MaxRetries,     \* bounded waits inside one request
          MaxFaults,      \* deaths of processes
          Supervising,    \* the processes of the supervisor, which only resume
          MaxCalls        \* commands and scans that act on the campaign

\* A revision step is none of the plan's: revise refuses an id that exists.
ASSUME CampaignAssumption ==
    /\ Subject \in Campaigns
    /\ Supervising \subseteq Procs
    /\ Plan \in Seq({Plan[i] : i \in DOMAIN Plan})
    /\ Revision \notin {Plan[i] : i \in DOMAIN Plan}
    /\ None \notin {Plan[i] : i \in DOMAIN Plan} \cup {Revision}
    /\ {PrimaryAttempts, RepairAttempts, FallbackAttempts, MaxAttempts} \subseteq Nat

VARIABLES disk,           \* state.json
          revised,        \* revisions.jsonl has the revision's line
          log,            \* steps whose commits are on the campaign's branch
          dirty,          \* the worktree has uncommitted changes
          box,            \* process whose container active-container.json names
          expired,        \* max_runtime_seconds have passed
          mem,            \* runner -> its copy of the state
          run,            \* runner -> where it is and what it remembers
          faults,
          calls           \* commands and scans so far

campaignVars == <<disk, revised, log, dirty, box, expired, mem, run, faults, calls>>
vars == <<leaseVars, campaignVars>>

Steps == {Plan[i] : i \in DOMAIN Plan} \cup {Revision}

CampaignStates ==
    {"Running", "Paused", "Blocked", "Completed", "Cancelled", "Expired", "Absent"}

\* The persisted state.  busy stands for current_action being one recovery may
\* reset after (model_request, repair, fallback, git_inspect,
\* acceptance_command); head is the number of commits current_head_sha covers.
CampaignStatus ==
    [state : CampaignStates, pause : BOOLEAN, cancel : BOOLEAN, busy : BOOLEAN,
     cur : Steps \cup {None}, attempt : 0..MaxAttempts, head : 0..MaxAttempts,
     steps : [Steps -> {"absent", "pending", "rejected", "blocked", "accepted"}],
     tries : [Steps -> 0..MaxAttempts]]

RunnerPlaces ==
    {"idle", "marking", "loaded", "leasing", "leased", "recover", "health", "triage", "steps", "attempt",
     "choose", "model", "wait", "returned", "accept", "review", "judge",
     "commit", "committing", "record", "mark", "verify", "settle", "release", "clear"}

Budget == [primary |-> PrimaryAttempts, repair |-> RepairAttempts,
           fallback |-> FallbackAttempts]

NoRun == [at |-> "idle", resume |-> FALSE, todo |-> <<>>, left |-> Budget,
          reviewed |-> FALSE, prefer |-> FALSE, verdict |-> "none",
          waits |-> 0, failed |-> FALSE]

Pending(s) == s \in {Plan[i] : i \in DOMAIN Plan}

NoCampaign ==
    [state |-> "Absent", pause |-> FALSE, cancel |-> FALSE, busy |-> FALSE,
     cur |-> None, attempt |-> 0, head |-> 0,
     steps |-> [s \in Steps |-> "absent"], tries |-> [s \in Steps |-> 0]]

CampaignTypeOK ==
    /\ LeaseTypeOK
    /\ disk \in CampaignStatus
    /\ log \in Seq(Steps)
    /\ {revised, dirty, expired} \subseteq BOOLEAN
    /\ box \in Runners \cup {None}
    /\ \A p \in Runners : mem[p] \in CampaignStatus /\ run[p].at \in RunnerPlaces
    /\ faults \in 0..MaxFaults
    /\ calls \in 0..MaxCalls

Init ==
    /\ LeaseInit
    /\ disk = NoCampaign
    /\ revised = FALSE
    /\ log = <<>>
    /\ dirty = FALSE
    /\ box = None
    /\ expired = FALSE
    /\ mem = [p \in Runners |-> NoCampaign]
    /\ run = [p \in Runners |-> NoRun]
    /\ faults = 0
    /\ calls = 0

-----------------------------------------------------------------------------
(* Saving *)

\* Mutants: a save that keeps the operator's request and not what it did to
\* the state; a save that knows no steps but the runner's.
MergeState(m, d, resumed) ==
    IF d.state = "Absent" THEN m
    ELSE [m EXCEPT
            !.cancel = m.cancel \/ d.cancel,
            !.pause  = ~resumed /\ (m.pause \/ d.pause),
            !.steps  = [s \in Steps |-> IF m.steps[s] = "absent" THEN d.steps[s]
                                        ELSE m.steps[s]]]

\* merge_runner_state_unlocked: the operator's requests and the appended steps
\* of the file survive, everything else comes from the runner.
Merge(m, d, resumed) ==
    IF d.state = "Absent" THEN m
    ELSE [m EXCEPT
            !.cancel = m.cancel \/ d.cancel,
            !.pause  = ~resumed /\ (m.pause \/ d.pause),
            !.steps  = [s \in Steps |-> IF m.steps[s] = "absent" THEN d.steps[s]
                                        ELSE m.steps[s]],
            !.tries  = [s \in Steps |-> IF m.steps[s] = "absent" THEN d.tries[s]
                                        ELSE m.tries[s]],
            !.state  = IF d.cancel THEN "Cancelled" ELSE m.state]

\* A run that ends forgets what only its steps need.
Place(p, l) ==
    run' = [run EXCEPT ![p] = IF l = "release" THEN [NoRun EXCEPT !.at = l]
                              ELSE [run[p] EXCEPT !.at = l]]

Fail(p) == run' = [run EXCEPT ![p] = [NoRun EXCEPT !.at = "release", !.failed = TRUE]]

\* save_state, then on to place l.
Save(p, m) ==
    /\ disk' = Merge(m, disk, FALSE)
    /\ mem' = [mem EXCEPT ![p] = m]

\* block: the campaign waits for an operator.
Blocked(m) == [m EXCEPT !.state = "Blocked", !.busy = FALSE]

BlockAnd(p, l) ==
    Save(p, Blocked(mem[p])) /\ Place(p, l)

\* What a checkpoint reads of the file, and whether it stops the runner.
Refreshed(p) == [mem[p] EXCEPT !.pause = disk.pause, !.cancel = disk.cancel]

Halting(m) == m.cancel \/ expired \/ m.pause

\* finish, or the pause of a checkpoint.
Halted(m) == [m EXCEPT !.state = IF m.cancel THEN "Cancelled"
                                 ELSE IF expired THEN "Expired" ELSE "Paused",
                       !.busy = @ /\ (m.cancel \/ expired)]

Total(tries) == MapThenSumSet(LAMBDA s : tries[s], Steps)

TotalAttempts(m) == Total(m.tries)

\* Mutant: the reviewer's verdict already accepts the step.
AttemptedAccepts(m, s, verdict) ==
    [m EXCEPT !.tries[s] = @ + 1,
              !.steps[s] = CASE verdict = "Accepted"  -> "accepted"
                             [] verdict = "Terminal"  -> "blocked"
                             [] verdict = "Retryable" -> "rejected"]

\* persist_attempt: one more attempt of the step; a rejection marks it.
Attempted(m, s, verdict) ==
    [m EXCEPT !.tries[s] = @ + 1,
              !.steps[s] = CASE verdict = "Accepted"  -> @
                             [] verdict = "Terminal"  -> "blocked"
                             [] verdict = "Retryable" -> "rejected"]

\* Mutant: a wait that does not count.
WaitForEver(p, l) == run' = [run EXCEPT ![p].at = "wait", ![p].verdict = l]

\* A bounded wait, after which the runner is back at l.
WaitFor(p, l) ==
    run' = [run EXCEPT ![p].at = "wait", ![p].verdict = l, ![p].waits = @ + 1]

Step(p) == Head(run[p].todo)

WorktreeKept == UNCHANGED <<revised, log, dirty, expired>>
Quiet == WorktreeKept /\ UNCHANGED <<box, faults, calls>>

Called == calls < MaxCalls /\ calls' = calls + 1

-----------------------------------------------------------------------------
(* Operators and the supervisor *)

\* The state of a campaign that just started.
Started ==
    [NoCampaign EXCEPT
       !.state = "Running",
       !.steps = [s \in Steps |-> IF Pending(s) THEN "pending" ELSE "absent"]]

\* start: a worktree at the base commit and a running state file.
Start ==
    /\ disk.state = "Absent" /\ ~expired
    /\ disk' = Started
    /\ UNCHANGED <<leaseVars, mem, run>> /\ Quiet

Pause ==
    /\ disk.state # "Absent"
    /\ disk' = [disk EXCEPT !.pause = TRUE]
    /\ Called
    /\ UNCHANGED <<leaseVars, mem, run, box, faults>> /\ WorktreeKept

Cancel ==
    /\ disk.state # "Absent"
    /\ disk' = [disk EXCEPT
                  !.cancel = TRUE, !.pause = FALSE,
                  !.state = IF @ \in {"Completed", "Cancelled", "Expired"}
                               THEN @ ELSE "Cancelled"]
    /\ Called
    /\ UNCHANGED <<leaseVars, mem, run, box, faults>> /\ WorktreeKept

\* revise appends the line, then saves the state; the process may die between
\* the two.
Revise(torn) ==
    /\ disk.state \in {"Paused", "Blocked"}
    /\ disk.steps[Revision] = "absent"
    /\ torn => faults < MaxFaults
    /\ Called
    /\ revised' = TRUE
    /\ disk' = IF torn THEN disk ELSE [disk EXCEPT !.steps[Revision] = "pending"]
    /\ faults' = IF torn THEN faults + 1 ELSE faults
    /\ UNCHANGED <<leaseVars, mem, run, log, dirty, box, expired>>

Expire ==
    /\ disk.state # "Absent" /\ ~expired
    /\ Called
    /\ expired' = TRUE
    /\ UNCHANGED <<leaseVars, disk, revised, log, dirty, box, mem, run, faults>>

\* The supervisor removes the container the file names before it resumes a
\* running campaign, without asking whose it is.
CleanupContainer ==
    /\ disk.state = "Running"
    /\ box # None
    /\ Called
    /\ box' = None
    /\ WorktreeKept /\ UNCHANGED <<leaseVars, disk, mem, run, faults>>

\* prune_campaign: an hour or more after the campaign ended (the smallest
\* retention the configuration admits), its files and its worktree go.
Prune ==
    /\ disk.state \in {"Completed", "Cancelled", "Expired"}
    /\ \A p \in Runners : Active(p) => run[p].at = "idle"
    /\ ReleaseFiles(Subject)
    /\ disk' = NoCampaign
    /\ revised' = FALSE /\ log' = <<>> /\ dirty' = FALSE /\ box' = None
    /\ Called
    /\ expired' = TRUE
    /\ UNCHANGED <<alive, silent, lapsed, job, mem, run, faults>>

-----------------------------------------------------------------------------
(* A runner, from load to the first step *)

At(p, l) == Active(p) /\ run[p].at = l

\* run and resume load the state before the lease is asked for.
Load(p, resume) ==
    /\ At(p, "idle")
    /\ disk.state # "Absent"
    /\ resume => disk.state \in {"Paused", "Blocked", "Running"}
    /\ mem' = [mem EXCEPT ![p] = disk]
    /\ run' = [run EXCEPT ![p] = [NoRun EXCEPT !.at = "loaded", !.resume = resume]]
    /\ Called
    /\ UNCHANGED <<leaseVars, disk, box, faults>> /\ WorktreeKept

\* Without a lease, the supervisor that cannot remove a container and a start
\* that cannot detach its runner load the state and save it as blocked.
MarkLoad(p) ==
    /\ At(p, "idle")
    /\ disk.state # "Absent"
    /\ p \in Supervising => disk.state = "Running" /\ box # None
    /\ mem' = [mem EXCEPT ![p] = disk]
    /\ run' = [run EXCEPT ![p].at = "marking"]
    /\ Called
    /\ UNCHANGED <<leaseVars, disk, box, faults>> /\ WorktreeKept

MarkBlocked(p) ==
    /\ At(p, "marking")
    /\ BlockAnd(p, "idle")
    /\ UNCHANGED leaseVars /\ Quiet

Refused(p) ==
    /\ At(p, "loaded")
    /\ Unlocked
    /\ ~Takeable(p, Subject)
    /\ Place(p, "idle")
    /\ UNCHANGED <<leaseVars, disk, mem>> /\ Quiet

Lease(p) ==
    /\ \/ At(p, "loaded") /\ AcquireCampaign(p, Subject) /\ Place(p, "leasing")
       \/ At(p, "leasing") /\ AcquireRepository(p) /\ Place(p, "leased")
    /\ UNCHANGED <<disk, mem>> /\ Quiet

\* The first save under the lease writes the copy loaded before it.
SaveLeased(p) ==
    /\ At(p, "leased")
    /\ LET m == [mem[p] EXCEPT !.pause = @ /\ ~run[p].resume] IN
         /\ disk' = Merge(m, disk, run[p].resume)
         /\ mem' = [mem EXCEPT ![p] = m]
    /\ Place(p, "recover")
    /\ UNCHANGED leaseVars /\ Quiet

\* can_reset_interrupted_worktree, without the path checks.  The attempt of the
\* whole campaign is compared with the attempts of the step.
CanReset(m) ==
    /\ m.state = "Running" /\ m.busy
    /\ m.cur # None /\ m.steps[m.cur] \notin {"absent", "accepted"}
    /\ m.attempt > m.tries[m.cur]

\* recover: HEAD, then the worktree, then the time left.  A revision's step is
\* not in the campaign document, so recovery fails on its changes.
Recover(p) ==
    /\ At(p, "recover")
    /\ LET m == mem[p] IN
         \/ /\ m.head # Len(log) \/ (dirty /\ ~CanReset(m))
            /\ BlockAnd(p, "triage") /\ dirty' = dirty
         \/ /\ m.head = Len(log) /\ dirty /\ CanReset(m) /\ ~Pending(m.cur)
            /\ Fail(p)
            /\ UNCHANGED <<disk, mem, dirty>>
         \/ /\ m.head = Len(log) /\ (dirty => CanReset(m) /\ Pending(m.cur))
            /\ dirty' = FALSE
            /\ IF expired
                  THEN Save(p, [m EXCEPT !.state = "Expired"]) /\ Place(p, "triage")
                  ELSE Place(p, "health") /\ UNCHANGED <<disk, mem>>
    /\ UNCHANGED <<leaseVars, revised, log, box, expired, faults, calls>>

\* LiveHealth: the executor, the worker's registry entry and its endpoint.
Healthy(p) == Place(p, "triage") /\ UNCHANGED <<disk, mem>>

\* The checks, with bounded waits for the worker's endpoint.
Health(p) ==
    /\ At(p, "health")
    /\ \/ Healthy(p)
       \/ BlockAnd(p, "triage")
       \/ /\ run[p].waits < MaxRetries
          /\ Save(p, [mem[p] EXCEPT !.busy = FALSE])
          /\ WaitFor(p, "health")
    /\ UNCHANGED leaseVars /\ Quiet

\* recovery_checkpoint after a bounded wait for a worker; a stop found while a
\* review waits is reported as a failed review.
Wait(p) ==
    /\ At(p, "wait")
    /\ LET m == Refreshed(p) IN
         IF Halting(m)
            THEN /\ Save(p, Halted(m))
                 /\ run' = [run EXCEPT
                      ![p].at = CASE run[p].verdict = "health" -> "triage"
                                  [] run[p].verdict = "model"   -> "release"
                                  [] run[p].verdict = "review"  -> "judge",
                      ![p].verdict = "Terminal"]
            ELSE /\ Save(p, IF run[p].verdict = "model" THEN [m EXCEPT !.busy = TRUE] ELSE m)
                 /\ run' = [run EXCEPT ![p].at = run[p].verdict, ![p].verdict = "none"]
    /\ Heartbeat(p) /\ Quiet

EffectiveSteps == Plan \o (IF revised THEN <<Revision>> ELSE <<>>)

\* run_with_lease after recover: a resumed runner goes on although recovery has
\* just blocked the campaign.
Triage(p) ==
    /\ At(p, "triage")
    /\ LET m == mem[p]
           running == [m EXCEPT !.state = "Running"] IN
         \/ /\ \/ m.state \in {"Completed", "Cancelled", "Expired"}
               \/ m.state = "Blocked" /\ ~run[p].resume
            /\ Place(p, "release") /\ UNCHANGED <<disk, mem>>
         \/ /\ m.state \in {"Running", "Paused"} \/ (m.state = "Blocked" /\ run[p].resume)
            /\ IF m.cancel \/ m.pause
                  THEN /\ Save(p, [m EXCEPT !.state = IF m.cancel THEN "Cancelled" ELSE "Paused"])
                       /\ Place(p, "release")
                  ELSE \/ BlockAnd(p, "release")
                       \/ /\ Save(p, running)
                          /\ run' = [run EXCEPT ![p].at = "steps", ![p].todo = EffectiveSteps]
    /\ Heartbeat(p) /\ Quiet

-----------------------------------------------------------------------------
(* The steps *)

\* The loop over the effective steps.  A step of revisions.jsonl that the state
\* does not have ends the run with an error.
NextStep(p) ==
    /\ At(p, "steps")
    /\ LET m == Refreshed(p)
           todo == run[p].todo IN
         \/ /\ todo = <<>>
            /\ Save(p, [mem[p] EXCEPT !.state = "Completed", !.cur = None, !.busy = FALSE])
            /\ Place(p, "release")
         \/ /\ todo # <<>> /\ mem[p].steps[Head(todo)] = "absent"
            /\ Fail(p)
            /\ UNCHANGED <<disk, mem>>
         \/ /\ todo # <<>> /\ mem[p].steps[Head(todo)] = "accepted"
            /\ run' = [run EXCEPT ![p].todo = Tail(todo)]
            /\ UNCHANGED <<disk, mem>>
         \/ /\ todo # <<>> /\ mem[p].steps[Head(todo)] \in {"pending", "rejected", "blocked"}
            /\ IF Halting(m)
                  THEN Save(p, [Halted(m) EXCEPT !.cur = Head(todo)]) /\ Place(p, "release")
                  ELSE /\ Save(p, [m EXCEPT !.cur = Head(todo), !.busy = FALSE])
                       /\ run' = [run EXCEPT ![p].at = "attempt", ![p].left = Budget,
                                             ![p].reviewed = FALSE, ![p].prefer = FALSE]
    /\ Heartbeat(p) /\ Quiet

\* The checkpoint at the head of an attempt, and the total budget.
Attempt(p) ==
    /\ At(p, "attempt")
    /\ LET m == Refreshed(p) IN
         IF Halting(m) THEN Save(p, Halted(m)) /\ Place(p, "release")
         ELSE IF TotalAttempts(m) >= MaxAttempts
                 THEN Save(p, Blocked(m)) /\ Place(p, "release")
         ELSE Save(p, m) /\ Place(p, IF Step(p) \in Verification THEN "verify" ELSE "choose")
    /\ Heartbeat(p) /\ Quiet

\* Which worker tries next: the primary first, then what recovery prefers, then
\* repairs, then the fallback.
WorkerKind(p) ==
    LET left == run[p].left IN
    IF ~run[p].reviewed /\ left.primary > 0 THEN "primary"
    ELSE IF run[p].prefer /\ left.fallback > 0 THEN "fallback"
    ELSE IF left.repair > 0 THEN "repair"
    ELSE IF left.fallback > 0 THEN "fallback" ELSE "none"

\* The container a request runs in is recorded, and forgotten at its end.
ContainerStarted(p) == box' = p

ContainerFinished == box' = None

Choose(p) ==
    /\ At(p, "choose")
    /\ LET kind == WorkerKind(p) IN
         IF kind = "none" THEN BlockAnd(p, "release") /\ box' = box
         ELSE /\ Save(p, [mem[p] EXCEPT !.attempt = TotalAttempts(mem[p]) + 1, !.busy = TRUE])
              /\ run' = [run EXCEPT ![p].at = "model", ![p].left[kind] = @ - 1, ![p].waits = 0,
                                    ![p].prefer = @ /\ kind = "primary"]
              /\ ContainerStarted(p)
    /\ Heartbeat(p) /\ WorktreeKept /\ UNCHANGED <<faults, calls>>

\* The worker's container edits the worktree, also after its runner died.
WorkerWrites ==
    /\ box # None
    /\ dirty' = TRUE
    /\ UNCHANGED <<leaseVars, disk, mem, run, revised, log, expired, box, faults, calls>>

\* A thread of the runner writes the step and the action of a long request into
\* the file as long as the campaign is running there.
BeatState(p) ==
    /\ At(p, "model")
    /\ disk.state = "Running"
    /\ disk' = [disk EXCEPT !.cur = Step(p), !.busy = TRUE]
    /\ UNCHANGED <<leaseVars, mem, run>> /\ Quiet

\* The request returns, or fails on transport: bounded waits, then blocked.  A
\* container the supervisor removed makes it an executor failure.
ModelReturns(p) ==
    /\ At(p, "model")
    /\ ContainerFinished
    /\ \/ /\ run' = [run EXCEPT ![p].at = "returned",
                                ![p].verdict = IF box = p THEN "none" ELSE "Terminal"]
          /\ UNCHANGED <<disk, mem>>
       \/ IF run[p].waits < MaxRetries
             THEN /\ Save(p, [mem[p] EXCEPT !.busy = FALSE])
                  /\ WaitFor(p, "model")
             ELSE BlockAnd(p, "release")
    /\ UNCHANGED leaseVars /\ WorktreeKept /\ UNCHANGED <<faults, calls>>

\* After the request: a stop keeps the attempt as failed; else HEAD is compared
\* and the acceptance commands run.
Returned(p) ==
    /\ At(p, "returned")
    /\ LET m == Refreshed(p) IN
         IF Halting(m)
            THEN Save(p, Attempted(Halted(m), Step(p), "Terminal")) /\ Place(p, "release")
         ELSE IF m.head # Len(log) THEN Save(p, Blocked(m)) /\ Place(p, "release")
         ELSE Save(p, [m EXCEPT !.busy = TRUE]) /\ Place(p, "accept")
    /\ Heartbeat(p) /\ Quiet

\* run_acceptance cannot use the executor; any other failure is evidence.
AcceptanceError(p) == BlockAnd(p, "release")

\* review_attempt: an executor failure is terminal, and a change that is not
\* there is never accepted.
ReviewAttempt(changed, failed) ==
    IF failed THEN {"Terminal"}
    ELSE {"Retryable", "Terminal"} \cup {v \in {"Accepted"} : changed}

\* Acceptance commands and the coordinator's review of the evidence.
Accept(p) ==
    /\ At(p, "accept")
    /\ \/ AcceptanceError(p)
       \/ /\ Save(p, [mem[p] EXCEPT !.busy = FALSE])
          /\ \E v \in ReviewAttempt(dirty, run[p].verdict = "Terminal") :
               run' = [run EXCEPT
                         ![p].at = IF v = "Accepted" THEN "review" ELSE "judge",
                         ![p].verdict = IF v = "Accepted" THEN "none" ELSE v,
                         ![p].waits = 0]
    /\ Heartbeat(p) /\ Quiet

\* parse_model_review_output: what is not a verdict is an error, and terminal.
Rejections == {"Retryable", "Terminal"}

\* The model's review: a verdict, or a timeout retried after a wait.
Review(p) ==
    /\ At(p, "review")
    /\ \/ Place(p, "commit") /\ UNCHANGED <<disk, mem>>
       \/ /\ \E v \in Rejections :
               run' = [run EXCEPT ![p].at = "judge", ![p].verdict = v, ![p].waits = 0]
          /\ UNCHANGED <<disk, mem>>
       \/ /\ run[p].waits < MaxRetries
          /\ Save(p, mem[p])
          /\ WaitFor(p, "review")
    /\ UNCHANGED leaseVars /\ Quiet

\* What the recovery reasoner may decide.
Decisions ==
    [kind : {"Repair", "Replan", "RetryTransient",
             "BlockInsufficientAuthority", "BlockTerminal"},
     worker : {"same", "fallback"}]

\* force_stagnation_replan: the same failure twice is not repaired once more by
\* the same worker.
Unstuck(d, repeated) ==
    IF repeated /\ d.kind = "Repair" /\ d.worker = "same"
       THEN [kind |-> "Replan", worker |-> "fallback"] ELSE d

\* The disposition and the preferred worker a decision leads to.
Planned(d, fallbackLeft) ==
    <<IF \/ d.worker = "fallback" /\ fallbackLeft = 0
         \/ d.kind \in {"BlockInsufficientAuthority", "BlockTerminal"}
         THEN "Terminal" ELSE "Retryable",
      d.worker = "fallback">>

\* plan_retry_from_failure: without a diagnosis the failure is retried, with one
\* that fails it is terminal.
PlanRetry(p) ==
    IF run[p].verdict = "Terminal" THEN {<<"Terminal", FALSE>>}
    ELSE {<<"Retryable", FALSE>>, <<"Terminal", FALSE>>}
           \cup {Planned(Unstuck(d, r), run[p].left.fallback) :
                    d \in Decisions, r \in BOOLEAN}

\* reset_rejected_attempt: back to the last accepted commit.
ResetRejected == dirty' = FALSE

\* A rejected attempt is persisted first ...
Judge(p) ==
    /\ At(p, "judge")
    /\ \E plan \in PlanRetry(p) :
         /\ Save(p, Attempted(mem[p], Step(p), plan[1]))
         /\ run' = [run EXCEPT ![p].at = "settle", ![p].verdict = plan[1],
                               ![p].reviewed = TRUE, ![p].prefer = plan[2]]
    /\ UNCHANGED leaseVars /\ Quiet

\* ... and then blocks the campaign or is reset to the last accepted commit.
Settle(p) ==
    /\ At(p, "settle")
    /\ IF run[p].verdict = "Terminal" \/ \A k \in DOMAIN Budget : run[p].left[k] = 0
          THEN BlockAnd(p, "release") /\ dirty' = dirty
          ELSE /\ run' = [run EXCEPT ![p].at = "attempt", ![p].verdict = "none"]
               /\ ResetRejected
               /\ UNCHANGED <<disk, mem>>
    /\ UNCHANGED <<leaseVars, revised, log, box, expired, faults, calls>>

\* The checkpoint before a commit, HEAD and the paths once more; a stop keeps
\* the accepted attempt without a commit.
Commit(p) ==
    /\ At(p, "commit")
    /\ LET m == Refreshed(p) IN
         IF Halting(m)
            THEN Save(p, Attempted(Halted(m), Step(p), "Accepted")) /\ Place(p, "release")
         ELSE IF m.head # Len(log) THEN Save(p, Blocked(m)) /\ Place(p, "release")
         ELSE \/ Save(p, m) /\ Place(p, "committing")
              \/ Save(p, Blocked(Attempted(m, Step(p), "Terminal"))) /\ Place(p, "release")
    /\ Heartbeat(p) /\ Quiet

\* commit_local, on what the last checkpoint allowed; its failure blocks.
GitCommit(p) ==
    /\ At(p, "committing")
    /\ \/ /\ log' = Append(log, Step(p))
          /\ dirty' = FALSE
          /\ mem' = [mem EXCEPT ![p].head = Len(log) + 1]
          /\ Place(p, "record")
          /\ UNCHANGED disk
       \/ BlockAnd(p, "release") /\ UNCHANGED <<log, dirty>>
    /\ UNCHANGED <<leaseVars, revised, box, expired, faults, calls>>

\* The accepted attempt and the new HEAD are saved, the step only after that.
Record(p) ==
    /\ At(p, "record")
    /\ Save(p, Attempted(mem[p], Step(p), "Accepted"))
    /\ Place(p, "mark")
    /\ UNCHANGED leaseVars /\ Quiet

MarkAccepted(p) ==
    /\ At(p, "mark")
    /\ Save(p, [mem[p] EXCEPT !.steps[Step(p)] = "accepted"])
    /\ run' = [run EXCEPT ![p].at = "steps", ![p].todo = Tail(@)]
    /\ UNCHANGED leaseVars /\ Quiet

\* execute_verification: acceptance commands only; a failure blocks.
Verify(p) ==
    /\ At(p, "verify")
    /\ LET m == [mem[p] EXCEPT !.attempt = TotalAttempts(mem[p]) + 1, !.busy = TRUE] IN
         \/ /\ m.head = Len(log)
            /\ Save(p, Attempted(m, Step(p), "Accepted")) /\ Place(p, "mark")
         \/ /\ m.head = Len(log)
            /\ Save(p, Blocked(Attempted(m, Step(p), "Retryable"))) /\ Place(p, "release")
         \/ Save(p, Blocked(m)) /\ Place(p, "release")
    /\ Heartbeat(p) /\ Quiet

-----------------------------------------------------------------------------
(* The end of a run *)

ReleaseLease(p) ==
    /\ At(p, "release")
    /\ Release(p)
    /\ Place(p, "clear")
    /\ UNCHANGED <<disk, mem>> /\ Quiet

\* clear_active_lease saves the runner's copy once more, after the lease is
\* gone; a failed run saves what is on disk.
ClearLease(p) ==
    /\ At(p, "clear")
    /\ disk' = IF run[p].failed THEN disk ELSE Merge(mem[p], disk, FALSE)
    /\ mem' = [mem EXCEPT ![p] = NoCampaign]
    /\ run' = [run EXCEPT ![p] = NoRun]
    /\ UNCHANGED leaseVars /\ Quiet

-----------------------------------------------------------------------------
(* Faults, rivals and the whole *)

\* A process dies wherever it is; its container keeps running.  Processes that
\* stall, and pids that come back, are CampaignLease's.
Crash(p) ==
    /\ faults < MaxFaults
    /\ run[p].at # "idle"
    /\ Die(p)
    /\ faults' = faults + 1
    /\ mem' = [mem EXCEPT ![p] = NoCampaign]
    /\ run' = [run EXCEPT ![p] = NoRun]
    /\ WorktreeKept /\ UNCHANGED <<disk, box, calls>>

\* What operators do: commands on the state file, and runs of their own.
Operate ==
    \/ Start \/ Pause \/ Cancel \/ Expire
    \/ \E torn \in BOOLEAN : Revise(torn)
    \/ \E p \in Runners \ Supervising :
         MarkLoad(p) \/ \E resume \in BOOLEAN : Load(p, resume)

\* run_once of the supervisor: it removes a running campaign's container or, when
\* that fails, blocks the campaign, resumes what its scan found running (the
\* file may have changed since), and prunes what ended.
Supervise ==
    \/ CleanupContainer \/ Prune
    \/ \E p \in Supervising : MarkLoad(p) \/ Load(p, TRUE)

\* What a runner does by itself once it was started.
RunnerStep(p) ==
    \/ Refused(p) \/ Lease(p) \/ SaveLeased(p) \/ Recover(p) \/ Health(p) \/ Wait(p)
    \/ Triage(p) \/ NextStep(p) \/ Attempt(p) \/ Choose(p) \/ ModelReturns(p)
    \/ Returned(p) \/ Accept(p) \/ Review(p) \/ Judge(p) \/ Settle(p) \/ Commit(p)
    \/ GitCommit(p) \/ Record(p) \/ MarkAccepted(p) \/ Verify(p) \/ ReleaseLease(p)
    \/ ClearLease(p) \/ MarkBlocked(p)

Next ==
    \/ Operate \/ Supervise
    \/ \E p \in Runners : RunnerStep(p) \/ BeatState(p)
    \/ WorkerWrites
    \/ \E p \in Runners : Crash(p)

\* Every request, command and wait of a runner has a timeout.
Fairness == \A p \in Runners : WF_vars(RunnerStep(p))

Spec == Init /\ [][Next]_vars /\ Fairness

-----------------------------------------------------------------------------
(* Properties *)

\* One runner advances the campaign at a time and its heartbeats succeed: a
\* runner that is at work finds its own pid in the lease, whoever else loaded
\* the state, was refused or is ending its run.
RunnerHoldsLease ==
    \A p \in Runners :
        Active(p) /\ run[p].at \notin {"idle", "marking", "loaded", "leasing", "clear"}
          => p \in Holding /\ HeartbeatOK(p)

\* No save of a runner with a stale copy of the state undoes an operator's
\* command: until the campaign is pruned, a cancelled one stays cancelled and a
\* step appended by a revision stays in its plan.
CommandsKept ==
    [][disk'.state # "Absent" =>
         /\ disk.cancel /\ disk.state = "Cancelled" => disk'.cancel /\ disk'.state = "Cancelled"
         /\ disk.steps[Revision] # "absent" => disk'.steps[Revision] # "absent"]_vars

\* The recorded HEAD is never ahead of the branch, and a step recorded as
\* accepted is committed: a step of the plan at or below that HEAD, a revision's
\* somewhere on the branch.  (A save of a copy older than the revision keeps the
\* revision's accepted step and takes HEAD back.)
AcceptedBacked ==
    /\ disk.head <= Len(log)
    /\ \A s \in Steps \ Verification : disk.steps[s] = "accepted" =>
         \E i \in DOMAIN log : log[i] = s /\ (Pending(s) => i <= disk.head)

\* A step is committed once: recovery after a restart "never repeats an accepted
\* commit" (docs/autonomous-campaign-runner-contract.md:415), wherever the runner
\* died between the commit and the records of it.
NeverRepeatsCommit == \A i, j \in DOMAIN log : log[i] = log[j] => i = j

\* Every run comes to an end: the retries of requests, reviews and health
\* checks are bounded, and no runner waits for a lease.
RunEnds == \A p \in Runners : []<>(run[p].at = "idle")

=============================================================================
