# A TLA+ model of rack-ai

rack-ai shares the GPUs of one host between services and drives coding agents on them.
Its core is the *runtime receiver* (`src/crates/rack_ai_runtime`): clients acquire a
reservation for one or more services, the receiver loads the backends, runs calls on
them, takes GPUs away from lower priorities, keeps idle backends warm and cleans up what
went wrong. Around it, separate processes run campaigns of code changes, a queue of
tasks, bounded executions of single changes and a media service. They share files,
locks and leases with the core. This directory models these parts, checks them with TLC
and proves the central safety properties with TLAPS.

## The system

| Part | State | Operations | Interacts with |
| --- | --- | --- | --- |
| Reservation document (`types.rs`, `service.rs`) | demands, claims, invocations, warm residencies; one lock, each update atomic and durable | read, update, recover at start | everything below |
| Admission (`reservation_admission.rs`, `planner.rs`) | none of its own | acquire: refuse, or fence victims and reserve | document |
| Supervisor (`supervisor.rs`, `idle.rs`, `workers.rs`) | the tick, permits, record locks | reconsider, scan, spawn, error handler | spawns transition and dispatch threads |
| Transition thread (`transition.rs`, `retirement.rs`, `recovery.rs`) | the copy of the record it read | preflight, drain victims, start, publish, retire, recover | document, backends |
| Warm cache (`residency.rs`) | residency records | cache, adopt, evict, reconcile at start | transition threads, backends |
| Calls (`inference.rs`, `dispatch.rs`, `workspace_scope.rs`) | invocations, scopes, payload files | submit, nest, start, complete, expire, cancel | document, backends |
| History (`history_archive.rs`, `work_execution_view.rs`) | archive files and their indexes | stage, publish, remove from the document, look up, expire, report | document, calls |
| Resource leases (`resource_reservations.rs`, `managed_lease.rs`) | lease files | acquire, verify, release | document, task queue, media |
| Endpoint fence (`endpoint_fence.rs`) | a lock file per port | enter, leave, test for quiescence | document, agents |
| Campaigns (`campaign_runner.rs`, `campaign_lease.rs`, `campaign_supervisor.rs`) | state file, two lease files, branch | start, run, pause, cancel, revise, resume, prune | agents, containers |
| Task queue (`run_next_task.rs`) | queue files, run states | submit, select, claim, attempt, resolve | leases |
| Change execution (`execute_change.rs`, `execute_workspace.rs`) | worktree, branch, packet | select, prepare, implement, check, commit, save | endpoint fence, calls |
| Media service (`rack_ai_media`, `media/comfy_gate`) | service record, jobs, sessions, unit, gate | activate, dispatch, idle stop, restart, shut down, recover | leases, document, native queue |

What makes it hard: nearly every actor works on a *copy* of a record, and between two
updates of the shared file it starts, stops or probes processes for seconds or minutes.
Meanwhile the client releases, the lease expires, another demand preempts, an operator
cancels, a second process takes over, or the process dies. An external effect may fail
with an unknown outcome, and one logical update may be several files. The properties are
about those windows; `hazards` in `PROJECT.json` lists each at its line.

What makes each part correct:

* ownership: one backend per GPU, no running backend without a recorded owner, one
  owner per backend; a call in flight keeps its GPUs;
* transition: a lost reservation never becomes usable again; groups are published whole;
* retirement and recovery: claims are released only after the backend is gone, and in
  the end they are released;
* calls and history: an outcome is final, work runs once, and a record is found,
  with its payloads, until its retention ends;
* campaigns: one runner at a time, an operator's command is never undone, a step
  recorded as accepted is committed, every run ends;
* queue: workers and managed models share no resource, unknown outcomes are not retried;
* changes: what is accepted is allowed, checked and still wanted; nothing is left running;
* media: the GPU is free for others only after the unit is gone, a job is submitted once,
  accepted work is drained.

## Modules

| Module | Models |
| --- | --- |
| `Authority` | constants, the state, the document's predicates, start/stop/probe outcomes of the machine |
| `Admission` | `Planner::refusal`, `fence`, `fence_group`, `reserve` |
| `Calls` | submit, dispatch, completion, expiry and cancellation of calls |
| `Residency` | eviction, adoption and caching of warm backends |
| `Transition` | `Transition::advance`, `VictimDrain`, `ReadinessCommit`, `Retirement::run` |
| `Recovery` | `Recovery::advance` and its fence |
| `Supervisor` | the tick, the error handler, client control, the archive, time, restart |
| `Reservation` | the composition of the modules above: `Next`, fairness, properties |
| `Ownership` | the inductive invariants of the ownership properties and of `CallsOwned` |
| `History` | submission with its lookups, workspace scopes, completion, workspace recovery, payload files, archive maintenance file by file, the reported outcome |
| `RepositoryLock` | abstract: one holder of a repository |
| `CampaignLease` | the two lease files that implement it |
| `CampaignRunner` | the campaign state file and its runners, supervisor and operators, over `CampaignLease` |
| `TaskQueue` | the queue, run states and lease files of `run-next` processes, beside the managed runtime |
| `EndpointFence` | the barrier between direct clients of a port and the runtime |
| `ChangeExecution` | the execution of a change, a client of `EndpointFence` |
| `MediaBackend` | the unit, the gate and the lease of the media GPU |
| `MediaService` | the media receiver: lifecycle, jobs, sessions, restart, recovery |
| `MediaBridge` | the runtime's adapter and clean-up on the same record, composed with `MediaService` |
| `MCPreempt`, `MCGroup`, `MCWarm`, `MCSolo`, `MCHistory`, `MCCampaign`, `MCQueue`, `MCChange`, `MCMedia` | the instances TLC checks |
| `TypeProofs`, `OwnershipProofs`, `ActionProofs` | theorems about `Reservation` |
| `CampaignProofs` | theorems about the campaign leases and the runner |
| `ChangeProofs` | theorems about the fence and change execution |
| `QueueProofs` | theorems about the task queue |
| `HistoryProofs` | theorems about the calls of workspaces, the archive and what is reported from it |
| `MediaProofs` | theorems about the media GPU, its receiver and the bridge |

`CampaignLease` implements `RepositoryLock` by the mapping `holders <- Holding`, the
processes that hold a lease and still act; `ExclusiveLease` is that refinement.
`ChangeExecution` shares the variables of `EndpointFence`; each of its steps is one of the
fence's or leaves them alone, which is the theorem `ChangeImplementsFence`.

### State and code

One step is one atomic section of the code: one read or update under a lock, one file
written or renamed, or one external effect. A process that works on a copy keeps the copy
in its state.

*Reservations.* `dem[d]` is the demand record, `claims[x]` the owner of GPU `x`,
`warm[a]` the residency record of activation `a`, `call[c]` an invocation, `backend[a]`
whether the process of activation `a` really runs. `w[d]` is the transition thread of
demand `d`: `pc` says which section it executes next, `snap` what it remembers of the
record it inspected, `tgt` and `evict` the loop variables of a drain or an eviction.
`tick` and `todo` are the supervisor thread inside one tick. A demand identity is used
once, which stands for the generation checks of the code. An activation is named by the
demand that created it, so a demand that adopts a warm backend has another demand's name
in `act`. `Absent` is a demand nobody acquired; `Archived` one the archive removed.

*History.* `doc` and `dem` are the document, `file` every final file of the archive, one
entry per path, `sub[t]` an HTTP thread between its two reads, `maint[m]` a maintenance thread with its plan
and staged files. `old` are identities past their retention; `ran` and `issued` remember what
was run and accepted. Staging is invisible to lookups, so it is one step; every
publication and every removal is a step of its own. What is staged is a function over
positions `<<section, whose, part>>`: the planned calls, the reservation, then the calls that
were archived before, each call with its record and its indexes; `Leading` is the next to
be written. Positions stand for the order of the code's list without a fold over it.

*Campaigns.* `disk` is `state.json`, `mem[p]` a runner's copy of it and `run[p].at` its
place in `run_internal` and below, `log` the commits of the branch, `dirty` the worktree, beside
the variables of `CampaignLease`. `Merge` is what `save_state` does with a stale copy.

*Queue.* `spec[t]` says in which directory the task file is, `run[t]` the run state file,
`lease` and `claims` the two places in which resources are marked, `proc[p]` a `run-next`
process with the copy it read, `open`, `done` and `lost` what really happened.

*Changes.* `sub[p]` is a submission with its packet in memory, `worktree`, `head` and
`checked` the versions of each path in the worktree, on the branch and when the commands
passed, `agent` what still runs of it, `box` podman's client or the container of a command
(both may outlive their clean-up), `packet` the file, `lost` whether the reserved call was
lost before or after the last fence. The request is resolved in the step that creates the
worktree, and a submission that returned or died is `over`.

*Media.* `svc`, `jobs` and `sess` are the receiver's durable record, `at` where the receiver's
supervisor and the runtime's thread are, with the copies they read, `unit` what systemd
does, `auth` the authority file of the gate, `queue` and `native` the work in the backend,
`lease` who the GPU is reserved for, `grant` the runtime's reservation of it, `oplock` the
holder of `lifecycle.lock`.

### Abstractions

* Time: deadlines pass at any moment. Renewal and extension by activity only delay what
  the model lets happen any time; the code never revives an elapsed lease, so `expired`
  is never reset. A retention period ends only after the live record is gone (fourteen
  days against a retry every minute).
* Faults: `Faults`, `MaxFaults` and `MaxCrashes` name and count the failures a run
  allows. A failed start, stop or write may or may not have had its effect.
* A stop returns Ok only when no foreign process is left on the GPUs (`gpu_cleanup::wait`).
* The retry delay of recovery, the `pending_changes` hint and the order in which a tick
  visits demands of equal rank are left open: any order and any delay.
* The dispatcher's probe and its start update are one step; in between nothing of
  the state the update rechecks is used. It is fair only while the backend lives.
* A heartbeat lapses only when its process died or stopped for good: background threads
  beat every 30 s at most, far below the staleness limit.
* Contents (prompts, results, reports, evidence) are reduced to what a decision reads:
  a version of a path, a verdict, whether a payload is there.

## Runs

| Run | Question | Properties |
| --- | --- | --- |
| `preempt` | preemption with a call in flight, releases, failing starts and stops, a crash | `TypeOK`, `ReadyBacked`, `CallsOwned`, `Exclusive`, `Covered` |
| `group` | a two-service reservation over an incumbent (fair) | `AtomicReady`, `PreparingEnds`, `PreemptingEnds` |
| `warm` | caching, adoption and eviction against an incompatible demand, with failing probes | `SingleOwner`, `NoReturn` |
| `calls` | a model call and a workspace under every kind of interruption (fair) | `CallsFinal`, `ClosedReturnsGpus`, `QueueMoves`, `RecoveryEnds` |
| `history` | a workspace with a nested call, from two racing submissions to the archive (fair) | `NothingLost`, `RunsOnce`, `ParentSettled`, `RetiredAsArchived`, `OutcomeKept`, `ClosedRetired` |
| `lease` | do the two files implement a lock? (fair) | `ExclusiveLease`, `DeadLeaseLapses` |
| `campaign` | runners with stale copies against operators and supervisor (fair) | `RunnerHoldsLease`, `AcceptedBacked`, `CommandsKept`, `RunEnds` |
| `repeated_commit` | is an accepted commit ever repeated? (violated) | `NeverRepeatsCommit` |
| `queue` | two `run-next` processes, two tasks, the managed runtime | `Exclusive`, `InvokedOnce`, `DependenciesDone`, `LeaseAccounted` |
| `change` | two submissions of one change, sandboxed against reserved or open, beside the runtime | `EndpointExclusive`, `AcceptedSound`, `ImplementedOnce`, `Quiet` |
| `media` | the media receiver: a job, two sessions one after the other, two activations, a fault | `Reserved`, `AtMostOnce`, `Drained`, `CancelSticks` |
| `bridge` | receiver and runtime on one record | `OwnReserved`, `NoStartAfterFinish` |

Every property of a passing run has a mutant of the code in its module (a dropped guard,
a swapped order, a missing reset) under which TLC finds it violated. The type invariant
of a module documents its state; `TypeOK` of the reservations is checked and proved.

Bounds and why they are enough. One GPU contended by two demands is the smallest
handover; two GPUs are needed for groups and for a cache on a GPU the incumbent does
not use. Two demands of one profile and one of another give every adopt/evict race. A
model call and a workspace are the two kinds of call. One crash lands between any two
steps; the theorems hold for any number. In `history` one workspace with one nested call
gives the parent and child dependency, two threads a stalled submission, and one
maintainer every order of retirement; its one kind of fault is the uncertain outcome, since
an answered failure is retired the way a completion is. Backends die in `calls`, starts
and stops fail in `preempt`, and probes in `warm`: together in one run they are beyond TLC. `campaign` has an implementation step, a
verification step and a revision, a primary and a fallback attempt, one retry, one fault
and three requests. `lease` has two campaigns, so that a record of another campaign blocks,
and three processes, so that a third takes over while two race. `queue` has a task of two
dependent nodes and one that needs both resources, three runs of a process and failing
writes. `change` has an allowed, a forbidden and an ephemeral path, a gateway and a direct
port. `media` allows a second activation and a restart, and a second session, because a
request judged in the first reaches the backend of the second; a second fault would triple
it, and the theorems are about any number. `bridge` has two activations, two starts of the
unit, a restart by the runtime and an interactive session, so that a Finish meets the first
start of a reservation, a restart and an activation of the receiver; jobs, which only
`media` has there, would multiply it fivefold.
Deadlock is checked for the reservations and the lease, where an actor always has a next
step; the other systems may come to rest (`CHECK_DEADLOCK FALSE`) when every submission,
run or activation the bounds allow has been made.

### Fairness

`FairSpec` of `Reservation` assumes that the supervisor thread keeps ticking and a spawned
thread keeps running (weak fairness; both are OS threads in loops without unbounded
waits); that an inference ends (each has a timeout); that a dispatcher starts an eligible
call of a live backend; that the workspace monitor runs; and that deadlines pass: strong
fairness of `RetRead`, `DrainVictim` and `ReadyProbe` says that a thread which again and
again finds its deadline in the future some day does not, and weak fairness of `Expire` in
`RecoveryRequired` that a lease the client can no longer renew runs out (`control.rs`
refuses to renew it). `History` assumes that the maintenance thread keeps running (it is
woken every minute). `CampaignRunner` assumes that a runner which lives takes its next
step: every request, command and wait in it has a timeout. `CampaignLease` assumes that the
second write follows the first unless the process dies, and that time passes. Nothing is
assumed of clients, operators, the machine or crashes.

## Disagreements between the code and its documentation

One is a run that TLC finds violated:

* `repeated_commit`: the accepted attempt and the new HEAD are saved before the step is
  marked accepted (`campaign_runner.rs:1524`, `:1554`). A runner that dies in between
  leaves a state that recovery accepts and whose step is pending, and the resumed runner
  commits it again; the contract says recovery "never repeats an accepted commit"
  (`docs/autonomous-campaign-runner-contract.md:415`).

The others were met while modelling. Where a property of a passing run is narrower than
one would like, one of these is the reason.

Reservations:

* a candidate that fails before it owns its GPUs is quarantined, and recovery's fence
  demands ownership (`recovery.rs:177`): it stays in `RecoveryRequired`, although
  `docs/reservation-ownership-preemption-v2.md:53` calls that no permanent state;
* a candidate that is closed and archived before the next reconsideration leaves its
  victims `Preempting` (`supervisor.rs:28`, `history_archive.rs:407`);
* a candidate with victims does not own its GPUs at preflight, so it evicts no
  incompatible resident and fails on it (`residency.rs:44`,
  `docs/pr40-warm-backend-residency-cache.md:277`); a crash between marking a resident
  `Evicting` and stopping it leaves a record nothing evicts (`residency.rs:201`, `:280`); a
  released reservation with an uncertain call may be cached (`residency.rs:231`, `:279`);
* a workspace interrupted by a restart is never diagnosable
  (`workspace_recovery.rs:115`, `service.rs:166`), so its reservation never leaves
  recovery; `Undiagnosable` names this exception in `ClosedReturnsGpus` and `RecoveryEnds`;
* a member of a group stays `Preparing` until its lease runs out after another member
  failed or was released, and a media member that goes back to `Preparing` keeps a group
  from being published again (`reservation.rs:80`);
* releasing a `Preempted` reservation puts it back into `Releasing` (`control.rs:98`), although
  `types.rs:34` calls the state terminal; the members of one reservation are checked
  against host memory one by one (`reservation_admission.rs:114`).

History: a submission to a reservation that has accepted no call skips the archive
(`inference.rs:12`), so one that stalls while the same work runs and is retired under
another reservation runs it again (`docs/reservation-work.md:104`); `expire` removes a
work index that may already name a newer call (`history_archive.rs:1377`); an uncertain call
of a `Releasing` demand is not quarantined (`recovery.rs:23`) and inspection already reports
it as safely closed (`work_execution_view.rs:303`,
`docs/work-execution-public-contract.md:44`); a completion that `retention` refuses leaves its
call `Running` (`dispatch.rs:203`).

Campaigns: a cancel between the last checkpoint and `commit_local` does not stop the
commit; the supervisor may remove the container of a live runner
(`campaign_supervisor.rs:166`); a runner that recovery just blocked continues when it was
resumed (`campaign_runner.rs:798`); a runner that saves a copy older than a revision takes the
recorded HEAD back and keeps the revision's accepted step (`campaign_runner.rs:313`), so
`AcceptedBacked` puts only steps of the plan at or below HEAD; a revision step left dirty errors on every resume
(`:2753`); `revise` writes two files (`:626`); release looks at no pid.

Queue: a stale copy written back by the selection can make a completed node run again or
leave a completed task queued (`run_next_task/planning.rs:30`), so `InvokedOnce` is about
invocations of unknown outcome; a lock timeout at release leaks the leases.

Changes: a required artifact that is missing is not noticed in a container
(`execute_change.rs:356`, `docs/generic-bounded-workspace-execution.md:131`); the idempotency
key is saved only with the second packet (`execute_workspace.rs:172`), and `ImplementedOnce`
holds because the worktree and branch exist already; the packet is written in place; a call
cancelled after the last fence is still committed; files git ignores escape the
inspection; an unsandboxed agent may leave processes behind.

Neither an agent nor a container is certain to be gone after its clean-up. A failing `podman
stop` or `rm -f` is ignored, and nothing is stopped while the identity is unwritten
(`podman_container_cleanup.rs:20`); a wait that fails returns without a clean-up
(`podman_workspace_executor.rs:167`), and a client that dies counts as a command that failed
(`:170`); a sandboxed process tree may survive its termination (`jcode_process_runner.rs:738`).
In each case the packet is saved all the same while the survivor writes on, so what the packet
of a rejected change says of its worktree may be out of date. `Quiet` therefore is about
what is accepted: each of these paths ends in a status that is not `ChecksPassed`. A survivor's
connection is closed in the model at once, while a bridge thread keeps it, and its
endpoint lock, a little longer; the container that reads an artifact writes nothing and is not
counted; and an edit of the registry stands for an edit of one of the six fields that
`jcode_change_implementer.rs:155` compares.

Media: a unit that the runtime started may run unreserved after the receiver's startup
recovery (`media.rs:88`, `supervisor.rs:80`): `OwnReserved` excludes it. A crash between
releasing the lease and recording it leaves `RecoveryRequired` for good
(`supervisor.rs:99`), and one between recording `Stopping` and stopping never issues the
stop again (`shutdown.rs:16`). Both keep the GPU reserved, so `Reserved` holds.

A reservation of the runtime may start the unit for a session that is already finished:
`begin` records the session and then requests the start without another look
(`shared_activation.rs:39`, `:84`), and a Finish may be accepted in between. The unit is stopped
again by the next round that looks at the session. `NoStartAfterFinish` excepts this one start
by name, and no other start.

A managed job may be submitted twice. The runtime's stop (`media.rs:82`) does not wait for
a dispatch in progress: it sees an empty queue, interrupts the job and clears
`cleanup_pending` (`shutdown.rs:37`) between the receiver's POST and the save of its answer;
that save sets the job back to `Running` or `SubmissionUncertain` without a look at its state
(`dispatch.rs:62`), and the next managed activation dispatches it again, because no clean-up
is owed (`execution.rs:15`). `docs/pr24-media-operations.md:60` allows managed jobs no
redispatch. With `MaxGrants = 1` and one job TLC finds `AtMostOnce` violated; the run `media` and
the theorem are about the receiver alone.

A native request can be lost when the opening of the gate is cut short. The unit is opened by
writing the authority and probing the gate (`startup.rs:48`, `restart_start.rs:86`); if the probe
fails or the receiver dies in between, the record still says that the unit starts, while
requests pass. A request that the proxy judged in an earlier session (`native.rs:97`) may then
be queued, and the next round stops the unit at its start deadline (`startup.rs:60`) or at the
end of the session without a look at the queue. `docs/pr24-media-operations.md:31` has Finish
drain accepted work. `Drained` names this case and excludes no other: the attempt to prove it
without the exception failed there, and TLC shows the trace with two sessions.

## Proofs

The theorems hold for any sets of demands, GPUs, profiles and calls, campaigns, plans,
processes, tasks, resources, changes, clients and ports, any grouping, priorities and limits,
any faults and any number of crashes. They use the named assumptions of `Authority` (`None`
is no demand, the constants are functions of the right shape, `Root` is idempotent, members
of one group need disjoint GPUs and share a priority, bounds are naturals) and those of the
other parts: `None` is no process, campaign, record or client (`LeaseAssumption`,
`FenceAssumption`); the revision is not a step of the plan (`CampaignAssumption`); a node
depends on nodes of its own task and a task has at least one attempt (`QueueAssumption`); the
path sets of a change are paths of it (`ChangeAssumption`); `None` is no request, a request names
one reservation and a nested one the workspace of its own (`HistoryAssumption`), and it is no
record (`NoneAssumption`); the bounds of the media modules are
naturals and `NoSession` is no session (`BackendAssumption`, `ServiceAssumption`,
`BridgeAssumption`).

| Theorem | Module | States |
| --- | --- | --- |
| `Typed` | `TypeProofs` | `Spec => []TypeOK` |
| `OwnershipHolds` | `OwnershipProofs` | `Spec => []OwnershipInv` |
| `ExclusiveHolds` | `OwnershipProofs` | no GPU has two backends |
| `CoveredHolds` | `OwnershipProofs` | a running backend has a recorded owner with its claims, or is warm |
| `ReadyBackedHolds` | `OwnershipProofs` | a Ready or Preempting demand has process, effect and GPUs |
| `SingleOwnerHolds` | `OwnershipProofs` | a backend has one owner |
| `CallsOwnedHolds` | `ActionProofs` | a running model call keeps its reservation's GPUs |
| `NoReturnHolds`, `AtomicReadyHolds`, `CallsFinalHolds` | `ActionProofs` | the action properties of the runs |
| `LeaseImplementsLock` | `CampaignProofs` | `LeaseSpec => Lock!Spec` |
| `LeaseKeptHolds` | `CampaignProofs` | a live holder keeps both records |
| `CampaignInvariant` | `CampaignProofs` | `Spec => []CampaignInv` |
| `CampaignLeased`, `CampaignBacked` | `CampaignProofs` | `RunnerHoldsLease` and `AcceptedBacked` |
| `CampaignCommandsKept` | `CampaignProofs` | no save undoes a cancel or a revision |
| `QueueInvariant`, `QueueTyped` | `QueueProofs` | `QueueInv`, and `TypeOK` of the queue |
| `WorkersExclusive`, `LeasesAccounted` | `QueueProofs` | resources are not shared, and no lease is left by a failed acquisition |
| `TaskInvokedOnce`, `NodesInOrder` | `QueueProofs` | unknown outcomes are not retried; nodes run after what they depend on |
| `EndpointExclusiveHolds` | `ChangeProofs` | `FenceSpec => []EndpointExclusive` |
| `ChangeImplementsFence` | `ChangeProofs` | `Spec => FenceSpec` |
| `ChangeEndpointExclusive` | `ChangeProofs` | `Spec => []EndpointExclusive` |
| `ChangeInvariant` | `ChangeProofs` | `Spec => []ChangeInv` |
| `ChangeAcceptedSound`, `ChangeImplementedOnce`, `ChangeQuiet` | `ChangeProofs` | the invariants of the run `change`, where agents and containers may outlive their clean-up |
| `NothingLostHolds` | `HistoryProofs` | `WorkPerReservation` gives `Spec => []NothingLost` |
| `RunsOnceHolds` | `HistoryProofs` | `WorkPerReservation` gives `Spec => []RunsOnce` |
| `OutcomeKeptHolds` | `HistoryProofs` | `WorkPerReservation` gives `Spec => OutcomeKept`: a reported outcome stays |
| `RetiredAsArchivedHolds` | `HistoryProofs` | a record leaves the document as it was archived, an uncertain one proven absent |
| `ParentSettledHolds` | `HistoryProofs` | a workspace that is over has no nested call that runs or is of unknown outcome |
| `MediaTyped` | `MediaProofs` | `Spec => []TypeOK`, beside any reservations of the runtime |
| `OwnReservedHolds`, `CancelSticksHolds` | `MediaProofs` | `OwnReserved` and `CancelSticks`, beside any reservations of the runtime |
| `DrainedHolds` | `MediaProofs` | no work in the queue when the unit is asked to stop, beside any reservations of the runtime |
| `NoStartAfterFinishHolds` | `MediaProofs` | no start for a finished session, except the first start of a reservation |
| `ReservedHolds`, `AtMostOnceHolds` | `MediaProofs` | `grants = {} => Reserved` and `grants = {} => AtMostOnce`, the receiver alone |

*Ownership.* `Exclusive` is not inductive: it needs to know that a thread about to start a
backend still owns GPUs that are empty, although it looked at them several steps ago.
`OwnershipInv` adds what carries over those steps. `RecordInv` says that a record with an
effect owns its GPUs and that its activation is not a resident. `ThreadInv` says what a
thread may rely on at each `pc`: what it remembers of the process and the preflight
agrees with the record (`SnapInv`, `ProcessInv`); between the transfer of claims and the
recorded process it owns its GPUs, and before the start they are empty (`StartInv`); it
evicts only from its own GPUs and removes only what is stopped (`EvictInv`); a victim whose
stop succeeded and that is still `Preempting` has no backend (`DrainInv`); claims go after the
backend (`RetireInv`, `RecoverInv`). `Covered` closes the circle: a backend on somebody's
GPUs is owned by somebody who holds their claims, and claims have one owner.

`OwnershipProofs` first shows that a step which leaves a thread's facts alone preserves its
part of the invariant (the frame lemmas), then treats the steps that only move a thread, stop
a backend or evict, and those that write records, claims or backends. `ActionProofs` goes through the steps that change a demand's
or a call's state; `AtomicReady` needs that a member with a recorded process owns its GPUs.

*Calls.* `CallsOwned` needs a second invariant, `CallsInv`, because claims are given up several
steps after the calls were counted. `QuietInv` says that a thread past the drain boundary of
a victim, or past the drain of its own retirement, has seen that no call of that demand
runs (`Drained`), and that a demand in retirement is `Closing`: no longer in a state in which
a dispatcher starts its calls, and it never returns to one. So nothing becomes `Running`
between the count and the release of the claims.

*Leases and campaigns.* `LeaseInv` adds to `LeaseKept` that a holder which acts has a fresh
heartbeat and that between the two writes nobody else holds or writes; a lease is then taken
only when the record in the way is inactive, hence not a holder's. `CampaignInv` puts the
runner on top: the phase of its lease follows from its place (`Leased`), and what its copy,
the state file and the branch say of each other is kept by a merge with any stale copy of a
campaign that was started (`Backed`, `Whole`). Between the commit and its record a runner knows
that the commit is its copy's HEAD (`Knows`); that is where a step becomes accepted. The
proof attempt refuted an earlier `AcceptedBacked`, which put every accepted step at or below
HEAD: see the disagreements above. The bound on a campaign's attempts in `CampaignTypeOK` is a
sum over the steps and stays with TLC.

*Queue.* `QueueInv` says who owns what at each place of a process. `OpenInv`: a task in
`running` belongs to one process until the outcome is filed or the attempt is given back
without an invocation. `HeldInv`: generations are not reused, all leases of an attempt are
there from the last write to the first removal, and `authority.lock` covers the writes and
removals. `DoneInv`: no run state, saved or in memory, calls a node completed that is not;
this is why a stale copy written back by the selection cannot run a node early.

*Changes.* `FenceInv` adds to exclusion that a client which passed the lock still holds it
(`GuardHeld`). `ChangeInv` adds that the submission which created the worktree has the change
to itself while it, its agent or its container lives (`OwnerInv`), that what it compared
stays true through its inspections, checks and commit (`TreeInv`), and which worker the
change may have run (`WorkerInv`, `PacketInv`). An agent or a container may outlive its clean-up
(`Survives`); `RunsInv` says that this is so only after an error, whose status no later step turns
into `ChecksPassed`, so such a submission gets to `save` and never to `commit`. An agent that is not contained is outside
`TreeInv`, as it is outside the code's guarantees.

*Workspaces.* `ParentSettled` compares two records that are completed, dispatched, cancelled and
retired apart from each other. A nested call is dispatched only while its workspace runs, and
a workspace is completed only when none of its calls runs or is of unknown outcome, but the
completion asks `scope[p]` whether it has any. `ScopeInv` adds that this answer is right:
the scope of a live nested call is not forgotten and names a workspace of the same reservation
(`Family`). The archive forgets a scope with its reservation; the plan that does so was
read some steps earlier, and still names every call of the reservation because a
closed reservation accepts no more (`Shut`, `Planned`).

*Archive.* `NothingLost` is not inductive: a commit removes a record because files were written
steps earlier, without the lock, by a maintainer that may race others with older plans,
and while expiry removes files. `ArchiveInv` says what each maintainer may rely on. Every
copy of a call's record, in the archive, in a plan or staged, agrees with the live record while there is
one, and all copies agree with each other (`CopiesOK`): only settled calls are planned, and a settled
record does not change, so a stale plan is a true copy. A staged write is meant for the file of its position
and carries the call that file names (`Placed`, `FilesOK`), so two maintainers that write the same
file write for the same call. Every part of a planned call is still staged or already stands
(`Written`), hence all of it stands at the commit; what expiry still has to remove has passed its
retention (`Removing`), and what has passed it is closed and retired (`Ages`). `Once` says that an index never
has to name two calls: a submission that is accepted found neither the live record nor the
archived one, and `Indexed` says that one of them is there as long as the reservation is open.
`RunsOnce` is `Once` for what was dispatched. `OutcomeKept` follows because a report is made from the live
record or from a copy, which agree: first `Reported` says so of the record a report was made
from, then of the one a step later.

`NothingLost`, `RunsOnce` and `OutcomeKept` have the hypothesis `WorkPerReservation`: requests with one work
id name one reservation. Without it they are false, by the disagreements about history above:
TLC finds `OutcomeKept` violated when two reservations share a work id. The invariant uses the
hypothesis only where it speaks of work indexes, so `RetiredAsArchived` needs none. With the
hypothesis no reuse of a work id after its retention is accepted, because its reservation is closed by then;
`Reuse` makes a difference only across reservations.

*Media.* Two processes write one service record, and the runtime mostly without
`lifecycle.lock`, so the invariant says what each may rely on at its place. `OwnInv`: while a
unit of the receiver's own may run, the record names its lease, which is nobody else's
(`Mine`); from the creation of an activation to its start, and from the release to the reset,
nothing of the receiver's own runs (`Foreign`); and through the steps of a restart (`Chain`)
the copy that is worked on names the lease that is held. `Asleep`: a reservation of the runtime
holds the claim from its grant to its end, so the receiver cannot hold it as well. `AtJob` and
`AtResult` say which job and answer the supervisor has at hand. All this holds beside any
reservations, and `OwnReserved` follows. `CancelSticks` needs only that a cancelled job is in
its final state (`Cancelled`), since every write looks at one or the other. `NoStartAfterFinish` needs that the supervisor
keeps `lifecycle.lock` from the look at the session to the start and that a clean-up of the
runtime, which finishes sessions too, holds it (`Locked`); the runtime may rewrite the
record in between, but only into one without that session or with a new one (`Begun`). The only
start that is not the supervisor's is the first start of a reservation (`StartFinish`), which
the formula excepts.

`Drained` needs what the supervisor has seen and when (`DrainInv`). While a unit of the receiver's
own runs, the runtime has nothing of its own in hand (`OwnSleeps`), so between the look at the
queue and the stop only the supervisor writes the record. `Seen` says what still holds at each of
its places: a gate that was closed stays closed and a queue that was seen empty then stays
empty, and a record that is not ready, or is not managed, has no job in the queue. `Generation`
(a running unit has an invocation) and `Workless` (no work in a unit that is gone) carry this
across a start of the unit, `Repeated` (only an interactive record has a restart) across a
restart.

`Alone` is about runs without reservations. `Purged`: files of a job are on disk only under a
lease of the receiver, which it gives up after the backend is gone and the files are purged.
`Once`: a job that was posted is over, or its clean-up is owed, or the supervisor holds it
between the post and its record (`Sound`, `AtHand`); a job whose clean-up is owed is never
prepared again. The proof attempt showed that the last clause is what a reservation
breaks: see the managed job among the disagreements.

Only model-checked: liveness and everything that depends on it (out of the prover's reach), and
the bounds of attempts in `CampaignTypeOK`, sums over steps (induction over data).

## Not modelled

Left out, with the reason:

* admission: the cache of refusals and the replay of an acquisition, profile
  eligibility (configuration); `RefreshReservation` reconsiders stored `Unavailable`
  demands, which admission no longer stores;
* groups with media members, several media members of one reservation
  (`recovery_media_group.rs`): the product of the two models is beyond TLC;
* sizes of payloads and retention limits, disk errors while reading a payload,
  interaction records and redaction;
* the ranking of workers, validation of domain types, prompts and reports: pure
  functions of configuration or text;
* the command line's parsing, HTTP and protocol conversion, speech, browser login,
  deployment scripts and qualification tools: they keep no state of the core, or are pure
  I/O.
