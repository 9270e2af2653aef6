------------------------------ MODULE TaskQueue ------------------------------
(* The durable task queue: `submit` writes a specification and a run state,  *)
(* any number of `run-next` processes select a task, claim it by renaming    *)
(* its file, lease its resources, run it and file the outcome                *)
(* (submit_task.rs, run_next_task.rs, resource_reservations.rs).             *)
(*                                                                           *)
(* Queue files and run states are written without a lock, one file per step. *)
(* Lease files are written under authority.lock, which the managed runtime   *)
(* takes for its claims. A process may die between any two steps; nothing    *)
(* recovers what it leaves. Every task is submitted once.                    *)
EXTENDS Naturals, Sequences, FiniteSets, Functions

CONSTANTS
    Tasks,         \* the order of their names, as a sequence
    Nodes,         \* Task -> the nodes of its DAG in order; a linear task has one
    Deps,          \* Task -> node -> the nodes it depends on
    ResourcesOf,   \* Task -> node -> the resources of the worker it runs on
    AttemptLimit,  \* max_attempts of every task
    Procs,         \* run-next processes
    MaxRuns,       \* leases taken over the whole behaviour
    Faults,        \* "write": a write of a file may fail
    None

Task == Range(Tasks)
NodesOf(t) == Range(Nodes[t])
Node == UNION {NodesOf(t) : t \in Task}
Resources == UNION {UNION {ResourcesOf[t][n] : n \in NodesOf(t)} : t \in Task}

ASSUME QueueAssumption ==
    /\ AttemptLimit \in Nat \ {0} /\ MaxRuns \in Nat
    /\ \A t \in Task : \A n \in NodesOf(t) : Deps[t][n] \subseteq NodesOf(t)
    /\ None \notin Procs \cup Nat

VARIABLES
    spec,     \* directory that holds the specification of a task
    run,      \* run state of a task
    lease,    \* lease file of a resource: the generation that wrote it
    claims,   \* resources claimed by the managed authority
    lock,     \* holder of authority.lock
    gen,      \* generations drawn so far
    proc,     \* the run-next processes
    open,     \* history: invocations of a task whose outcome was not saved
    done,     \* history: nodes of a task that a worker really completed
    lost      \* history: generations whose holder died or failed to release

vars == <<spec, run, lease, claims, lock, gen, proc, open, done, lost>>
ghosts == <<open, done, lost>>

RunState == [status : {"Queued", "Running", "Succeeded", "Failed"}, attempt : Nat,
             nodes : UNION {[NodesOf(t) -> {"Pending", "Running", "Succeeded", "Failed"}] : t \in Task}]

Pc == {"idle", "scan", "place", "claim", "acquire", "write", "refused", "start", "invoke", "execute",
       "save", "move", "release", "remove", "after", "restore", "dead"}
Process == [pc : Pc, scan : SUBSET Task, task : Task \cup {None}, run : RunState \cup {None},
            node : Node \cup {None}, gen : Nat, todo : SUBSET Resources,
            next : RunState \cup {None}, dest : {None, "queued", "history"}, invoked : BOOLEAN]

Idle == [pc |-> "idle", scan |-> {}, task |-> None, run |-> None, node |-> None,
         gen |-> 0, todo |-> {}, next |-> None, dest |-> None, invoked |-> FALSE]

Stay(p) == proc[p].pc \notin {"idle", "dead"}
Holds(p) == proc[p].pc \in {"write", "start", "invoke", "execute", "save", "move", "release", "remove"}
Needs(p) == ResourcesOf[proc[p].task][proc[p].node]

-----------------------------------------------------------------------------
(* Submission.                                                               *)

Queued(t) == [status |-> "Queued", attempt |-> 0, nodes |-> [n \in NodesOf(t) |-> "Pending"]]

SubmitSpec(t) ==
    /\ spec[t] = "absent"
    /\ spec' = [spec EXCEPT ![t] = "queued"]
    /\ UNCHANGED <<run, lease, claims, lock, gen, proc, ghosts>>

SubmitRun(t) ==
    /\ spec[t] # "absent" /\ run[t] = None
    /\ run' = [run EXCEPT ![t] = Queued(t)]
    /\ UNCHANGED <<spec, lease, claims, lock, gen, proc, ghosts>>

-----------------------------------------------------------------------------
(* Selection.                                                                *)

\* Mutation of ReadyNodes: the dependencies of a node are not consulted.
ReadyAnyNode(t, r) == {i \in DOMAIN Nodes[t] : r.nodes[Nodes[t][i]] = "Pending"}

\* ready_node_id_in_order: the positions of the nodes that may run.
ReadyNodes(t, r) ==
    {i \in DOMAIN Nodes[t] : /\ r.nodes[Nodes[t][i]] = "Pending"
                             /\ \A d \in Deps[t][Nodes[t][i]] : r.nodes[d] = "Succeeded"}

Blocked(R) == {r \in R : lease[r] # None \/ r \in claims}

\* The tasks are listed in the order of their names.
First(S, t) == \E i \in DOMAIN Tasks : Tasks[i] = t /\ \A j \in DOMAIN Tasks : Tasks[j] \in S => i <= j

SelectList(p) ==
    /\ proc[p].pc = "idle" /\ \E t \in Task : spec[t] = "queued"
    /\ proc' = [proc EXCEPT ![p].pc = "scan",
                            ![p].scan = {t \in Task : spec[t] = "queued"}]
    /\ UNCHANGED <<spec, run, lease, claims, lock, gen, ghosts>>

\* The run state and the specification are read; a missing one, or a task
\* with no ready node, ends the whole selection with an error.
Selectable(t) == run[t] # None /\ spec[t] = "queued" /\ ReadyNodes(t, run[t]) # {}

SelectLoad(p) ==
    /\ proc[p].pc = "scan"
    /\ \/ /\ \A t \in proc[p].scan : First(proc[p].scan, t) => ~Selectable(t)
          /\ proc' = [proc EXCEPT ![p] = Idle]
       \/ \E t \in proc[p].scan :
             /\ First(proc[p].scan, t) /\ Selectable(t)
             /\ \E i \in ReadyNodes(t, run[t]) :
                   /\ \A j \in ReadyNodes(t, run[t]) : i <= j
                   /\ proc' = [proc EXCEPT ![p] = [@ EXCEPT !.pc = "place", !.scan = proc[p].scan \ {t}, !.task = t,
                                                            !.run = run[t], !.node = Nodes[t][i]]]
    /\ UNCHANGED <<spec, run, lease, claims, lock, gen, ghosts>>

\* The copy read is written back, waiting or ready.
SelectPlace(p) ==
    /\ proc[p].pc = "place"
    /\ run' = [run EXCEPT ![proc[p].task] = proc[p].run]
    /\ proc' = [proc EXCEPT ![p].pc = IF Blocked(Needs(p)) # {} THEN "scan" ELSE "claim"]
    /\ UNCHANGED <<spec, lease, claims, lock, gen, ghosts>>

\* The rename fails when another process moved the file first.
Claim(p) ==
    /\ proc[p].pc = "claim"
    /\ LET won == spec[proc[p].task] = "queued" IN
       /\ spec' = IF won THEN [spec EXCEPT ![proc[p].task] = "running"] ELSE spec
       /\ proc' = [proc EXCEPT ![p] = IF won THEN [@ EXCEPT !.pc = "acquire"] ELSE Idle]
    /\ UNCHANGED <<run, lease, claims, lock, gen, ghosts>>

-----------------------------------------------------------------------------
(* Leases.                                                                   *)

Owned(g) == {r \in Resources : lease[r] = g}
RemoveOwned(g) == [r \in Resources |-> IF lease[r] = g THEN None ELSE lease[r]]

\* Mutation of AcquireLock: what others hold was already looked up.
AcquireUnchecked(p) ==
    /\ proc[p].pc = "acquire" /\ lock = None /\ gen < MaxRuns
    /\ gen' = gen + 1 /\ lock' = p
    /\ proc' = [proc EXCEPT ![p] = [@ EXCEPT !.pc = "write", !.gen = gen + 1, !.todo = Needs(p)]]
    /\ UNCHANGED <<spec, run, lease, claims, ghosts>>

AcquireLock(p) ==
    /\ proc[p].pc = "acquire" /\ lock = None /\ gen < MaxRuns
    /\ \/ /\ Blocked(Needs(p)) # {}
          /\ proc' = [proc EXCEPT ![p].pc = "refused"]
          /\ UNCHANGED <<gen, lock>>
       \/ /\ Blocked(Needs(p)) = {}
          /\ gen' = gen + 1 /\ lock' = p
          /\ proc' = [proc EXCEPT ![p] = [@ EXCEPT !.pc = "write", !.gen = gen + 1, !.todo = Needs(p)]]
    /\ UNCHANGED <<spec, run, lease, claims, ghosts>>

AcquireTimeout(p) ==
    /\ proc[p].pc = "acquire" /\ lock # None
    /\ proc' = [proc EXCEPT ![p].pc = "refused"]
    /\ UNCHANGED <<spec, run, lease, claims, lock, gen, ghosts>>

AcquireWrite(p, r) ==
    /\ proc[p].pc = "write" /\ r \in proc[p].todo
    /\ lease' = [lease EXCEPT ![r] = proc[p].gen]
    /\ LET rest == proc[p].todo \ {r} IN
       /\ lock' = IF rest = {} THEN None ELSE lock
       /\ proc' = [proc EXCEPT ![p] = [@ EXCEPT !.todo = rest, !.pc = IF rest = {} THEN "start" ELSE "write"]]
    /\ UNCHANGED <<spec, run, claims, gen, ghosts>>

\* Mutation of AcquireFail: the records written before the failure stay.
AcquireFailPartly(p) ==
    /\ "write" \in Faults /\ proc[p].pc = "write"
    /\ lock' = None
    /\ proc' = [proc EXCEPT ![p].pc = "refused"]
    /\ UNCHANGED <<spec, run, lease, claims, gen, ghosts>>

\* A write fails, its rename perhaps done; every record of the handle is removed.
AcquireFail(p) ==
    /\ "write" \in Faults /\ proc[p].pc = "write"
    /\ lease' = RemoveOwned(proc[p].gen) /\ lock' = None
    /\ proc' = [proc EXCEPT ![p].pc = "refused"]
    /\ UNCHANGED <<spec, run, claims, gen, ghosts>>

\* No lease: the claimed file goes back to the queue.
Refused(p) ==
    /\ proc[p].pc = "refused"
    /\ spec' = [spec EXCEPT ![proc[p].task] = "queued"]
    /\ proc' = [proc EXCEPT ![p] = Idle]
    /\ UNCHANGED <<run, lease, claims, lock, gen, ghosts>>

-----------------------------------------------------------------------------
(* The attempt and its outcome.                                              *)

Started(p) == LET c == proc[p] IN
    [c.run EXCEPT !.status = "Running", !.attempt = @ + 1, !.nodes = [c.run.nodes EXCEPT ![c.node] = "Running"]]

Start(p) ==
    /\ proc[p].pc = "start"
    /\ run' = [run EXCEPT ![proc[p].task] = Started(p)]
    /\ proc' = [proc EXCEPT ![p] = [@ EXCEPT !.pc = "invoke", !.next = Started(p)]]
    /\ UNCHANGED <<spec, lease, claims, lock, gen, ghosts>>

\* The run state could not be saved; the worker was not invoked.
StartFail(p) ==
    /\ "write" \in Faults /\ proc[p].pc = "start"
    /\ proc' = [proc EXCEPT ![p].pc = "release"]
    /\ UNCHANGED <<spec, run, lease, claims, lock, gen, ghosts>>

Invoke(p) ==
    /\ proc[p].pc = "invoke"
    /\ proc' = [proc EXCEPT ![p] = [@ EXCEPT !.pc = "execute", !.invoked = TRUE]]
    /\ open' = [open EXCEPT ![proc[p].task] = @ + 1]
    /\ UNCHANGED <<spec, run, lease, claims, lock, gen, done, lost>>

CanRetry(r) == r.attempt < AttemptLimit

\* Succeeded, Queued for the next node or another attempt, or Failed.
Resolved(p, ok) ==
    LET s == proc[p].next
        n == proc[p].node
        after == [s.nodes EXCEPT ![n] = IF ok THEN "Succeeded" ELSE IF CanRetry(s) THEN "Pending" ELSE "Failed"]
    IN [s EXCEPT !.nodes = after,
                 !.status = IF ok THEN IF Range(after) = {"Succeeded"} THEN "Succeeded" ELSE "Queued"
                            ELSE IF CanRetry(s) THEN "Queued" ELSE "Failed"]

Execute(p, ok) ==
    /\ proc[p].pc = "execute"
    /\ LET next == Resolved(p, ok) IN
       proc' = [proc EXCEPT ![p] = [@ EXCEPT !.pc = "save", !.next = next,
                                             !.dest = IF next.status = "Queued" THEN "queued" ELSE "history"]]
    /\ done' = IF ok THEN [done EXCEPT ![proc[p].task] = @ \cup {proc[p].node}] ELSE done
    /\ UNCHANGED <<spec, run, lease, claims, lock, gen, open, lost>>

SaveOutcome(p) ==
    /\ proc[p].pc = "save"
    /\ run' = [run EXCEPT ![proc[p].task] = proc[p].next]
    /\ open' = [open EXCEPT ![proc[p].task] = @ - 1]
    /\ proc' = [proc EXCEPT ![p].pc = "move"]
    /\ UNCHANGED <<spec, lease, claims, lock, gen, done, lost>>

\* The outcome could not be saved: the claimed record stays where it is.
SaveFail(p) ==
    /\ "write" \in Faults /\ proc[p].pc = "save"
    /\ proc' = [proc EXCEPT ![p].pc = "release"]
    /\ UNCHANGED <<spec, run, lease, claims, lock, gen, ghosts>>

Move(p) ==
    /\ proc[p].pc = "move"
    /\ spec' = [spec EXCEPT ![proc[p].task] = proc[p].dest]
    /\ proc' = [proc EXCEPT ![p].pc = "release"]
    /\ UNCHANGED <<run, lease, claims, lock, gen, ghosts>>

-----------------------------------------------------------------------------
(* Release.                                                                  *)

\* The handle is verified against every lease file before any is removed.
ReleaseLock(p) ==
    /\ proc[p].pc = "release" /\ lock = None
    /\ Needs(p) \subseteq Owned(proc[p].gen)
    /\ lock' = p
    /\ proc' = [proc EXCEPT ![p] = [@ EXCEPT !.pc = "remove", !.todo = Needs(p)]]
    /\ UNCHANGED <<spec, run, lease, claims, gen, ghosts>>

RemoveFile(p, r) ==
    /\ proc[p].pc = "remove" /\ r \in proc[p].todo
    /\ lease' = [lease EXCEPT ![r] = None]
    /\ LET rest == proc[p].todo \ {r} IN
       /\ lock' = IF rest = {} THEN None ELSE lock
       /\ proc' = [proc EXCEPT ![p] = [@ EXCEPT !.todo = rest, !.pc = IF rest = {} THEN "after" ELSE "remove"]]
    /\ UNCHANGED <<spec, run, claims, gen, ghosts>>

\* The lock was not obtained in three seconds: the lease files stay.
ReleaseTimeout(p) ==
    /\ proc[p].pc = "release" /\ lock # None
    /\ proc' = [proc EXCEPT ![p].pc = "after"]
    /\ lost' = lost \cup {proc[p].gen}
    /\ UNCHANGED <<spec, run, lease, claims, lock, gen, open, done>>

\* Mutation of After: an invoked task whose outcome is unknown is queued again.
AfterRequeue(p) ==
    /\ proc[p].pc = "after"
    /\ LET back == proc[p].dest = None \/ open[proc[p].task] > 0 IN
       /\ spec' = IF back THEN [spec EXCEPT ![proc[p].task] = "queued"] ELSE spec
       /\ proc' = [proc EXCEPT ![p] = IF back THEN [@ EXCEPT !.pc = "restore"] ELSE Idle]
    /\ UNCHANGED <<run, lease, claims, lock, gen, ghosts>>

\* Only an attempt that failed before the worker was invoked is queued again.
After(p) ==
    /\ proc[p].pc = "after"
    /\ spec' = IF proc[p].invoked THEN spec ELSE [spec EXCEPT ![proc[p].task] = "queued"]
    /\ proc' = [proc EXCEPT ![p] = IF proc[p].invoked THEN Idle ELSE [@ EXCEPT !.pc = "restore"]]
    /\ UNCHANGED <<run, lease, claims, lock, gen, ghosts>>

Restore(p) ==
    /\ proc[p].pc = "restore"
    /\ run' = [run EXCEPT ![proc[p].task] = [proc[p].run EXCEPT !.status = "Queued"]]
    /\ proc' = [proc EXCEPT ![p] = Idle]
    /\ UNCHANGED <<spec, lease, claims, lock, gen, ghosts>>

Crash(p) ==
    /\ Stay(p)
    /\ proc' = [proc EXCEPT ![p] = [Idle EXCEPT !.pc = "dead"]]
    /\ lock' = IF lock = p THEN None ELSE lock
    /\ lost' = IF proc[p].gen > 0 THEN lost \cup {proc[p].gen} ELSE lost
    /\ UNCHANGED <<spec, run, lease, claims, gen, open, done>>

\* The managed runtime admits a demand only on resources without a lease file.
ManagedClaim(r) ==
    /\ lock = None /\ r \notin claims /\ lease[r] = None
    /\ claims' = claims \cup {r}
    /\ UNCHANGED <<spec, run, lease, lock, gen, proc, ghosts>>

ManagedRelease(r) ==
    /\ lock = None /\ r \in claims
    /\ claims' = claims \ {r}
    /\ UNCHANGED <<spec, run, lease, lock, gen, proc, ghosts>>

-----------------------------------------------------------------------------
Init ==
    /\ spec = [t \in Task |-> "absent"] /\ run = [t \in Task |-> None]
    /\ lease = [r \in Resources |-> None] /\ claims = {} /\ lock = None /\ gen = 0
    /\ proc = [p \in Procs |-> Idle]
    /\ open = [t \in Task |-> 0] /\ done = [t \in Task |-> {}] /\ lost = {}

Step(p) ==
    \/ SelectList(p) \/ SelectLoad(p) \/ SelectPlace(p) \/ Claim(p)
    \/ AcquireLock(p) \/ AcquireTimeout(p) \/ AcquireFail(p) \/ Refused(p)
    \/ \E r \in Resources : AcquireWrite(p, r) \/ RemoveFile(p, r)
    \/ Start(p) \/ StartFail(p) \/ Invoke(p) \/ (\E ok \in BOOLEAN : Execute(p, ok))
    \/ SaveOutcome(p) \/ SaveFail(p) \/ Move(p)
    \/ ReleaseLock(p) \/ ReleaseTimeout(p) \/ After(p) \/ Restore(p)

Next ==
    \/ \E t \in Task : SubmitSpec(t) \/ SubmitRun(t)
    \/ \E p \in Procs : Step(p) \/ Crash(p)
    \/ \E r \in Resources : ManagedClaim(r) \/ ManagedRelease(r)

Spec == Init /\ [][Next]_vars

-----------------------------------------------------------------------------
(* Properties.                                                               *)

\* Every file and every process has a value of its type.
TypeOK ==
    /\ spec \in [Task -> {"absent", "queued", "running", "history"}]
    /\ run \in [Task -> {None} \cup RunState]
    /\ lease \in [Resources -> {None} \cup 1 .. MaxRuns]
    /\ claims \subseteq Resources /\ lock \in Procs \cup {None} /\ gen \in 0 .. MaxRuns
    /\ proc \in [Procs -> Process]
    /\ open \in [Task -> Nat] /\ done \in [Task -> SUBSET Node]
    /\ lost \subseteq 1 .. MaxRuns

\* While a worker runs, every resource of its node carries the lease of this
\* attempt and no claim of the managed runtime: two workers, or a worker and a
\* managed model, never share a resource.
Exclusive ==
    \A p \in Procs : proc[p].pc = "execute" =>
        \A r \in Needs(p) : lease[r] = proc[p].gen /\ r \notin claims

\* A task whose worker was invoked is not invoked again before the outcome is
\* saved, by the same process, by another one or after a crash: a claimed
\* record whose outcome is unknown is kept for the operator.
InvokedOnce == \A t \in Task : open[t] <= 1

\* A node is run only after a worker really completed every node it depends
\* on, even from a run state that another process has since overwritten.
DependenciesDone ==
    \A p \in Procs : proc[p].pc = "execute" => Deps[proc[p].task][proc[p].node] \subseteq done[proc[p].task]

\* A lease file belongs to an attempt in progress, unless its process died or
\* could not take the lock to release it: a failed acquisition leaves nothing.
LeaseAccounted ==
    \A r \in Resources : lease[r] # None =>
        lease[r] \in lost \cup {proc[p].gen : p \in {q \in Procs : Holds(q)}}
=============================================================================
