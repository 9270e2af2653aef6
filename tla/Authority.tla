------------------------------ MODULE Authority ------------------------------
(* The state the runtime receiver of rack_ai_runtime works on: the durable   *)
(* document behind `authority.read` / `authority.update` (demands, claims,   *)
(* invocations, warm residencies), the physical backends, the transition     *)
(* threads and the supervisor tick, with the predicates every other module   *)
(* reads them through.                                                       *)
(*                                                                           *)
(* One step of the specification is one atomic section of the code: one      *)
(* `authority.read`, one `authority.update`, or one external effect (start,  *)
(* stop, readiness probe, GPU inspection).                                   *)
EXTENDS Integers, FiniteSets, FiniteSetsExt

CONSTANTS
    Demand,         \* every service activation that may be requested (one id each)
    Resource,       \* the GPUs
    Profile,        \* the configured service profiles
    None,           \* "no demand"
    ProfileOf,      \* the profile a demand asks for
    Root,           \* the root demand of the public reservation a demand belongs to
    Priority,       \* the priority of a demand
    Needs,          \* the GPUs of a profile
    HostMib,        \* the host memory of a profile
    Warmable,       \* the profiles `residency::supported` accepts (vLLM in Docker)
    HostCapacity,   \* config.host_capacity_mib
    MaxCalls,       \* bound: how many invocations a behaviour submits
    Workspace,      \* the invocations that carry a workspace (`is_workspace`)
    MaxPending, MaxPendingPerReservation,
    MaxTransitionWorkers, MaxDispatchWorkers,
    Closable,       \* bound: the demands whose clients release or cancel them
    ClosureKinds,   \* bound: how they do it
    Faults,         \* the kinds of failure the environment may produce
    MaxCrashes      \* bound: how many times the receiver crashes

Call == 1 .. MaxCalls
FaultKind == {"probe", "stop", "start", "die", "expire", "idle", "uncertain", "wait", "repeat"}

ASSUME NoneAssumption == None \notin Demand
ASSUME ShapeAssumption ==
    /\ ProfileOf \in [Demand -> Profile]
    /\ Root \in [Demand -> Demand]
    /\ \A d \in Demand : Root[Root[d]] = Root[d]
    /\ Priority \in [Demand -> Nat]
    /\ Needs \in [Profile -> SUBSET Resource]
    /\ \A p \in Profile : Needs[p] # {}
    /\ Warmable \subseteq Profile
\* reservation_admission.rs refuses a group whose members overlap
\* ("atomic_resource_overlap"), and one reservation has one priority.
ASSUME GroupAssumption ==
    \A d, e \in Demand : d # e /\ Root[d] = Root[e] =>
        /\ Needs[ProfileOf[d]] \cap Needs[ProfileOf[e]] = {}
        /\ Priority[d] = Priority[e]
ASSUME BoundAssumption ==
    /\ HostMib \in [Profile -> Nat] /\ HostCapacity \in Nat
    /\ MaxCalls \in Nat /\ Workspace \subseteq Nat /\ MaxCrashes \in Nat
    /\ MaxPending \in Nat /\ MaxPendingPerReservation \in Nat
    /\ MaxTransitionWorkers \in Nat \ {0} /\ MaxDispatchWorkers \in Nat \ {0}
    /\ Faults \subseteq FaultKind
    /\ Closable \subseteq Demand /\ ClosureKinds \subseteq {"released", "cancelled"}

VARIABLES
    dem,      \* Document.data.demands
    claims,   \* Document.claims: which demand holds each GPU
    warm,     \* Document.data.warm_residencies, by backend activation
    call,     \* Document.data.invocations
    backend,  \* the physical backend of each activation is running
    w,        \* the transition thread that holds the record lock of each demand
    tick,     \* where the supervisor thread is in its tick
    todo,     \* the demands its current tick still has to spawn
    crashes   \* how often the receiver has crashed

document == <<dem, claims, warm, call>>
supervision == <<tick, todo>>
vars == <<dem, claims, warm, call, backend, w, tick, todo, crashes>>

-----------------------------------------------------------------------------
(* Types. A demand that was never accepted is "Absent" and one the history   *)
(* archive has removed from the document is "Archived".                      *)

DemandState == {"Absent", "Preparing", "Ready", "Preempting", "Preempted",
                "Releasing", "Released", "Cancelled", "Expired",
                "RecoveryRequired", "Archived"}
Reason == {"none", "preempted", "cancelled", "released", "idle_timeout", "failure"}
Closure == {"no", "released", "cancelled"}

\* An activation is named by the demand that created it, so `process` only
\* says whether the identity of the running process is recorded.
DemandRecord ==
    [state: DemandState, reason: Reason, closed: Closure,
     released: BOOLEAN, expired: BOOLEAN, reconciled: BOOLEAN,
     preemptedBy: Demand \cup {None}, victims: SUBSET Demand,
     act: Demand, process: BOOLEAN, effect: BOOLEAN,
     preflight: BOOLEAN, checked: BOOLEAN]

CallState == {"None", "Queued", "Running", "Completed", "Cancelled", "Failed",
              "Expired", "Uncertain", "Archived"}
CallRecord ==
    [of: Demand \cup {None}, state: CallState, cancel: BOOLEAN,
     restart: BOOLEAN, analysed: BOOLEAN]

WarmState == {"none", "resident", "evicting"}

\* What a transition thread remembers of the record it inspected.
Snapshot == [state: DemandState, reason: Reason, process: BOOLEAN,
             effect: BOOLEAN, preflight: BOOLEAN]
Pc == {"idle", "inspect", "monitor", "boundary", "evictMark", "evictStop",
       "evictRemove", "preflight", "preflightSave", "peers", "drain", "drainBoundary",
       "drainStop", "drainMark", "transfer", "adopt", "adoptSave", "adoptEvict",
       "empty", "claimEffect", "start", "saveProcess", "ready", "readySave",
       "readyRetire", "retRead", "retStopOnly", "retCache", "retCacheSave",
       "retStop", "retFinish", "recPrepare", "recQuiesce", "recResolve",
       "recStop", "recFinish", "fail", "failFence"}
Worker == [pc: Pc, snap: Snapshot, tgt: Demand \cup {None}, evict: SUBSET Demand]

\* Types of the whole state: every handler writes records of these shapes.
TypeOK ==
    /\ dem \in [Demand -> DemandRecord]
    /\ claims \in [Resource -> Demand \cup {None}]
    /\ warm \in [Demand -> WarmState]
    /\ call \in [Call -> CallRecord]
    /\ backend \in [Demand -> BOOLEAN]
    /\ w \in [Demand -> Worker]
    /\ tick \in {"reconsider", "scan", "spawn"}
    /\ todo \subseteq (0 .. 2) \X Demand
    /\ crashes \in Nat

-----------------------------------------------------------------------------
(* Reading the document (service.rs, reservation.rs, residency.rs).          *)

Resources(d) == Needs[ProfileOf[d]]
Roots == {Root[d] : d \in Demand}
Members(r) == {d \in Demand : Root[d] = Root[r]}

Present(d) == dem[d].state \notin {"Absent", "Archived"}
Active(r) == ~r.released /\ ~r.expired
Owns(d) == \A x \in Resources(d) : claims[x] = d
Overlap(d, e) == Resources(d) \cap Resources(e) # {}

CallsOf(d) == {c \in Call : call[c].of = d}
InState(d, S) == \E c \in CallsOf(d) : call[c].state \in S
\* Mutation of Inflight: a running call is forgotten.
InflightUncertain(d) == \E c \in CallsOf(d) \ Workspace : call[c].state = "Uncertain"
Inflight(d) == \E c \in CallsOf(d) \ Workspace : call[c].state \in {"Running", "Uncertain"}

Compatible(a, d) == warm[a] = "resident" /\ ProfileOf[a] = ProfileOf[d]

\* The claims map once `d` has given up every entry it holds.
Unclaimed(d) == [x \in Resource |-> IF claims[x] = d THEN None ELSE claims[x]]

\* Invocation::cancel and Invocation::cancel_queued_as_superseded.
CancelCall(r) ==
    IF r.state \notin {"Queued", "Running", "Uncertain"} THEN r
    ELSE [r EXCEPT !.cancel = TRUE,
                   !.state = IF @ = "Queued" THEN "Cancelled" ELSE @]
Supersede(r) == IF r.state = "Queued" THEN [r EXCEPT !.state = "Cancelled"] ELSE r

-----------------------------------------------------------------------------
(* The machine: backends on GPUs (external: systemd, Docker, nvidia-smi).    *)

NoOther(a) == \A b \in Demand \ {a} : backend[b] => ~Overlap(a, b)
GpuFree(d) == \A b \in Demand : backend[b] => ~Overlap(d, b)

\* Hosting::stop returns Ok only once the process is gone and no other process
\* is left on its GPUs; on an error the process may or may not be gone.
StopOk(a) == NoOther(a) /\ backend' = [backend EXCEPT ![a] = FALSE]
StopErr(a) ==
    /\ "stop" \in Faults \/ ~NoOther(a)
    /\ backend' = backend \/ backend' = [backend EXCEPT ![a] = FALSE]

\* A start ends with a backend whose identity was read back; a failed one may
\* leave the backend running.
StartOk(a) == backend' = [backend EXCEPT ![a] = TRUE]
StartErr(a) == "start" \in Faults /\ (backend' = backend \/ StartOk(a))

\* owned_effect::resolve finds a live backend by its activation.
Resolved(a) == backend[a]

\* A running backend answers the readiness probe unless the probe fails.
ProbeOk(a) == backend[a]
ProbeErr(a) == ~backend[a] \/ "probe" \in Faults

-----------------------------------------------------------------------------
(* Transition threads (workers.rs record_lock: one thread per demand).       *)

NoSnap == [state |-> "Absent", reason |-> "none", process |-> FALSE,
           effect |-> FALSE, preflight |-> FALSE]
Idle == [pc |-> "idle", snap |-> NoSnap, tgt |-> None, evict |-> {}]

At(d, p) == w[d].pc = p
Goto(d, p) == w' = [w EXCEPT ![d].pc = p]
Done(d) == w' = [w EXCEPT ![d] = Idle]

NoDemand(d) ==
    [state |-> "Absent", reason |-> "none", closed |-> "no",
     released |-> FALSE, expired |-> FALSE, reconciled |-> FALSE,
     preemptedBy |-> None, victims |-> {}, act |-> d, process |-> FALSE,
     effect |-> FALSE, preflight |-> FALSE, checked |-> FALSE]
NoCall == [of |-> None, state |-> "None", cancel |-> FALSE, restart |-> FALSE,
           analysed |-> FALSE]

Init ==
    /\ dem = [d \in Demand |-> NoDemand(d)]
    /\ claims = [x \in Resource |-> None]
    /\ warm = [d \in Demand |-> "none"]
    /\ call = [c \in Call |-> NoCall]
    /\ backend = [d \in Demand |-> FALSE]
    /\ w = [d \in Demand |-> Idle]
    /\ tick = "reconsider"
    /\ todo = {}
    /\ crashes = 0
=============================================================================
