---------------------------- MODULE MediaBackend ----------------------------
(* What the media service acts upon: the systemd unit of the image backend,  *)
(* the admission gate inside it (media/comfy_gate/gate.py), the authority    *)
(* file the gate reads, its queue, and the reservation of the media GPU,     *)
(* which is a lease file of an own activation or a claim of the runtime's    *)
(* document (resource_reservations.rs, managed_lease.rs).                    *)
(*                                                                           *)
(* Activations are numbered from 1; NoAct is the empty one, Other a holder   *)
(* of the GPU that is not the media service.                                 *)
EXTENDS Integers, FiniteSets

CONSTANTS
    Job,
    MaxAct,       \* no activation is decided on after this many
    MaxStarts     \* bound on invocations of the unit

ASSUME BackendAssumption == MaxAct \in Nat /\ MaxStarts \in Nat

NoAct == 0
Other == -1
Act == 0..(MaxAct + 1)
Modes == {"closed", "interactive", "managed"}

VARIABLES
    unit,     \* state of the unit, its invocation, the activation its gate read at
              \* boot, and (history) the activation it was started for
    starts,   \* invocations so far
    auth,     \* authority file: activation and mode
    idled,    \* activation the gate closed for idleness; NoAct for none
    queue,    \* jobs in the backend's queue
    native,   \* a request of the native interface: let through by the receiver ("sent"),
              \* on its connection to the backend ("wire"), queued, or none
    hist,     \* jobs in the history of the backend
    dirty,    \* inputs and outputs of an activation are on disk
    lease,    \* holder of the GPU
    receipts, \* activations with a durable release receipt
    grant,    \* the managed reservation of the media GPU; proc: its process is recorded
    posts     \* history: job -> how often it was submitted to the backend

backendVars == <<unit, starts, auth, idled, queue, native, hist, dirty, lease, receipts, grant, posts>>
workVars == <<queue, native, hist, posts>>
holdVars == <<lease, receipts, grant>>

NoUnit == [st |-> "gone", inv |-> 0, act |-> NoAct, for |-> NoAct]
NoGrant == [act |-> NoAct, mode |-> "closed", st |-> "none", proc |-> FALSE]

Gone == unit.st = "gone"

\* The mode the gate enforces: an authority of another activation, a stale
\* one or one closed for idleness admits nothing.
GateMode ==
    IF unit.act # NoAct /\ auth.act = unit.act /\ idled # unit.act THEN auth.mode ELSE "closed"

QueueEmpty == queue = {} /\ native # "queued"

-----------------------------------------------------------------------------
(* Systemd: start and stop are requests, carried out later. *)

CanStart == Gone
StartUnit(act) == unit' = [unit EXCEPT !.st = "pending", !.for = act]

\* stop: nothing to stop, or only the invocation that was recorded.
StopUnit(inv) == unit' = IF Gone THEN unit ELSE [unit EXCEPT !.st = "stopping"]
StopRefused(inv) == ~Gone /\ (inv # unit.inv \/ unit.inv = 0)

UnitStarts ==
    /\ unit.st = "pending" /\ starts < MaxStarts
    /\ starts' = starts + 1
    /\ unit' = [unit EXCEPT !.st = "up", !.inv = starts', !.act = auth.act]
    /\ dirty' = TRUE
    /\ UNCHANGED <<auth, idled, workVars, holdVars>>

\* The unit ends, as asked or by itself; the queue and the history are memory.
UnitEnds ==
    /\ unit.st \in {"up", "stopping", "pending"}
    /\ unit' = NoUnit
    /\ queue' = {} /\ native' = (IF native = "sent" THEN native ELSE "none") /\ hist' = {}
    /\ UNCHANGED <<starts, auth, idled, dirty, posts, holdVars>>

-----------------------------------------------------------------------------
(* The gate. *)

\* An authority not refreshed for AUTHORITY_SECONDS.
AuthorityExpires ==
    /\ auth.mode # "closed"
    /\ auth' = [auth EXCEPT !.mode = "closed"]
    /\ UNCHANGED <<unit, starts, idled, dirty, workVars, holdVars>>

Answers == unit.st \in {"up", "stopping"}

\* POST /prompt under the barrier.
Post(j) ==
    /\ queue' = queue \cup {j}
    /\ posts' = [posts EXCEPT ![j] = @ + 1]

Render ==
    /\ unit.st = "up"
    /\ \/ \E j \in queue : queue' = queue \ {j} /\ hist' = hist \cup {j} /\ UNCHANGED native
       \/ native = "queued" /\ native' = "none" /\ UNCHANGED <<queue, hist>>
    /\ UNCHANGED <<unit, starts, auth, idled, dirty, posts, holdVars>>

-----------------------------------------------------------------------------
(* The reservation. *)

Managed(h) == h # NoAct /\ grant.st # "none" /\ grant.act = h

\* ResourceReservations::verify
Verified(h) == h # NoAct /\ lease = h

\* ManagedLease::verify(handle, true) does not fail.
Admitted(h) == Managed(h) => grant.st = "ready"

\* release: a managed handle only leaves a request with the runtime; an own
\* lease is removed after its receipt, and a retry finds the receipt.
Releasable(h) ==
    \/ Managed(h) /\ lease = h
    \/ ~Managed(h) /\ (lease = h \/ (h \in receipts /\ lease = NoAct))
Release(h) ==
    IF Managed(h) THEN UNCHANGED holdVars
    ELSE /\ lease' = IF lease = h THEN NoAct ELSE lease
         /\ receipts' = receipts \cup {h}
         /\ UNCHANGED grant

\* Another reservation of the GPU comes and goes.
OtherHolds ==
    /\ \/ lease = NoAct /\ lease' = Other
       \/ lease = Other /\ lease' = NoAct
    /\ UNCHANGED <<unit, starts, auth, idled, dirty, workVars, receipts, grant>>

BackendInit ==
    /\ unit = NoUnit /\ starts = 0
    /\ auth = [act |-> NoAct, mode |-> "closed"] /\ idled = NoAct
    /\ queue = {} /\ native = "none" /\ hist = {} /\ dirty = FALSE
    /\ lease = NoAct /\ receipts = {} /\ grant = NoGrant
    /\ posts = [j \in Job |-> 0]

BackendTypeOK ==
    /\ unit \in [st : {"gone", "pending", "up", "stopping"}, inv : 0..MaxStarts, act : Act,
                for : Act]
    /\ starts \in 0..MaxStarts
    /\ auth \in [act : Act, mode : Modes] /\ idled \in Act
    /\ queue \subseteq Job /\ native \in {"none", "sent", "wire", "queued"} /\ hist \subseteq Job /\ dirty \in BOOLEAN
    /\ lease \in Act \cup {Other} /\ receipts \subseteq Act
    /\ grant \in [act : Act, mode : Modes,
                  st : {"none", "preparing", "started", "ready", "releasing", "recovery"}, proc : BOOLEAN]
    /\ posts \in [Job -> Nat]
=============================================================================
