---------------------------- MODULE EndpointFence ----------------------------
(* The barrier between direct use of a local endpoint and the managed        *)
(* runtime (endpoint_fence.rs, preflight.rs). A direct client holds the lock *)
(* of its port while it is connected; the runtime records a demand before it *)
(* tries that lock, and a client reads the record after it has the lock.     *)
(* Reads of the authority document are one step: they hold authority.lock.   *)
EXTENDS Naturals, FiniteSets

CONSTANTS
    Client,        \* direct clients: runners, bridge connections, reviewers
    Port,
    GatewayPort,   \* the port of the runtime itself
    None

ASSUME FenceAssumption == None \notin Client

VARIABLES
    portOf,    \* port of the endpoint a client is configured with
    conn,      \* progress of EndpointFence::enter and of the connection
    elock,     \* holder of endpoint-<port>.lock
    reading,   \* ports read by the runtime under a shared lock
    managed    \* demand of the runtime on a port and its backend

fenceVars == <<portOf, conn, elock, reading, managed>>

Unlocked(pt) == elock[pt] = None /\ pt \notin reading

\* The guard of a client that ends, for whatever reason, is dropped.
Dropped(c) == [pt \in Port |-> IF elock[pt] = c THEN None ELSE elock[pt]]

\* The runtime's own port needs no barrier: calls there are fenced by it.
EnterBegin(c) ==
    /\ conn[c] = "idle"
    /\ conn' = [conn EXCEPT ![c] = IF portOf[c] = GatewayPort THEN "gateway" ELSE "locking"]
    /\ UNCHANGED <<portOf, elock, reading, managed>>

EnterLock(c) ==
    /\ conn[c] = "locking" /\ Unlocked(portOf[c])
    /\ elock' = [elock EXCEPT ![portOf[c]] = c]
    /\ conn' = [conn EXCEPT ![c] = "checking"]
    /\ UNCHANGED <<portOf, reading, managed>>

EnterTimeout(c) ==
    /\ conn[c] = "locking" /\ ~Unlocked(portOf[c])
    /\ conn' = [conn EXCEPT ![c] = "refused"]
    /\ UNCHANGED <<portOf, elock, reading, managed>>

\* Mutation of EnterCheck: only a running backend makes a port managed.
EnterCheckStarted(c) ==
    /\ conn[c] = "checking"
    /\ LET refused == managed[portOf[c]] = "started" IN
       /\ conn' = [conn EXCEPT ![c] = IF refused THEN "refused" ELSE "connected"]
       /\ elock' = IF refused THEN Dropped(c) ELSE elock
    /\ UNCHANGED <<portOf, reading, managed>>

\* A port with a recorded demand is managed even while nothing runs there.
EnterCheck(c) ==
    /\ conn[c] = "checking"
    /\ LET refused == managed[portOf[c]] # "none" IN
       /\ conn' = [conn EXCEPT ![c] = IF refused THEN "refused" ELSE "connected"]
       /\ elock' = IF refused THEN Dropped(c) ELSE elock
    /\ UNCHANGED <<portOf, reading, managed>>

Enter(c) == EnterBegin(c) \/ EnterLock(c) \/ EnterTimeout(c) \/ EnterCheck(c)

\* A client may end at any moment: it returns an error, is killed or crashes.
Depart(c) ==
    /\ conn' = [conn EXCEPT ![c] = "idle"]
    /\ elock' = Dropped(c)
    /\ UNCHANGED <<portOf, reading, managed>>

Leave(c) == conn[c] \in {"gateway", "connected", "refused"} /\ Depart(c)

-----------------------------------------------------------------------------
(* The managed runtime.                                                      *)

Managed(pt, from, to) ==
    /\ pt # GatewayPort /\ managed[pt] \in from
    /\ managed' = [managed EXCEPT ![pt] = to]
    /\ UNCHANGED <<portOf, conn, elock, reading>>

Record(pt) == Managed(pt, {"none"}, "recorded")

\* EndpointFence::quiescent: the lock is tried, not kept.
Quiescent(pt) == Unlocked(pt) /\ Managed(pt, {"recorded"}, "checked")

StartBackend(pt) == Managed(pt, {"checked"}, "started")
StopBackend(pt) == Managed(pt, {"checked", "started"}, "recorded")
Archive(pt) == Managed(pt, {"recorded"}, "none")

\* managed_read_guard: a shared lock while an owned endpoint is read.
ReadEndpoint(pt) ==
    /\ managed[pt] = "started" /\ elock[pt] = None /\ pt \notin reading
    /\ reading' = reading \cup {pt}
    /\ UNCHANGED <<portOf, conn, elock, managed>>

ReadDone(pt) ==
    /\ pt \in reading
    /\ reading' = reading \ {pt}
    /\ UNCHANGED <<portOf, conn, elock, managed>>

RuntimeStep(pt) ==
    \/ Record(pt) \/ Quiescent(pt) \/ StartBackend(pt) \/ StopBackend(pt) \/ Archive(pt)
    \/ ReadEndpoint(pt) \/ ReadDone(pt)

FenceInit ==
    /\ portOf \in [Client -> Port]
    /\ conn = [c \in Client |-> "idle"] /\ elock = [pt \in Port |-> None]
    /\ reading = {} /\ managed = [pt \in Port |-> "none"]

FenceNext == (\E c \in Client : Enter(c) \/ Depart(c)) \/ \E pt \in Port : RuntimeStep(pt)

FenceSpec == FenceInit /\ [][FenceNext]_fenceVars

-----------------------------------------------------------------------------
FenceTypeOK ==
    /\ portOf \in [Client -> Port]
    /\ conn \in [Client -> {"idle", "locking", "checking", "refused", "connected", "gateway"}]
    /\ elock \in [Port -> Client \cup {None}]
    /\ reading \subseteq Port
    /\ managed \in [Port -> {"none", "recorded", "checked", "started"}]

\* A direct client is never connected to an endpoint on which the runtime has
\* started, or is about to start, a backend: the record made before the lock
\* is tried and the record read after the lock is taken cannot both be missed.
EndpointExclusive ==
    \A c \in Client : conn[c] = "connected" => managed[portOf[c]] \notin {"checked", "started"}

\* Why: a client between its lock and its departure holds the lock of its port.
GuardHeld ==
    \A c \in Client : conn[c] \in {"checking", "connected"} => elock[portOf[c]] = c
=============================================================================
