--------------------------- MODULE ChangeExecution ---------------------------
(* Execution of a bounded change: a submission selects a worker, creates the *)
(* worktree and branch of its change, runs the agent and the acceptance      *)
(* commands in it, and commits what was accepted (execute_workspace.rs,      *)
(* execute_change.rs, jcode_process_runner.rs, podman_workspace_executor.rs).*)
(*                                                                           *)
(* Submissions are processes of their own, or threads of the runtime; they   *)
(* share the repository, the packets of all changes and the registry. The    *)
(* mode of a submission says what surrounds its agent:                       *)
(*   "reserved"  sandboxed, its model behind the runtime's own port          *)
(*   "sandbox"   sandboxed, its model on a direct endpoint                   *)
(*   "open"      network enabled: no sandbox, processes may be left behind   *)
EXTENDS EndpointFence, Sequences

CONSTANTS
    Change, ChangeOf, KeyOf,            \* change and idempotency key of a submission
    ModesOf,                            \* modes a submission may be in
    Path, Allowed, Ephemeral, Ignored,  \* paths; Ignored are not listed by git status
    Required, Absent,                   \* required artifacts; paths the base does not have
    MaxWrites,                          \* Path -> bound on the writes to it
    MaxEdits                            \* bound on the edits of the worker registry

ASSUME ChangeAssumption ==
    /\ Allowed \subseteq Path /\ Ephemeral \subseteq Path /\ Ignored \subseteq Path
    /\ Required \subseteq Path /\ Absent \subseteq Path
    /\ ChangeOf \in [Client -> Change] /\ MaxEdits \in Nat
    /\ None \notin [Path -> Nat]

VARIABLES
    mode,
    sub,       \* the submissions: control, selected worker, inspected paths, verdict
    worktree,  \* contents of the worktree of a change; None before it exists
    head,      \* contents of the commit its branch points at
    packet,    \* review packet of a change
    registry,  \* version of the worker registry
    agent,     \* the agent of a submission and what it left behind
    box,       \* its acceptance command: podman's client, then the container
    lost,      \* history: when the reserved call was cancelled, expired or ended
    runs,      \* history: agents started for a change, and the registry they used
    checked    \* history: contents of the worktree when the command ended, until the packet

Pc == {"new", "select", "prepare", "inspect1", "implement", "agent", "inspect2", "fence1", "check",
       "wait", "artifacts", "inspect3", "fence2", "commit", "save", "saving", "decide", "deciding",
       "over"}
Status == {"Prepared", "Failed", "PathPolicyFailed", "ChecksFailed", "ChecksPassed", "ExecutorUnavailable"}
Submission == [pc : Pc, worker : 0 .. MaxEdits, changed : SUBSET Path, status : Status, approved : BOOLEAN]
Tree == [Path -> Nat]

changeVars == <<mode, sub, worktree, head, packet, registry, agent, box, lost, runs, checked>>
vars == <<fenceVars, changeVars>>

Base == [q \in Path |-> 0]
Fresh == [pc |-> "new", worker |-> 0, changed |-> {}, status |-> "Prepared", approved |-> FALSE]
W(p) == worktree[ChangeOf[p]]
\* work_execution::execute runs the change of a reserved call of the runtime.
Reserved(p) == mode[p] = "reserved"
Contained(p) == mode[p] # "open"

\* ChangedPaths::from_porcelain over git status, and source_paths.
Dirty(c) == {q \in Path \ Ignored : worktree[c][q] # head[c][q]}
Source(paths) == paths \ Ephemeral

Go(p, pc) == sub' = [sub EXCEPT ![p].pc = pc]
Fail(p, status) == sub' = [sub EXCEPT ![p].pc = "save", ![p].status = status]
\* It returns, with a packet or an error, or its process dies.
End(p) == sub' = [sub EXCEPT ![p] = [Fresh EXCEPT !.pc = "over", !.approved = sub[p].approved]]

-----------------------------------------------------------------------------
(* Admission of a submission.                                                *)

Saved == {c \in Change : packet[c] # None}
Torn == [torn |-> TRUE, key |-> None, worker |-> 0, status |-> "Prepared", approved |-> FALSE]

\* has_idempotent_submission: one packet that cannot be parsed ends it.
Scan(p) ==
    /\ sub[p].pc = "new"
    /\ IF \E c \in Saved : packet[c].torn \/ packet[c].key = KeyOf[p]
       THEN End(p) ELSE Go(p, "select")
    /\ UNCHANGED <<fenceVars, mode, worktree, head, packet, registry, agent, box, lost, runs, checked>>

\* The runtime of the selected worker is resolved from the registry as it is now.
Select(p) ==
    /\ sub[p].pc = "select"
    /\ sub' = [sub EXCEPT ![p].pc = "prepare", ![p].worker = registry]
    /\ UNCHANGED <<fenceVars, mode, worktree, head, packet, registry, agent, box, lost, runs, checked>>

\* No enabled, qualified worker whose resource is active.
Unselected(p) ==
    /\ sub[p].pc = "select"
    /\ End(p)
    /\ UNCHANGED <<fenceVars, mode, worktree, head, packet, registry, agent, box, lost, runs, checked>>

\* ChangeRequest::from_document: the repository is unknown, untrusted or live, the
\* base has moved, or the paths, commands or limits are refused.
Unresolved(p) ==
    /\ sub[p].pc = "prepare"
    /\ End(p)
    /\ UNCHANGED <<fenceVars, mode, worktree, head, packet, registry, agent, box, lost, runs, checked>>

\* Mutation of Prepare: a worktree left by an earlier submission is reused.
PrepareReuse(p) ==
    /\ sub[p].pc = "prepare"
    /\ Go(p, "inspect1")
    /\ worktree' = [worktree EXCEPT ![ChangeOf[p]] = Base]
    /\ head' = [head EXCEPT ![ChangeOf[p]] = Base]
    /\ UNCHANGED <<fenceVars, mode, packet, registry, agent, box, lost, runs, checked>>

\* git worktree add -b: refused when the worktree or the branch exists.
Prepare(p) ==
    /\ sub[p].pc = "prepare"
    /\ IF W(p) # None
       THEN End(p) /\ UNCHANGED <<worktree, head>>
       ELSE /\ Go(p, "inspect1")
            /\ worktree' = [worktree EXCEPT ![ChangeOf[p]] = Base]
            /\ head' = [head EXCEPT ![ChangeOf[p]] = Base]
    /\ UNCHANGED <<fenceVars, mode, packet, registry, agent, box, lost, runs, checked>>

-----------------------------------------------------------------------------
(* Inspection and fences.                                                    *)

\* inspect_into followed by reject_disallowed.
Inspected(p, next) ==
    LET paths == Dirty(ChangeOf[p]) IN
    sub' = [sub EXCEPT ![p] =
        IF head[ChangeOf[p]] # Base THEN [@ EXCEPT !.pc = "save", !.status = "Failed"]
        ELSE IF ~(Source(paths) \subseteq Allowed)
             THEN [@ EXCEPT !.pc = "save", !.status = "PathPolicyFailed", !.changed = paths]
             ELSE [@ EXCEPT !.pc = next, !.changed = paths]]

InspectPrepared(p) ==
    /\ sub[p].pc = "inspect1"
    /\ Inspected(p, "implement")
    /\ UNCHANGED <<fenceVars, mode, worktree, head, packet, registry, agent, box, lost, runs, checked>>

\* Mutation of InspectImplemented: the error of the agent is recorded only.
InspectAnyway(p) ==
    /\ sub[p].pc = "inspect2"
    /\ Inspected(p, "fence1")
    /\ UNCHANGED <<fenceVars, mode, worktree, head, packet, registry, agent, box, lost, runs, checked>>

InspectImplemented(p) ==
    /\ sub[p].pc = "inspect2"
    /\ Inspected(p, IF sub[p].status = "Failed" THEN "save" ELSE "fence1")
    /\ UNCHANGED <<fenceVars, mode, worktree, head, packet, registry, agent, box, lost, runs, checked>>

InspectChecked(p) ==
    /\ sub[p].pc = "inspect3"
    /\ Inspected(p, IF sub[p].status = "ChecksPassed" THEN "fence2" ELSE "save")
    /\ UNCHANGED <<fenceVars, mode, worktree, head, packet, registry, agent, box, lost, runs, checked>>

\* reserved_execution::check: the call still runs, uncancelled and in time.
CheckExecution(p) == Reserved(p) => lost[p] = "no"

FenceBeforeChecks(p) ==
    /\ sub[p].pc = "fence1"
    /\ IF CheckExecution(p) THEN Go(p, "check") ELSE Fail(p, "Failed")
    /\ UNCHANGED <<fenceVars, mode, worktree, head, packet, registry, agent, box, lost, runs, checked>>

\* Mutation of FenceBeforeCommit: the fence before the commands is enough.
FenceOnce(p) ==
    /\ sub[p].pc = "fence2"
    /\ Go(p, "commit")
    /\ UNCHANGED <<fenceVars, mode, worktree, head, packet, registry, agent, box, lost, runs, checked>>

FenceBeforeCommit(p) ==
    /\ sub[p].pc = "fence2"
    /\ IF CheckExecution(p) THEN Go(p, "commit") ELSE Fail(p, "Failed")
    /\ UNCHANGED <<fenceVars, mode, worktree, head, packet, registry, agent, box, lost, runs, checked>>

-----------------------------------------------------------------------------
(* The agent.                                                                *)

\* ensure_sandbox_bind_target: a missing allowed path is created, empty.
Bound(p) == [q \in Path |-> IF Contained(p) /\ q \in Allowed \cap Absent /\ W(p)[q] = 0 THEN 1 ELSE W(p)[q]]

\* JCodeChangeImplementer::implement up to the start of the process. An edit of
\* the registry is one of a field of the worker that is compared.
Implement(p) ==
    /\ sub[p].pc = "implement"
    /\ IF ~CheckExecution(p) \/ registry # sub[p].worker
       THEN Fail(p, "Failed") /\ UNCHANGED <<worktree, agent, runs>>
       ELSE /\ mode[p] = "open" => conn[p] \in {"connected", "gateway"}
            /\ Go(p, "agent")
            /\ worktree' = [worktree EXCEPT ![ChangeOf[p]] = Bound(p)]
            /\ agent' = [agent EXCEPT ![p] = "running"]
            /\ runs' = [runs EXCEPT ![ChangeOf[p]] = Append(@, registry)]
    /\ UNCHANGED <<fenceVars, mode, head, packet, registry, box, lost, checked>>

\* The endpoint is refused, the scope of the call cannot be opened, or the
\* process cannot be started: the worktree is inspected all the same.
ImplementFail(p) ==
    /\ sub[p].pc = "implement"
    /\ sub' = [sub EXCEPT ![p].pc = "inspect2", ![p].status = "Failed"]
    /\ Depart(p)
    /\ UNCHANGED <<mode, worktree, head, packet, registry, agent, box, lost, runs, checked>>

\* Without a sandbox the runner itself enters the fence, for the whole run; in
\* the sandbox each connection of the agent enters it at the bridge.
AgentConnect(p) ==
    /\ \/ mode[p] = "open" /\ sub[p].pc = "implement"
       \/ Contained(p) /\ agent[p] = "running"
    /\ Enter(p)
    /\ UNCHANGED changeVars

AgentDisconnect(p) ==
    /\ Contained(p) /\ agent[p] = "running"
    /\ Leave(p)
    /\ UNCHANGED changeVars

\* prepare_bubblewrap_command: only the allowed paths are writable.
Writable(p) == IF Contained(p) THEN Allowed ELSE Path

AgentWrite(p, q) ==
    /\ agent[p] # "none" /\ q \in Writable(p) /\ W(p)[q] < MaxWrites[q]
    /\ worktree' = [worktree EXCEPT ![ChangeOf[p]][q] = @ + 1]
    /\ UNCHANGED <<fenceVars, mode, sub, head, packet, registry, agent, box, lost, runs, checked>>

\* The agent, or an acceptance command, commits in the worktree by itself.
MoveHead(p) ==
    /\ \/ agent[p] # "none" /\ ~Contained(p)
       \/ box[p] = "running"
    /\ head[ChangeOf[p]] = Base /\ Dirty(ChangeOf[p]) # {}
    /\ head' = [head EXCEPT ![ChangeOf[p]] = [q \in Path |-> IF q \in Ignored THEN 0 ELSE W(p)[q]]]
    /\ UNCHANGED <<fenceVars, mode, sub, worktree, packet, registry, agent, box, lost, runs, checked>>

\* The process ends, in time or killed with its group at the deadline, and the
\* scope of its calls is closed. A failure of either makes the change Failed.
\* An unsandboxed process may leave others behind; in the sandbox, which ends
\* with its first process, only a termination that failed leaves any.
AgentEnd(p, ok, left) ==
    /\ sub[p].pc = "agent"
    /\ left /\ Contained(p) => ~ok
    /\ sub' = [sub EXCEPT ![p].pc = "inspect2", ![p].status = IF ok THEN @ ELSE "Failed"]
    /\ agent' = [agent EXCEPT ![p] = IF left THEN "left" ELSE "none"]
    /\ Depart(p)
    /\ UNCHANGED <<mode, worktree, head, packet, registry, box, lost, runs, checked>>

-----------------------------------------------------------------------------
(* Acceptance commands in a container, and artifacts.                        *)

\* From here podman creates and starts the container, whoever still waits for it.
CommandSpawn(p) ==
    /\ sub[p].pc = "check"
    /\ Go(p, "wait")
    /\ box' = [box EXCEPT ![p] = "running"]
    /\ UNCHANGED <<fenceVars, mode, worktree, head, packet, registry, agent, lost, runs, checked>>

CommandWrite(p, q) ==
    /\ box[p] = "running" /\ W(p)[q] < MaxWrites[q]
    /\ worktree' = [worktree EXCEPT ![ChangeOf[p]][q] = @ + 1]
    /\ UNCHANGED <<fenceVars, mode, sub, head, packet, registry, agent, box, lost, runs, checked>>

\* The client returns with the status of the command, or fails, whatever became
\* of its container then: only a status of zero says that the command has ended.
CommandEnd(p, ok) ==
    /\ sub[p].pc = "wait"
    /\ \E b \in {"none"} \cup (IF ok THEN {} ELSE {box[p]}) : box' = [box EXCEPT ![p] = b]
    /\ checked' = [checked EXCEPT ![p] = W(p)]
    /\ sub' = [sub EXCEPT ![p].pc = IF ok THEN "artifacts" ELSE "inspect3",
                          ![p].status = IF ok THEN @ ELSE "ChecksFailed"]
    /\ UNCHANGED <<fenceVars, mode, worktree, head, packet, registry, agent, lost, runs>>

\* stop_and_remove stops the container by the identity podman wrote, if it did, and
\* ignores that podman stop or podman rm failed: it may go on, or start later.
StopAndRemove(p) == \E b \in {"none", box[p]} : box' = [box EXCEPT ![p] = b]

\* The client is killed, then the container stopped.
CommandTimeout(p) ==
    /\ sub[p].pc = "wait"
    /\ StopAndRemove(p)
    /\ sub' = [sub EXCEPT ![p].pc = "inspect3", ![p].status = "ChecksFailed"]
    /\ UNCHANGED <<fenceVars, mode, worktree, head, packet, registry, agent, lost, runs, checked>>

\* The executor is missing, after which nothing is inspected, or it fails, and
\* where the wait itself fails nothing is cleaned up.
CommandError(p, missing) ==
    /\ sub[p].pc \in {"check", "wait"} /\ (missing => sub[p].pc = "check")
    /\ IF missing THEN Fail(p, "ExecutorUnavailable")
       ELSE sub' = [sub EXCEPT ![p].pc = "inspect3", ![p].status = "Failed"]
    /\ StopAndRemove(p)
    /\ UNCHANGED <<fenceVars, mode, worktree, head, packet, registry, agent, lost, runs, checked>>

\* assert_artifacts reads each required artifact in a container that writes
\* nothing and drops the exit status: a missing file reads as an empty one.
AssertArtifacts(p) ==
    /\ sub[p].pc = "artifacts"
    /\ \E status \in {"ChecksPassed", "ChecksFailed"} :
          sub' = [sub EXCEPT ![p].pc = "inspect3", ![p].status = status]
    /\ UNCHANGED <<fenceVars, mode, worktree, head, packet, registry, agent, box, lost, runs, checked>>

-----------------------------------------------------------------------------
(* The accepted revision and the packet.                                     *)

\* materialize_accepted_revision: the inspected source paths, as they are now.
Commit(p) ==
    /\ sub[p].pc = "commit"
    /\ head' = [head EXCEPT ![ChangeOf[p]] =
                   [q \in Path |-> IF q \in Source(sub[p].changed) THEN W(p)[q] ELSE @[q]]]
    /\ sub' = [sub EXCEPT ![p].pc = "save", ![p].approved = TRUE]
    /\ UNCHANGED <<fenceVars, mode, worktree, packet, registry, agent, box, lost, runs, checked>>

CommitFail(p) ==
    /\ sub[p].pc = "commit"
    /\ Fail(p, "Failed")
    /\ UNCHANGED <<fenceVars, mode, worktree, head, packet, registry, agent, box, lost, runs, checked>>

Packet(p, key) == [torn |-> FALSE, key |-> key, worker |-> sub[p].worker,
                   status |-> sub[p].status, approved |-> sub[p].approved]

\* fs::write truncates the file and then fills it; twice, the second time with
\* the decision that carries the idempotency key.
SaveBegin(p) ==
    /\ sub[p].pc \in {"save", "decide"}
    /\ packet' = [packet EXCEPT ![ChangeOf[p]] = Torn]
    /\ Go(p, IF sub[p].pc = "save" THEN "saving" ELSE "deciding")
    /\ checked' = [checked EXCEPT ![p] = Base]
    /\ UNCHANGED <<fenceVars, mode, worktree, head, registry, agent, box, lost, runs>>

SaveEnd(p) ==
    /\ sub[p].pc \in {"saving", "deciding"}
    /\ packet' = [packet EXCEPT ![ChangeOf[p]] = Packet(p, IF sub[p].pc = "saving" THEN None ELSE KeyOf[p])]
    /\ IF sub[p].pc = "saving" THEN Go(p, "decide") ELSE End(p)
    /\ UNCHANGED <<fenceVars, mode, worktree, head, registry, agent, box, lost, runs, checked>>

-----------------------------------------------------------------------------
(* The rest of the world.                                                    *)

Ended(p) == sub[p].pc = "over"

\* The sandbox dies with the runner; a container and an open agent go on.
Crash(p) ==
    /\ ~Ended(p)
    /\ End(p)
    /\ checked' = [checked EXCEPT ![p] = Base]
    /\ agent' = [agent EXCEPT ![p] = IF @ # "running" THEN @ ELSE IF Contained(p) THEN "none" ELSE "left"]
    /\ Depart(p)
    /\ UNCHANGED <<mode, worktree, head, packet, registry, box, lost, runs>>

\* The reserved call is cancelled or its reservation released or expired.
Lose(p) ==
    /\ Reserved(p) /\ lost[p] = "no" /\ ~Ended(p)
    /\ lost' = [lost EXCEPT ![p] = IF sub[p].pc \in {"commit", "save", "saving", "decide", "deciding"}
                                   THEN "late" ELSE "early"]
    /\ UNCHANGED <<fenceVars, mode, sub, worktree, head, packet, registry, agent, box, runs, checked>>

EditRegistry ==
    /\ registry < MaxEdits
    /\ registry' = registry + 1
    /\ UNCHANGED <<fenceVars, mode, sub, worktree, head, packet, agent, box, lost, runs, checked>>

-----------------------------------------------------------------------------
Init ==
    /\ FenceInit
    /\ mode \in [Client -> {"reserved", "sandbox", "open"}] /\ \A p \in Client : mode[p] \in ModesOf[p]
    /\ \A p \in Client : portOf[p] = GatewayPort <=> mode[p] = "reserved"
    /\ sub = [p \in Client |-> Fresh]
    /\ worktree = [c \in Change |-> None] /\ head = [c \in Change |-> Base]
    /\ packet = [c \in Change |-> None] /\ registry = 0
    /\ agent = [p \in Client |-> "none"] /\ box = [p \in Client |-> "none"]
    /\ lost = [p \in Client |-> "no"]
    /\ runs = [c \in Change |-> <<>>] /\ checked = [p \in Client |-> Base]

Step(p) ==
    \/ Scan(p) \/ Select(p) \/ Unselected(p) \/ Unresolved(p) \/ Prepare(p)
    \/ InspectPrepared(p) \/ InspectImplemented(p) \/ InspectChecked(p)
    \/ FenceBeforeChecks(p) \/ FenceBeforeCommit(p)
    \/ Implement(p) \/ ImplementFail(p) \/ AgentConnect(p) \/ AgentDisconnect(p)
    \/ (\E q \in Path : AgentWrite(p, q) \/ CommandWrite(p, q)) \/ MoveHead(p)
    \/ \E ok, left \in BOOLEAN : AgentEnd(p, ok, left)
    \/ CommandSpawn(p) \/ CommandTimeout(p)
    \/ (\E b \in BOOLEAN : CommandEnd(p, b) \/ CommandError(p, b)) \/ AssertArtifacts(p)
    \/ Commit(p) \/ CommitFail(p) \/ SaveBegin(p) \/ SaveEnd(p)

Next ==
    \/ \E p \in Client : Step(p) \/ Crash(p) \/ Lose(p)
    \/ EditRegistry
    \/ \E pt \in Port : RuntimeStep(pt) /\ UNCHANGED changeVars

Spec == Init /\ [][Next]_vars

-----------------------------------------------------------------------------
(* Properties.                                                               *)

\* Every variable has a value of its type.
TypeOK ==
    /\ FenceTypeOK
    /\ mode \in [Client -> {"reserved", "sandbox", "open"}]
    /\ sub \in [Client -> Submission]
    /\ worktree \in [Change -> Tree \cup {None}] /\ head \in [Change -> Tree]
    /\ DOMAIN packet = Change /\ DOMAIN runs = Change /\ registry \in 0 .. MaxEdits
    /\ agent \in [Client -> {"none", "running", "left"}]
    /\ box \in [Client -> {"none", "running"}]
    /\ lost \in [Client -> {"no", "early", "late"}]
    /\ checked \in [Client -> Tree \cup {None}]

\* The accepted revision of a contained submission differs from the base only
\* in allowed source paths, whatever the agent and the commands wrote or
\* committed themselves, and at whatever point.
AcceptedAllowed ==
    \A p \in Client : sub[p].approved /\ Contained(p) =>
        \A q \in Path : head[ChangeOf[p]][q] # 0 => q \in Allowed \ Ephemeral

\* The accepted revision, once committed, is the source tree the acceptance
\* commands passed on.
AcceptedChecked ==
    \A p \in Client : sub[p].approved /\ sub[p].pc = "save" /\ Contained(p) =>
        \A q \in Path \ (Ephemeral \cup Ignored) : head[ChangeOf[p]][q] = checked[p][q]

\* A reserved call that was lost before its result was about to be committed
\* is not accepted.
LostNotAccepted == \A p \in Client : lost[p] = "early" => ~sub[p].approved

\* Whatever agents and commands write, whenever the reserved call is lost: an
\* accepted revision is within the allowed paths, is the tree the acceptance
\* commands passed on, and belongs to a call that was still wanted.
AcceptedSound == AcceptedAllowed /\ AcceptedChecked /\ LostNotAccepted

\* One agent at most is ever started for a change, however many submissions
\* name it and wherever an earlier one died, and it is the worker, as it was
\* configured, that the packet names.
ImplementedOnce ==
    \A c \in Change :
        /\ Len(runs[c]) <= 1
        /\ c \in Saved /\ ~packet[c].torn =>
             \A i \in DOMAIN runs[c] : runs[c][i] = packet[c].worker

\* The acceptance commands of a contained submission have the worktree for
\* themselves, and what is accepted has nothing left that could change it: also
\* where an agent or a container outlives its clean-up, which then is rejected.
Quiet ==
    \A p \in Client : Contained(p) =>
        /\ sub[p].pc \in {"fence1", "check", "wait"} => agent[p] = "none"
        /\ sub[p].pc \in {"artifacts", "fence2", "commit"} \/ sub[p].approved =>
              agent[p] = "none" /\ box[p] = "none"
=============================================================================
