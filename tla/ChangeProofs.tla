----------------------------- MODULE ChangeProofs -----------------------------
(* The execution of changes, however many clients, ports, changes and paths  *)
(* there are: the endpoint barrier, that the composition implements it, and  *)
(* what an accepted revision rests on.                                       *)
EXTENDS ChangeExecution, TLAPS

-----------------------------------------------------------------------------
(* The barrier, for any number of direct clients and ports.                  *)

\* The inductive invariant: the barrier holds because whoever has passed the
\* lock still holds it.
FenceInv == FenceTypeOK /\ GuardHeld /\ EndpointExclusive

\* No client is connected and nothing is managed at the start.
LEMMA FenceStart == FenceInit => FenceInv
BY DEF FenceInit, FenceInv, FenceTypeOK, GuardHeld, EndpointExclusive

\* A client that ends drops its own lock and no other.
LEMMA DroppedGuard ==
    ASSUME FenceInv, NEW c \in Client
    PROVE  /\ Dropped(c) \in [Port -> Client \cup {None}]
           /\ \A d \in Client \ {c} : conn[d] \in {"checking", "connected"}
                => Dropped(c)[portOf[d]] = d
BY FenceAssumption DEF FenceInv, FenceTypeOK, GuardHeld, Dropped

\* What a client does keeps the barrier: it connects only after it has read,
\* under the lock, that no demand is recorded.
LEMMA ClientKeeps ==
    ASSUME FenceInv, NEW c \in Client, Enter(c) \/ Depart(c)
    PROVE  FenceInv'
<1>1. CASE EnterBegin(c)
  BY <1>1 DEF EnterBegin, FenceInv, FenceTypeOK, GuardHeld, EndpointExclusive
<1>2. CASE EnterLock(c)
  BY <1>2, FenceAssumption
     DEF EnterLock, Unlocked, FenceInv, FenceTypeOK, GuardHeld, EndpointExclusive
<1>3. CASE EnterTimeout(c)
  BY <1>3 DEF EnterTimeout, FenceInv, FenceTypeOK, GuardHeld, EndpointExclusive
<1>4. CASE EnterCheck(c)
  BY <1>4, DroppedGuard DEF EnterCheck, FenceInv, FenceTypeOK, GuardHeld, EndpointExclusive
<1>5. CASE Depart(c)
  BY <1>5, DroppedGuard DEF Depart, FenceInv, FenceTypeOK, GuardHeld, EndpointExclusive
<1> QED BY <1>1, <1>2, <1>3, <1>4, <1>5 DEF Enter

\* What the runtime does keeps it: the port it checks is locked by nobody.
LEMMA RuntimeKeeps ==
    ASSUME FenceInv, NEW pt \in Port, RuntimeStep(pt)
    PROVE  FenceInv'
<1>1. CASE Record(pt) \/ StopBackend(pt) \/ Archive(pt)
  BY <1>1 DEF Record, StopBackend, Archive, Managed, FenceInv, FenceTypeOK, GuardHeld,
     EndpointExclusive
<1>2. CASE Quiescent(pt)
  <2>1. \A c \in Client : conn[c] = "connected" => portOf[c] # pt
    BY <1>2, FenceAssumption DEF Quiescent, Unlocked, FenceInv, GuardHeld
  <2> QED BY <1>2, <2>1 DEF Quiescent, Managed, FenceInv, FenceTypeOK, GuardHeld,
       EndpointExclusive
<1>3. CASE StartBackend(pt)
  BY <1>3 DEF StartBackend, Managed, FenceInv, FenceTypeOK, GuardHeld, EndpointExclusive
<1>4. CASE ReadEndpoint(pt) \/ ReadDone(pt)
  BY <1>4 DEF ReadEndpoint, ReadDone, FenceInv, FenceTypeOK, GuardHeld, EndpointExclusive
<1> QED BY <1>1, <1>2, <1>3, <1>4 DEF RuntimeStep

\* The invariant of the barrier is inductive.
LEMMA FenceStep == FenceInv /\ [FenceNext]_fenceVars => FenceInv'
<1>1. ASSUME FenceInv, UNCHANGED fenceVars PROVE FenceInv'
  BY <1>1 DEF fenceVars, FenceInv, FenceTypeOK, GuardHeld, EndpointExclusive
<1> QED BY <1>1, ClientKeeps, RuntimeKeeps DEF FenceNext

\* A direct client and a managed backend never share an endpoint, for any number
\* of clients and ports and every interleaving of the two lock protocols.
THEOREM EndpointExclusiveHolds == FenceSpec => []EndpointExclusive
<1>1. FenceInv => EndpointExclusive BY DEF FenceInv
<1> QED BY <1>1, FenceStart, FenceStep, PTL DEF FenceSpec

-----------------------------------------------------------------------------
(* The composition implements the barrier.                                    *)

\* A step of a client is a step of the barrier or leaves it alone.
LEMMA ClientStepFence ==
    ASSUME NEW p \in Client, Step(p) \/ Crash(p) \/ Lose(p)
    PROVE  Enter(p) \/ Depart(p) \/ UNCHANGED fenceVars
<1>1. CASE \/ Scan(p) \/ Select(p) \/ Unselected(p) \/ Unresolved(p) \/ Prepare(p)
           \/ InspectPrepared(p) \/ InspectImplemented(p) \/ InspectChecked(p)
           \/ FenceBeforeChecks(p) \/ FenceBeforeCommit(p) \/ Implement(p) \/ MoveHead(p) \/ Lose(p)
  BY <1>1 DEF Scan, Select, Unselected, Unresolved, Prepare, InspectPrepared,
     InspectImplemented, InspectChecked, FenceBeforeChecks, FenceBeforeCommit, Implement,
     MoveHead, Lose
<1>2. CASE ImplementFail(p) \/ Crash(p) \/ \E ok, left \in BOOLEAN : AgentEnd(p, ok, left)
  BY <1>2 DEF ImplementFail, Crash, AgentEnd
<1>3. CASE AgentConnect(p) \/ AgentDisconnect(p)
  BY <1>3 DEF AgentConnect, AgentDisconnect, Leave
<1>4. CASE \E q \in Path : AgentWrite(p, q) \/ CommandWrite(p, q)
  BY <1>4 DEF AgentWrite, CommandWrite
<1>5. CASE \/ CommandSpawn(p) \/ CommandTimeout(p)
           \/ AssertArtifacts(p) \/ Commit(p) \/ CommitFail(p) \/ SaveBegin(p) \/ SaveEnd(p)
  BY <1>5 DEF CommandSpawn, CommandTimeout, AssertArtifacts,
     Commit, CommitFail, SaveBegin, SaveEnd
<1>6. CASE \E b \in BOOLEAN : CommandEnd(p, b) \/ CommandError(p, b)
  BY <1>6 DEF CommandEnd, CommandError
<1> QED BY <1>1, <1>2, <1>3, <1>4, <1>5, <1>6 DEF Step

\* Every step of the composition is a step of the barrier or a stutter.
LEMMA ChangeStepFence == [Next]_vars => [FenceNext]_fenceVars
<1> SUFFICES ASSUME [Next]_vars PROVE [FenceNext]_fenceVars OBVIOUS
<1>1. CASE \E p \in Client : Step(p) \/ Crash(p) \/ Lose(p)
  BY <1>1, ClientStepFence DEF FenceNext
<1>2. CASE EditRegistry BY <1>2 DEF EditRegistry
<1>3. CASE \E pt \in Port : RuntimeStep(pt) /\ UNCHANGED changeVars BY <1>3 DEF FenceNext
<1>4. CASE UNCHANGED vars BY <1>4 DEF vars
<1> QED BY <1>1, <1>2, <1>3, <1>4 DEF Next

\* The execution of changes implements the endpoint barrier.
THEOREM ChangeImplementsFence == Spec => FenceSpec
<1>1. Init => FenceInit BY DEF Init
<1> QED BY <1>1, ChangeStepFence, PTL DEF Spec, FenceSpec

\* An agent, sandboxed or not, is never connected to an endpoint on which the
\* runtime runs, or has decided to start, a backend, whatever dies in between.
THEOREM ChangeEndpointExclusive == Spec => []EndpointExclusive
BY ChangeImplementsFence, EndpointExclusiveHolds, PTL

-----------------------------------------------------------------------------
(* What an accepted revision rests on.                                       *)

\* A submission that has its worktree, or whose agent, container or accepted
\* revision is still there, has the change for itself.
Prepared == {"inspect1", "implement", "agent", "inspect2", "fence1", "check", "wait", "artifacts", "inspect3",
             "fence2", "commit", "save", "saving", "decide", "deciding"}
Owns(p) == sub[p].pc \in Prepared \/ agent[p] # "none" \/ box[p] # "none" \/ sub[p].approved
OwnerInv ==
    /\ \A p \in Client : Owns(p) => worktree[ChangeOf[p]] # None
    /\ \A p, q \in Client : Owns(p) /\ Owns(q) /\ ChangeOf[p] = ChangeOf[q] => p = q

\* Places at which nothing is accepted any more.
Over == {"save", "saving", "decide", "deciding", "over"}
\* What should be gone and may have outlived its clean-up.
Survives(p) == (Contained(p) /\ agent[p] = "left") \/ box[p] # "none"

\* What runs for a submission, and the commitments it is past.
RunsInv(p) ==
    /\ agent[p] = "running" => sub[p].pc = "agent"
    /\ Contained(p) /\ agent[p] = "left" => sub[p].pc \in {"inspect2"} \cup Over
    /\ Contained(p) /\ agent[p] = "left" /\ sub[p].pc = "inspect2" => sub[p].status = "Failed"
    /\ box[p] # "none" => sub[p].pc \in {"wait", "inspect3"} \cup Over
    /\ Survives(p) => ~sub[p].approved /\ (sub[p].pc # "wait" => sub[p].status # "ChecksPassed")
    /\ sub[p].approved => sub[p].pc \in Over
    /\ sub[p].pc = "commit" \/ sub[p].approved => lost[p] # "early"
    /\ lost[p] # "no" => Reserved(p)

\* The tree the commands passed on is the one that is inspected and committed.
TreeInv(p) == LET c == ChangeOf[p] IN
    Contained(p) =>
        /\ sub[p].pc \in {"artifacts", "fence2", "commit"} => checked[p] = worktree[c]
        /\ sub[p].pc = "inspect3" /\ sub[p].status = "ChecksPassed" => checked[p] = worktree[c]
        /\ sub[p].pc \in {"fence2", "commit"} =>
              head[c] = Base /\ sub[p].changed = Dirty(c) /\ Source(sub[p].changed) \subseteq Allowed
        /\ sub[p].approved => \A q \in Path : head[c][q] # 0 => q \in Allowed \ Ephemeral
        /\ sub[p].approved /\ sub[p].pc = "save" =>
              \A q \in Path \ (Ephemeral \cup Ignored) : head[c][q] = checked[p][q]

\* The worker that ran is the one the submission selected.
WorkerInv(p) == LET c == ChangeOf[p] IN
    /\ sub[p].pc \in {"inspect1", "implement"} => runs[c] = <<>> /\ packet[c] = None
    /\ sub[p].pc \in Prepared => runs[c] = <<>> \/ runs[c] = <<sub[p].worker>>
PacketInv(c) ==
    /\ worktree[c] = None => runs[c] = <<>> /\ packet[c] = None
    /\ runs[c] = <<>> \/ \E w \in 0 .. MaxEdits : /\ runs[c] = <<w>>
                                                  /\ packet[c] # None /\ ~packet[c].torn => packet[c].worker = w

ChangeInv ==
    /\ FenceInv /\ TypeOK /\ OwnerInv
    /\ \A p \in Client : RunsInv(p) /\ TreeInv(p) /\ WorkerInv(p)
    /\ \A c \in Change : PacketInv(c)

-----------------------------------------------------------------------------
(* What a step of a submission leaves alone.                                 *)

\* One submission changes, to a state of its type.
LEMMA SubSet ==
    ASSUME TypeOK, NEW r \in Client, NEW s \in Submission, sub' = [sub EXCEPT ![r] = s]
    PROVE  sub' \in [Client -> Submission] /\ sub'[r] = s
BY DEF TypeOK

\* Going to a place keeps the submissions typed.
LEMMA GoSet ==
    ASSUME TypeOK, NEW r \in Client, NEW x \in Pc, Go(r, x)
    PROVE  sub' \in [Client -> Submission] /\ sub'[r] = [sub[r] EXCEPT !.pc = x]
<1>0. sub[r] \in Submission BY DEF TypeOK
<1>1. [sub[r] EXCEPT !.pc = x] \in Submission BY <1>0 DEF Submission
<1>2. sub' = [sub EXCEPT ![r] = [sub[r] EXCEPT !.pc = x]] BY DEF Go
<1> QED BY <1>1, <1>2, SubSet

\* So does failing with a status.
LEMMA FailSet ==
    ASSUME TypeOK, NEW r \in Client, NEW x \in Status, Fail(r, x)
    PROVE  sub' \in [Client -> Submission] /\ sub'[r] = [sub[r] EXCEPT !.pc = "save", !.status = x]
<1>0. "save" \in Pc /\ sub[r] \in Submission BY DEF Pc, TypeOK
<1>1. [sub[r] EXCEPT !.pc = "save", !.status = x] \in Submission BY <1>0 DEF Submission
<1>2. sub' = [sub EXCEPT ![r] = [sub[r] EXCEPT !.pc = "save", !.status = x]] BY DEF Fail, TypeOK, Submission
<1> QED BY <1>1, <1>2, SubSet

\* So does the end of a submission.
LEMMA EndSet ==
    ASSUME TypeOK, NEW r \in Client, End(r)
    PROVE  /\ sub' \in [Client -> Submission]
           /\ sub'[r] = [Fresh EXCEPT !.pc = "over", !.approved = sub[r].approved]
<1>0. {"new", "over"} \subseteq Pc /\ "Prepared" \in Status /\ 0 \in 0 .. MaxEdits BY ChangeAssumption DEF Pc, Status
<1>1. [Fresh EXCEPT !.pc = "over", !.approved = sub[r].approved] \in Submission BY <1>0 DEF TypeOK, Fresh, Submission
<1> QED BY <1>1, SubSet DEF End

\* The other submissions and the other changes.
LEMMA Elsewhere ==
    ASSUME TypeOK, NEW r \in Client, Step(r) \/ Crash(r) \/ Lose(r)
    PROVE  /\ mode' = mode
           /\ \A p \in Client \ {r} : /\ sub'[p] = sub[p] /\ agent'[p] = agent[p] /\ box'[p] = box[p]
                                      /\ lost'[p] = lost[p] /\ checked'[p] = checked[p]
           /\ \A c \in Change \ {ChangeOf[r]} : /\ worktree'[c] = worktree[c] /\ head'[c] = head[c]
                                                /\ packet'[c] = packet[c] /\ runs'[c] = runs[c]
<1> USE ChangeAssumption DEF TypeOK
<1>1. CASE Scan(r) \/ Select(r) \/ Unselected(r) \/ Unresolved(r) \/ Prepare(r)
  BY <1>1 DEF Scan, Select, Unselected, Unresolved, Prepare, Go, End
<1>2. CASE InspectPrepared(r) \/ InspectImplemented(r) \/ InspectChecked(r) \/ FenceBeforeChecks(r) \/ FenceBeforeCommit(r)
  BY <1>2 DEF InspectPrepared, InspectImplemented, InspectChecked, Inspected, FenceBeforeChecks, FenceBeforeCommit, Go, Fail
<1>3. CASE Implement(r) \/ ImplementFail(r) \/ AgentConnect(r) \/ AgentDisconnect(r) \/ MoveHead(r)
  BY <1>3 DEF Implement, ImplementFail, AgentConnect, AgentDisconnect, MoveHead, Go, Fail, changeVars
<1>4. ASSUME NEW q \in Path, AgentWrite(r, q) \/ CommandWrite(r, q)
      PROVE  /\ UNCHANGED <<mode, sub, agent, box, lost, checked, head, packet, runs>>
             /\ \A c \in Change \ {ChangeOf[r]} : worktree'[c] = worktree[c]
  BY <1>4 DEF AgentWrite, CommandWrite
<1>5. ASSUME NEW ok \in BOOLEAN, NEW left \in BOOLEAN, AgentEnd(r, ok, left)
      PROVE  /\ UNCHANGED <<mode, worktree, head, packet, box, lost, runs, checked>>
             /\ \A p \in Client \ {r} : sub'[p] = sub[p] /\ agent'[p] = agent[p]
  BY <1>5 DEF AgentEnd
<1>6. CASE CommandSpawn(r) \/ CommandTimeout(r) \/ AssertArtifacts(r)
  BY <1>6 DEF CommandSpawn, CommandTimeout, StopAndRemove, AssertArtifacts, Go
<1>7. ASSUME NEW b \in BOOLEAN, CommandEnd(r, b) \/ CommandError(r, b)
      PROVE  /\ UNCHANGED <<mode, worktree, head, packet, agent, lost, runs>>
             /\ \A p \in Client \ {r} : sub'[p] = sub[p] /\ box'[p] = box[p] /\ checked'[p] = checked[p]
  BY <1>7 DEF CommandEnd, CommandError, StopAndRemove, Fail
<1>8. CASE Commit(r) \/ CommitFail(r) \/ SaveBegin(r) \/ SaveEnd(r) \/ Crash(r) \/ Lose(r)
  BY <1>8 DEF Commit, CommitFail, SaveBegin, SaveEnd, Crash, Lose, Go, Fail, End
<1> QED BY <1>1, <1>2, <1>3, <1>4, <1>5, <1>6, <1>7, <1>8 DEF Step

\* Only the owner of a change touches what belongs to it; a submission becomes
\* the owner where there is no worktree yet.
LEMMA OwnerOnly ==
    ASSUME NEW r \in Client, Step(r) \/ Crash(r) \/ Lose(r)
    PROVE  \/ Owns(r) \/ UNCHANGED <<worktree, head, packet, runs>>
           \/ sub[r].pc = "prepare" /\ W(r) = None
<1> USE DEF Owns, Prepared
<1>1. CASE \/ Scan(r) \/ Select(r) \/ Unselected(r) \/ Unresolved(r) \/ Prepare(r)
           \/ InspectPrepared(r) \/ InspectImplemented(r) \/ InspectChecked(r) \/ FenceBeforeChecks(r)
           \/ FenceBeforeCommit(r) \/ ImplementFail(r) \/ Implement(r) \/ MoveHead(r)
  BY <1>1 DEF Scan, Select, Unselected, Unresolved, Prepare, InspectPrepared, InspectImplemented,
     InspectChecked, FenceBeforeChecks, FenceBeforeCommit, ImplementFail, Implement, MoveHead
<1>2. CASE \/ AgentConnect(r) \/ AgentDisconnect(r) \/ CommandSpawn(r)
           \/ CommandTimeout(r) \/ AssertArtifacts(r) \/ Commit(r) \/ CommitFail(r) \/ SaveBegin(r) \/ SaveEnd(r)
           \/ Crash(r) \/ Lose(r)
  BY <1>2 DEF AgentConnect, AgentDisconnect, CommandSpawn, CommandTimeout,
     AssertArtifacts, Commit, CommitFail, SaveBegin, SaveEnd, Crash, Lose, changeVars
<1>3. CASE \/ \E q \in Path : AgentWrite(r, q) \/ CommandWrite(r, q)
           \/ \E b \in BOOLEAN : CommandEnd(r, b) \/ CommandError(r, b)
           \/ \E ok, left \in BOOLEAN : AgentEnd(r, ok, left)
  BY <1>3 DEF AgentWrite, CommandWrite, CommandEnd, CommandError, AgentEnd
<1> QED BY <1>1, <1>2, <1>3 DEF Step

\* The other owners find their change as it was.
LEMMA OwnersApart ==
    ASSUME ChangeInv, NEW r \in Client, Step(r) \/ Crash(r) \/ Lose(r), NEW p \in Client \ {r}, Owns(p)
    PROVE  /\ worktree'[ChangeOf[p]] = worktree[ChangeOf[p]] /\ head'[ChangeOf[p]] = head[ChangeOf[p]]
           /\ packet'[ChangeOf[p]] = packet[ChangeOf[p]] /\ runs'[ChangeOf[p]] = runs[ChangeOf[p]]
<1>1. CASE ChangeOf[p] = ChangeOf[r]
  <2>1. ~Owns(r) /\ W(r) # None BY <1>1 DEF ChangeInv, OwnerInv, W
  <2> QED BY <2>1, OwnerOnly
<1>2. CASE ChangeOf[p] # ChangeOf[r]
  <2>1. TypeOK /\ ChangeOf[p] \in Change BY ChangeAssumption DEF ChangeInv
  <2> QED BY <1>2, <2>1, Elsewhere
<1> QED BY <1>1, <1>2

-----------------------------------------------------------------------------
(* What a step does to the submission that takes it.                         *)

Mine(p) == RunsInv(p) /\ TreeInv(p) /\ WorkerInv(p) /\ PacketInv(ChangeOf[p])
Kept(p) == /\ Mine(p)'
           /\ Owns(p)' => Owns(p) \/ W(p) = None
           /\ Owns(p)' \/ W(p) # None => W(p)' # None

\* Before it has a worktree.
LEMMA EarlyKept ==
    ASSUME ChangeInv, NEW r \in Client, UNCHANGED <<mode, worktree, head, packet, runs, agent, box, lost>>,
           sub[r].pc \in {"new", "select", "prepare"},
           sub'[r].pc \in {"select", "prepare", "over"}, sub'[r].approved = sub[r].approved
    PROVE  Kept(r)
<1> USE ChangeAssumption DEF ChangeInv, Kept, Mine, W
<1>1. ~sub[r].approved BY DEF RunsInv, Over
<1>2. RunsInv(r)' BY <1>1 DEF RunsInv, Survives, Over, Contained, Reserved
<1>3. TreeInv(r)' BY <1>1 DEF TreeInv
<1>4. WorkerInv(r)' BY DEF WorkerInv, Prepared
<1>5. PacketInv(ChangeOf[r])' BY DEF PacketInv
<1>6. (Owns(r)' => Owns(r)) /\ (Owns(r) => W(r) # None) BY <1>1 DEF Owns, Prepared, OwnerInv
<1> QED BY <1>2, <1>3, <1>4, <1>5, <1>6

\* Once it has one, while its trees, its packet and its worker stay.
LEMMA LaterKept ==
    ASSUME ChangeInv, NEW r \in Client, Owns(r), UNCHANGED <<mode, packet, runs>>, worktree'[ChangeOf[r]] # None,
           sub'[r].pc \in Prepared => sub[r].pc \in Prepared /\ sub'[r].worker = sub[r].worker,
           sub'[r].pc \in {"inspect1", "implement"} => sub[r].pc \in {"inspect1", "implement"},
           RunsInv(r)', TreeInv(r)'
    PROVE  Kept(r)
<1> USE ChangeAssumption DEF ChangeInv, Kept, Mine, W
<1>1. WorkerInv(r)' BY DEF WorkerInv
<1>2. W(r) # None BY DEF OwnerInv
<1>3. PacketInv(ChangeOf[r])' BY <1>2 DEF PacketInv
<1> QED BY <1>1, <1>2, <1>3

\* Nothing but its control changes.
LEMMA ControlKept ==
    ASSUME ChangeInv, NEW r \in Client, UNCHANGED <<mode, worktree, head, packet, runs, agent, box, lost, checked>>,
           sub[r].pc \in Prepared \ {"agent", "wait"}, sub'[r].pc \in Prepared \ {"agent", "wait", "commit"},
           ~sub[r].approved, ~sub'[r].approved, sub'[r].worker = sub[r].worker,
           sub'[r].pc \in {"inspect1", "implement"} => sub[r].pc \in {"inspect1", "implement"},
           Survives(r) => sub'[r].pc = "save" /\ sub'[r].status # "ChecksPassed", TreeInv(r)'
    PROVE  Kept(r)
<1>1. RunsInv(r)' BY DEF ChangeInv, RunsInv, Survives, Over, Contained, Reserved, Prepared
<1>2. Owns(r) /\ worktree'[ChangeOf[r]] # None BY DEF ChangeInv, OwnerInv, Owns
<1> QED BY <1>1, <1>2, LaterKept

\* The steps that only decide where a submission goes.
LEMMA MineControl ==
    ASSUME ChangeInv, NEW r \in Client,
           \/ Scan(r) \/ Select(r) \/ Unselected(r) \/ Unresolved(r)
           \/ InspectPrepared(r) \/ InspectImplemented(r) \/ InspectChecked(r)
           \/ FenceBeforeChecks(r) \/ FenceBeforeCommit(r) \/ AssertArtifacts(r) \/ CommitFail(r)
    PROVE  Kept(r)
<1>0. TypeOK /\ RunsInv(r) /\ TreeInv(r) /\ sub[r] \in Submission BY DEF ChangeInv, TypeOK
<1>1. CASE Scan(r) \/ Unselected(r) \/ Unresolved(r)
  <2>1. sub'[r].pc \in {"select", "prepare", "over"} /\ sub'[r].approved = sub[r].approved
    <3>1. (\E x \in {"select", "prepare"} : Go(r, x)) \/ End(r)
      BY <1>1 DEF Scan, Unselected, Unresolved
    <3>2. ASSUME NEW x \in {"select", "prepare"}, Go(r, x)
          PROVE  sub'[r].pc = x /\ sub'[r].approved = sub[r].approved
      BY <1>0, <3>2 DEF Go, TypeOK, Submission
    <3>3. CASE End(r) BY <1>0, <3>3 DEF End, Fresh, TypeOK
    <3> QED BY <3>1, <3>2, <3>3
  <2>2. UNCHANGED <<mode, worktree, head, packet, runs, agent, box, lost>>
        /\ sub[r].pc \in {"new", "select", "prepare"}
    BY <1>1 DEF Scan, Unselected, Unresolved
  <2> QED BY <2>1, <2>2, EarlyKept
<1>2. CASE Select(r)
  <2>1. sub'[r].pc = "prepare" /\ sub'[r].approved = sub[r].approved BY <1>0, <1>2 DEF Select, TypeOK, Submission
  <2>2. UNCHANGED <<mode, worktree, head, packet, runs, agent, box, lost>> /\ sub[r].pc = "select"
    BY <1>2 DEF Select
  <2> QED BY <2>1, <2>2, EarlyKept
<1>3. ASSUME NEW next, next # "commit", Inspected(r, next)
      PROVE  /\ sub'[r].pc \in {"save", next}
             /\ sub'[r].approved = sub[r].approved /\ sub'[r].worker = sub[r].worker
             /\ sub'[r].status \in {"Failed", "PathPolicyFailed", sub[r].status}
             /\ sub'[r].pc = "save" \/ /\ head[ChangeOf[r]] = Base /\ sub'[r].changed = Dirty(ChangeOf[r])
                                       /\ Source(sub'[r].changed) \subseteq Allowed
                                       /\ sub'[r].status = sub[r].status
  <2> DEFINE c == ChangeOf[r]
             paths == Dirty(c)
  <2>1. CASE head[c] # Base
    <3>1. sub' = [sub EXCEPT ![r] = [sub[r] EXCEPT !.pc = "save", !.status = "Failed"]] BY <1>3, <2>1 DEF Inspected
    <3> QED BY <1>0, <3>1 DEF TypeOK, Submission
  <2>2. CASE head[c] = Base /\ ~(Source(paths) \subseteq Allowed)
    <3>1. sub' = [sub EXCEPT ![r] = [sub[r] EXCEPT !.pc = "save", !.status = "PathPolicyFailed", !.changed = paths]]
      BY <1>3, <2>2 DEF Inspected
    <3> QED BY <1>0, <3>1 DEF TypeOK, Submission
  <2>3. CASE head[c] = Base /\ Source(paths) \subseteq Allowed
    <3>1. sub' = [sub EXCEPT ![r] = [sub[r] EXCEPT !.pc = next, !.changed = paths]] BY <1>3, <2>3 DEF Inspected
    <3> HIDE DEF paths
    <3>2. /\ sub'[r].pc = next /\ sub'[r].changed = paths /\ sub'[r].approved = sub[r].approved
          /\ sub'[r].worker = sub[r].worker /\ sub'[r].status = sub[r].status
      BY <1>0, <3>1 DEF TypeOK, Submission
    <3> QED BY <2>3, <3>2 DEF paths
  <2> QED BY <2>1, <2>2, <2>3
<1>4. CASE InspectPrepared(r)
  <2>1. sub[r].pc = "inspect1" /\ Inspected(r, "implement")
        /\ UNCHANGED <<mode, worktree, head, packet, runs, agent, box, lost, checked>>
    BY <1>4 DEF InspectPrepared
  <2>2. ~sub[r].approved /\ ~Survives(r) BY <1>0, <2>1 DEF RunsInv, Survives, Over
  <2>3. TreeInv(r)' BY <1>3, <2>1, <2>2 DEF TreeInv
  <2> QED BY <1>3, <2>1, <2>2, <2>3, ControlKept DEF Prepared
<1>5. CASE InspectImplemented(r)
  <2>1. PICK next \in {"save", "fence1"} : Inspected(r, next) /\ (next = "fence1" => sub[r].status # "Failed")
    BY <1>5 DEF InspectImplemented
  <2>2. sub[r].pc = "inspect2" /\ UNCHANGED <<mode, worktree, head, packet, runs, agent, box, lost, checked>>
    BY <1>5 DEF InspectImplemented
  <2>3. ~sub[r].approved /\ (Survives(r) => sub[r].status = "Failed") BY <1>0, <2>2 DEF RunsInv, Survives, Over
  <2>4. sub'[r].pc \in {"save", next} /\ sub'[r].status \in {"Failed", "PathPolicyFailed", sub[r].status} /\ sub'[r].approved = sub[r].approved /\ sub'[r].worker = sub[r].worker
    BY <1>3, <2>1
  <2>5. TreeInv(r)' BY <2>2, <2>3, <2>4 DEF TreeInv
  <2> QED BY <2>1, <2>2, <2>3, <2>4, <2>5, ControlKept DEF Prepared
<1>6. CASE InspectChecked(r)
  <2>1. PICK next \in {"save", "fence2"} : Inspected(r, next) /\ (next = "fence2" => sub[r].status = "ChecksPassed")
    BY <1>6 DEF InspectChecked
  <2>2. sub[r].pc = "inspect3" /\ UNCHANGED <<mode, worktree, head, packet, runs, agent, box, lost, checked>>
    BY <1>6 DEF InspectChecked
  <2>3. ~sub[r].approved /\ (Survives(r) => sub[r].status # "ChecksPassed") BY <1>0, <2>2 DEF RunsInv, Survives, Over
  <2>4. sub'[r].pc \in {"save", next} /\ sub'[r].status \in {"Failed", "PathPolicyFailed", sub[r].status}
        /\ sub'[r].approved = sub[r].approved /\ sub'[r].worker = sub[r].worker
    BY <1>3, <2>1
  <2>5. sub'[r].pc = "fence2" => /\ sub[r].status = "ChecksPassed" /\ head[ChangeOf[r]] = Base
                                 /\ sub'[r].changed = Dirty(ChangeOf[r])
                                 /\ Source(sub'[r].changed) \subseteq Allowed
    BY <1>3, <2>1
  <2>6. TreeInv(r)' BY <1>0, <2>1, <2>2, <2>3, <2>4, <2>5 DEF TreeInv, Contained, Dirty, Source
  <2> QED BY <2>1, <2>2, <2>3, <2>4, <2>6, ControlKept DEF Prepared
<1>7. CASE FenceBeforeChecks(r)
  <2>1. sub[r].pc = "fence1" /\ UNCHANGED <<mode, worktree, head, packet, runs, agent, box, lost, checked>>
    BY <1>7 DEF FenceBeforeChecks
  <2>2. ~sub[r].approved /\ ~Survives(r) BY <1>0, <2>1 DEF RunsInv, Survives, Over
  <2>3. sub'[r].pc \in {"check", "save"} /\ sub'[r].approved = sub[r].approved /\ sub'[r].worker = sub[r].worker
    BY <1>0, <1>7 DEF FenceBeforeChecks, Go, Fail, TypeOK, Submission
  <2>4. TreeInv(r)' BY <2>1, <2>2, <2>3 DEF TreeInv
  <2> QED BY <2>1, <2>2, <2>3, <2>4, ControlKept DEF Prepared
<1>8. CASE FenceBeforeCommit(r)
  <2>1. sub[r].pc = "fence2" /\ UNCHANGED <<mode, worktree, head, packet, runs, agent, box, lost, checked>>
    BY <1>8 DEF FenceBeforeCommit
  <2>2. ~sub[r].approved /\ ~Survives(r) BY <1>0, <2>1 DEF RunsInv, Survives, Over
  <2>3. /\ sub'[r].pc \in {"commit", "save"} /\ sub'[r].approved = sub[r].approved
        /\ sub'[r].worker = sub[r].worker /\ sub'[r].changed = sub[r].changed
        /\ sub'[r].pc = "commit" => CheckExecution(r)
    BY <1>0, <1>8 DEF FenceBeforeCommit, Go, Fail, TypeOK, Submission
  <2>4. TreeInv(r)' BY <1>0, <2>1, <2>2, <2>3 DEF TreeInv, Contained, Dirty, Source
  <2>5. RunsInv(r)' BY <1>0, <2>1, <2>2, <2>3 DEF RunsInv, Survives, Over, CheckExecution, Contained, Reserved
  <2>6. Owns(r) /\ worktree'[ChangeOf[r]] # None BY <2>1 DEF ChangeInv, OwnerInv, Owns, Prepared
  <2> QED BY <2>1, <2>3, <2>4, <2>5, <2>6, LaterKept DEF Prepared
<1>9. CASE AssertArtifacts(r)
  <2>1. sub[r].pc = "artifacts" /\ UNCHANGED <<mode, worktree, head, packet, runs, agent, box, lost, checked>>
    BY <1>9 DEF AssertArtifacts
  <2>2. ~sub[r].approved /\ ~Survives(r) BY <1>0, <2>1 DEF RunsInv, Survives, Over
  <2>3. sub'[r].pc = "inspect3" /\ sub'[r].approved = sub[r].approved /\ sub'[r].worker = sub[r].worker
    BY <1>0, <1>9 DEF AssertArtifacts, TypeOK, Submission
  <2>4. TreeInv(r)' BY <1>0, <2>1, <2>2, <2>3 DEF TreeInv, Contained
  <2> QED BY <2>1, <2>2, <2>3, <2>4, ControlKept DEF Prepared
<1>10. CASE CommitFail(r)
  <2>1. sub[r].pc = "commit" /\ UNCHANGED <<mode, worktree, head, packet, runs, agent, box, lost, checked>>
    BY <1>10 DEF CommitFail
  <2>2. ~sub[r].approved /\ ~Survives(r) BY <1>0, <2>1 DEF RunsInv, Survives, Over
  <2>3. sub'[r].pc = "save" /\ sub'[r].approved = sub[r].approved /\ sub'[r].worker = sub[r].worker
    BY <1>0, <1>10 DEF CommitFail, Fail, TypeOK, Submission
  <2>4. TreeInv(r)' BY <2>1, <2>2, <2>3 DEF TreeInv
  <2> QED BY <2>1, <2>2, <2>3, <2>4, ControlKept DEF Prepared
<1> QED BY <1>1, <1>2, <1>4, <1>5, <1>6, <1>7, <1>8, <1>9, <1>10

\* The agent and the acceptance commands.
LEMMA MineRuns ==
    ASSUME ChangeInv, NEW r \in Client,
           \/ ImplementFail(r) \/ AgentConnect(r) \/ AgentDisconnect(r)
           \/ (\E q \in Path : AgentWrite(r, q) \/ CommandWrite(r, q)) \/ MoveHead(r)
           \/ (\E ok, left \in BOOLEAN : AgentEnd(r, ok, left))
           \/ CommandSpawn(r) \/ CommandTimeout(r)
           \/ (\E b \in BOOLEAN : CommandEnd(r, b) \/ CommandError(r, b))
    PROVE  Kept(r)
<1>0. TypeOK /\ RunsInv(r) /\ TreeInv(r) /\ sub[r] \in Submission BY DEF ChangeInv, TypeOK
<1>00. agent[r] \in {"none", "running", "left"} /\ ChangeOf[r] \in Change BY ChangeAssumption DEF ChangeInv, TypeOK
<1>01. (Owns(r) => W(r) # None /\ W(r) \in Tree) BY <1>00 DEF ChangeInv, OwnerInv, TypeOK, W
<1>1. CASE ImplementFail(r)
  <2>1. sub[r].pc = "implement" /\ UNCHANGED <<mode, worktree, head, packet, runs, agent, box, lost, checked>>
    BY <1>1 DEF ImplementFail
  <2>2. ~sub[r].approved /\ ~Survives(r) BY <1>0, <2>1 DEF RunsInv, Survives, Over
  <2>3. sub'[r].pc = "inspect2" /\ sub'[r].status = "Failed" /\ sub'[r].approved = sub[r].approved
        /\ sub'[r].worker = sub[r].worker
    BY <1>0, <1>1 DEF ImplementFail, TypeOK, Submission
  <2>4. TreeInv(r)' BY <2>1, <2>2, <2>3 DEF TreeInv
  <2> QED BY <2>1, <2>2, <2>3, <2>4, ControlKept DEF Prepared
<1>2. CASE AgentConnect(r) \/ AgentDisconnect(r)
  <2>1. UNCHANGED changeVars BY <1>2 DEF AgentConnect, AgentDisconnect
  <2>2. Mine(r)' <=> Mine(r)
    BY <2>1 DEF changeVars, Mine, RunsInv, Survives, TreeInv, WorkerInv, PacketInv, Contained, Reserved, Dirty, Source
  <2>3. Owns(r)' <=> Owns(r) BY <2>1 DEF changeVars, Owns
  <2>4. Mine(r) BY <1>00 DEF ChangeInv, Mine
  <2> QED BY <1>01, <2>1, <2>2, <2>3, <2>4 DEF Kept, W, changeVars
<1>3. ASSUME NEW q \in Path, AgentWrite(r, q) \/ CommandWrite(r, q) PROVE Kept(r)
  <2>1. /\ agent[r] # "none" \/ box[r] = "running"
        /\ worktree' = [worktree EXCEPT ![ChangeOf[r]][q] = @ + 1]
        /\ UNCHANGED <<mode, sub, head, packet, runs, agent, box, lost, checked>>
    BY <1>3 DEF AgentWrite, CommandWrite
  <2>2. Owns(r) BY <2>1 DEF Owns
  <2>3. worktree'[ChangeOf[r]] = [W(r) EXCEPT ![q] = @ + 1] BY <1>0, <1>00, <2>1 DEF TypeOK, W
  <2>4. worktree'[ChangeOf[r]] \in Tree BY <1>01, <2>2, <2>3 DEF Tree
  <2>5. worktree'[ChangeOf[r]] # None BY <2>4, ChangeAssumption DEF Tree
  <2>6. RunsInv(r)' BY <1>0, <2>1 DEF RunsInv, Survives, Over, Contained, Reserved
  <2>7. Contained(r) => /\ sub[r].pc \in {"agent", "inspect2", "wait", "inspect3"} \cup Over /\ ~sub[r].approved
                        /\ sub[r].pc = "inspect3" => sub[r].status # "ChecksPassed"
    BY <1>0, <1>00, <2>1 DEF RunsInv, Survives, Over
  <2>8. TreeInv(r)' BY <2>1, <2>7 DEF TreeInv, Contained, Over
  <2> QED BY <2>1, <2>2, <2>5, <2>6, <2>8, LaterKept
<1>4. CASE MoveHead(r)
  <2>1. /\ (agent[r] # "none" /\ ~Contained(r)) \/ box[r] = "running"
        /\ UNCHANGED <<mode, sub, worktree, packet, runs, agent, box, lost, checked>>
    BY <1>4 DEF MoveHead
  <2>2. Owns(r) BY <2>1 DEF Owns
  <2>3. RunsInv(r)' BY <1>0, <2>1 DEF RunsInv, Survives, Over, Contained, Reserved
  <2>4. Contained(r) => /\ sub[r].pc \in {"wait", "inspect3"} \cup Over /\ ~sub[r].approved
                        /\ sub[r].pc = "inspect3" => sub[r].status # "ChecksPassed"
    BY <1>0, <2>1 DEF RunsInv, Survives, Over
  <2>5. TreeInv(r)' BY <2>1, <2>4 DEF TreeInv, Contained, Over
  <2> QED BY <1>01, <2>1, <2>2, <2>3, <2>5, LaterKept DEF W
<1>5. ASSUME NEW ok \in BOOLEAN, NEW left \in BOOLEAN, AgentEnd(r, ok, left) PROVE Kept(r)
  <2>1. /\ sub[r].pc = "agent" /\ UNCHANGED <<mode, worktree, head, packet, runs, box, lost, checked>>
        /\ agent'[r] = (IF left THEN "left" ELSE "none")
    BY <1>0, <1>5 DEF AgentEnd, TypeOK
  <2>2. ~sub[r].approved /\ ~Survives(r) BY <1>0, <2>1 DEF RunsInv, Survives, Over
  <2>3. sub'[r].pc = "inspect2" /\ sub'[r].approved = sub[r].approved /\ sub'[r].worker = sub[r].worker
        /\ (left /\ Contained(r) => sub'[r].status = "Failed")
    BY <1>0, <1>5 DEF AgentEnd, TypeOK, Submission
  <2>4. TreeInv(r)' BY <2>1, <2>2, <2>3 DEF TreeInv
  <2>5. RunsInv(r)' BY <1>0, <2>1, <2>2, <2>3 DEF RunsInv, Survives, Over, Contained, Reserved
  <2>6. Owns(r) BY <2>1 DEF Owns, Prepared
  <2> QED BY <1>01, <2>1, <2>3, <2>4, <2>5, <2>6, LaterKept DEF Prepared, W
<1>6. CASE CommandSpawn(r)
  <2>1. sub[r].pc = "check" /\ UNCHANGED <<mode, worktree, head, packet, runs, agent, lost, checked>>
    BY <1>6 DEF CommandSpawn
  <2>2. ~sub[r].approved /\ ~Survives(r) BY <1>0, <2>1 DEF RunsInv, Survives, Over
  <2>3. sub'[r].pc = "wait" /\ sub'[r].approved = sub[r].approved /\ sub'[r].worker = sub[r].worker
    BY <1>0, <1>6 DEF CommandSpawn, Go, TypeOK, Submission
  <2>4. TreeInv(r)' BY <2>1, <2>2, <2>3 DEF TreeInv
  <2>5. RunsInv(r)' BY <1>0, <2>1, <2>2, <2>3 DEF RunsInv, Survives, Over, Contained, Reserved
  <2>6. Owns(r) BY <2>1 DEF Owns, Prepared
  <2> QED BY <1>01, <2>1, <2>3, <2>4, <2>5, <2>6, LaterKept DEF Prepared, W
<1>7. ASSUME NEW b \in BOOLEAN, CommandTimeout(r) \/ CommandEnd(r, b) \/ CommandError(r, b) PROVE Kept(r)
  <2>1. /\ sub[r].pc \in {"check", "wait"} /\ UNCHANGED <<mode, worktree, head, packet, runs, agent, lost>>
        /\ box'[r] \in {"none", box[r]}
    BY <1>0, <1>7 DEF CommandTimeout, CommandEnd, CommandError, StopAndRemove, TypeOK
  <2>2. ~sub[r].approved /\ (Survives(r) => box[r] # "none")
    BY <1>0, <2>1 DEF RunsInv, Survives, Over
  <2>3. /\ sub'[r].approved = sub[r].approved /\ sub'[r].worker = sub[r].worker
        /\ \/ sub'[r].pc = "save" /\ sub'[r].status = "ExecutorUnavailable"
           \/ sub'[r].pc = "inspect3" /\ sub'[r].status \in {"ChecksFailed", "Failed"}
           \/ sub'[r].pc = "artifacts" /\ checked'[r] = W(r) /\ box'[r] = "none"
    <3>1. CASE CommandTimeout(r) BY <1>0, <3>1 DEF CommandTimeout, TypeOK, Submission
    <3>2. CASE CommandEnd(r, b)
      <4>1. checked'[r] = W(r) /\ (b = TRUE => box'[r] = "none") BY <1>0, <3>2 DEF CommandEnd, TypeOK
      <4>2. CASE b = TRUE
        <5>1. sub' = [sub EXCEPT ![r].pc = "artifacts", ![r].status = @] BY <3>2, <4>2 DEF CommandEnd
        <5> QED BY <1>0, <4>1, <4>2, <5>1 DEF TypeOK, Submission
      <4>3. CASE b = FALSE
        <5>1. sub' = [sub EXCEPT ![r].pc = "inspect3", ![r].status = "ChecksFailed"] BY <3>2, <4>3 DEF CommandEnd
        <5> QED BY <1>0, <5>1 DEF TypeOK, Submission
      <4> QED BY <4>2, <4>3
    <3>3. CASE CommandError(r, b) BY <1>0, <3>3 DEF CommandError, Fail, TypeOK, Submission
    <3> QED BY <1>7, <3>1, <3>2, <3>3
  <2>4. TreeInv(r)' BY <2>1, <2>2, <2>3 DEF TreeInv, W
  <2>5. RunsInv(r)' BY <1>0, <2>1, <2>2, <2>3 DEF RunsInv, Survives, Over, Contained, Reserved
  <2>6. Owns(r) BY <2>1 DEF Owns, Prepared
  <2> QED BY <1>01, <2>1, <2>3, <2>4, <2>5, <2>6, LaterKept DEF Prepared, W
<1> QED BY <1>1, <1>2, <1>3, <1>4, <1>5, <1>6, <1>7

\* Creation of the worktree, the agent's start, the commit and the packet.
LEMMA MineShared ==
    ASSUME ChangeInv, NEW r \in Client,
           Prepare(r) \/ Implement(r) \/ Commit(r) \/ SaveBegin(r) \/ SaveEnd(r) \/ Crash(r) \/ Lose(r)
    PROVE  Kept(r)
<1>0. TypeOK /\ RunsInv(r) /\ TreeInv(r) /\ WorkerInv(r) /\ sub[r] \in Submission BY DEF ChangeInv, TypeOK
<1>00. agent[r] \in {"none", "running", "left"} /\ ChangeOf[r] \in Change /\ PacketInv(ChangeOf[r])
  BY ChangeAssumption DEF ChangeInv, TypeOK
<1>01. (Owns(r) => W(r) # None /\ W(r) \in Tree) BY <1>00 DEF ChangeInv, OwnerInv, TypeOK, W
<1>02. Base \in Tree /\ Base # None BY ChangeAssumption DEF Base, Tree
<1>1. CASE Prepare(r)
  <2>1. CASE W(r) # None
    <3>1. sub'[r].pc = "over" /\ sub'[r].approved = sub[r].approved
      BY <1>0, <1>1, <2>1 DEF Prepare, End, Fresh, TypeOK
    <3> QED BY <1>1, <2>1, <3>1, EarlyKept DEF Prepare
  <2>2. CASE W(r) = None
    <3>1. /\ sub[r].pc = "prepare" /\ UNCHANGED <<mode, packet, runs, agent, box, lost, checked>>
          /\ worktree' = [worktree EXCEPT ![ChangeOf[r]] = Base] /\ Go(r, "inspect1")
      BY <1>1, <2>2 DEF Prepare
    <3>2. ~sub[r].approved /\ ~Survives(r) BY <1>0, <3>1 DEF RunsInv, Survives, Over
    <3>3. sub'[r].pc = "inspect1" /\ sub'[r].approved = sub[r].approved
      BY <1>0, <3>1 DEF Go, TypeOK, Submission
    <3>4. W(r)' # None BY <1>0, <1>00, <1>02, <3>1 DEF TypeOK, W
    <3>5. RunsInv(r)' BY <1>0, <3>1, <3>2, <3>3 DEF RunsInv, Survives, Over, Contained, Reserved
    <3>6. TreeInv(r)' BY <3>2, <3>3 DEF TreeInv
    <3>7. runs[ChangeOf[r]] = <<>> /\ packet[ChangeOf[r]] = None BY <1>00, <2>2 DEF PacketInv, W
    <3>8. WorkerInv(r)' /\ PacketInv(ChangeOf[r])' BY <3>1, <3>7 DEF WorkerInv, PacketInv
    <3> QED BY <2>2, <3>4, <3>5, <3>6, <3>8 DEF Kept, Mine
  <2> QED BY <2>1, <2>2
<1>2. CASE Implement(r)
  <2>0. sub[r].pc = "implement" /\ Owns(r) /\ UNCHANGED <<mode, head, packet, box, lost, checked>>
    BY <1>2 DEF Implement, Owns, Prepared
  <2>00. ~sub[r].approved /\ ~Survives(r) BY <1>0, <2>0 DEF RunsInv, Survives, Over
  <2>1. CASE ~CheckExecution(r) \/ registry # sub[r].worker
    <3>1. UNCHANGED <<worktree, agent, runs>> /\ Fail(r, "Failed") BY <1>2, <2>1 DEF Implement
    <3>2. sub'[r].pc = "save" /\ sub'[r].approved = sub[r].approved /\ sub'[r].worker = sub[r].worker
      BY <1>0, <3>1 DEF Fail, TypeOK, Submission
    <3>3. TreeInv(r)' BY <2>0, <2>00, <3>1, <3>2 DEF TreeInv
    <3> QED BY <2>0, <2>00, <3>1, <3>2, <3>3, ControlKept DEF Prepared
  <2>2. CASE CheckExecution(r) /\ registry = sub[r].worker
    <3>1. /\ Go(r, "agent") /\ worktree' = [worktree EXCEPT ![ChangeOf[r]] = Bound(r)]
          /\ agent' = [agent EXCEPT ![r] = "running"] /\ runs' = [runs EXCEPT ![ChangeOf[r]] = Append(@, registry)]
      BY <1>2, <2>2 DEF Implement
    <3>2. sub'[r].pc = "agent" /\ sub'[r].approved = sub[r].approved /\ sub'[r].worker = sub[r].worker
      BY <1>0, <3>1 DEF Go, TypeOK, Submission
    <3>3. Bound(r) \in Tree BY <1>01, <2>0 DEF Bound, Tree
    <3>4. W(r)' # None BY <1>0, <1>00, <3>1, <3>3, ChangeAssumption DEF TypeOK, W, Tree
    <3>5. agent'[r] = "running" BY <1>0, <3>1 DEF TypeOK
    <3>6. RunsInv(r)' BY <1>0, <2>0, <2>00, <3>2, <3>5 DEF RunsInv, Survives, Over, Contained, Reserved
    <3>7. TreeInv(r)' BY <2>0, <2>00, <3>2 DEF TreeInv
    <3>8. runs[ChangeOf[r]] = <<>> /\ packet[ChangeOf[r]] = None BY <1>0, <2>0 DEF WorkerInv
    <3>9. runs'[ChangeOf[r]] = <<sub[r].worker>> BY <1>0, <1>00, <2>2, <3>1, <3>8 DEF TypeOK
    <3>10. WorkerInv(r)' BY <3>2, <3>9 DEF WorkerInv
    <3>11. PacketInv(ChangeOf[r])'
      <4>1. sub[r].worker \in 0 .. MaxEdits BY <1>0 DEF Submission
      <4> QED BY <2>0, <3>4, <3>8, <3>9, <4>1 DEF PacketInv, W
    <3> QED BY <2>0, <3>4, <3>6, <3>7, <3>10, <3>11 DEF Kept, Mine
  <2> QED BY <2>1, <2>2
<1>3. CASE Commit(r)
  <2> DEFINE c == ChangeOf[r]
  <2>1. /\ sub[r].pc = "commit" /\ UNCHANGED <<mode, worktree, packet, runs, agent, box, lost, checked>>
        /\ head' = [head EXCEPT ![c] = [q \in Path |-> IF q \in Source(sub[r].changed) THEN W(r)[q] ELSE head[c][q]]]
    BY <1>3 DEF Commit
  <2>2. sub'[r].pc = "save" /\ sub'[r].approved /\ sub'[r].worker = sub[r].worker
    BY <1>0, <1>3 DEF Commit, TypeOK, Submission
  <2>3. RunsInv(r)' BY <1>0, <2>1, <2>2 DEF RunsInv, Survives, Over, Contained, Reserved
  <2>4. Owns(r) BY <2>1 DEF Owns, Prepared
  <2>5. ASSUME Contained(r)
        PROVE  /\ \A q \in Path : head'[c][q] # 0 => q \in Allowed \ Ephemeral
               /\ \A q \in Path \ (Ephemeral \cup Ignored) : head'[c][q] = checked[r][q]
    <3>1. /\ head[c] = Base /\ sub[r].changed = Dirty(c) /\ Source(sub[r].changed) \subseteq Allowed
          /\ checked[r] = W(r)
      BY <1>0, <2>1, <2>5 DEF TreeInv, W
    <3>2. \A q \in Path : head'[c][q] = IF q \in Source(Dirty(c)) THEN W(r)[q] ELSE 0
      BY <1>0, <1>00, <2>1, <3>1 DEF TypeOK, Base
    <3>3. \A q \in Path \ (Ephemeral \cup Ignored) : q \notin Source(Dirty(c)) => W(r)[q] = 0
      BY <3>1 DEF Source, Dirty, W, Base
    <3>4. \A q \in Source(Dirty(c)) : q \in Allowed \ Ephemeral BY <3>1 DEF Source
    <3> QED BY <3>1, <3>2, <3>3, <3>4
  <2>6. TreeInv(r)' BY <2>1, <2>2, <2>5 DEF TreeInv, Contained
  <2> QED BY <1>01, <2>1, <2>2, <2>3, <2>4, <2>6, LaterKept DEF Prepared, W
<1>4. CASE SaveBegin(r) \/ SaveEnd(r)
  <2>1. /\ sub[r].pc \in {"save", "saving", "decide", "deciding"}
        /\ UNCHANGED <<mode, worktree, head, runs, agent, box, lost>>
    BY <1>4 DEF SaveBegin, SaveEnd
  <2>2. /\ sub'[r].pc \in {"saving", "decide", "deciding", "over"} /\ sub'[r].approved = sub[r].approved
        /\ sub'[r].pc # "over" => sub'[r].worker = sub[r].worker
        /\ sub'[r].status \in {"Prepared", sub[r].status}
    <3>1. (\E x \in {"saving", "decide", "deciding"} : Go(r, x)) \/ End(r)
      BY <1>4 DEF SaveBegin, SaveEnd
    <3>2. ASSUME NEW x \in {"saving", "decide", "deciding"}, Go(r, x)
          PROVE  /\ sub'[r].pc = x /\ sub'[r].approved = sub[r].approved /\ sub'[r].worker = sub[r].worker
                 /\ sub'[r].status = sub[r].status
      BY <1>0, <3>2 DEF Go, TypeOK, Submission
    <3>3. CASE End(r) BY <1>0, <3>3 DEF End, Fresh, TypeOK
    <3> QED BY <3>1, <3>2, <3>3
  <2>3. RunsInv(r)' BY <1>0, <2>1, <2>2 DEF RunsInv, Survives, Over, Contained, Reserved
  <2>4. TreeInv(r)' BY <1>0, <2>1, <2>2 DEF TreeInv, Contained
  <2>5. Owns(r) BY <2>1 DEF Owns, Prepared
  <2>6. runs[ChangeOf[r]] = <<>> \/ runs[ChangeOf[r]] = <<sub[r].worker>> BY <1>0, <2>1 DEF WorkerInv, Prepared
  <2>7. WorkerInv(r)' BY <2>1, <2>2, <2>6 DEF WorkerInv, Prepared
  <2>8. packet'[ChangeOf[r]].torn \/ packet'[ChangeOf[r]].worker = sub[r].worker
    <3>1. PICK x : packet' = [packet EXCEPT ![ChangeOf[r]] = x] /\ (x.torn \/ x.worker = sub[r].worker)
      <4>1. CASE SaveBegin(r)
        <5>1. packet' = [packet EXCEPT ![ChangeOf[r]] = Torn] BY <4>1 DEF SaveBegin
        <5>2. Torn.torn BY DEF Torn
        <5> QED BY <5>1, <5>2
      <4>2. CASE SaveEnd(r)
        <5> DEFINE x == Packet(r, IF sub[r].pc = "saving" THEN None ELSE KeyOf[r])
        <5>1. packet' = [packet EXCEPT ![ChangeOf[r]] = x] BY <4>2 DEF SaveEnd
        <5>2. x.worker = sub[r].worker BY DEF Packet
        <5> HIDE DEF x
        <5> QED BY <5>1, <5>2
      <4> QED BY <1>4, <4>1, <4>2
    <3> QED BY <1>0, <1>00, <3>1 DEF TypeOK
  <2>9. PacketInv(ChangeOf[r])'
    <3>1. sub[r].worker \in 0 .. MaxEdits BY <1>0 DEF Submission
    <3> QED BY <1>01, <2>1, <2>5, <2>6, <2>8, <3>1 DEF PacketInv, W
  <2> QED BY <1>01, <2>1, <2>3, <2>4, <2>5, <2>7, <2>9 DEF Kept, Mine, W
<1>5. CASE Crash(r)
  <2>1. /\ UNCHANGED <<mode, worktree, head, packet, runs, box, lost>> /\ End(r)
        /\ agent'[r] = IF agent[r] # "running" THEN agent[r] ELSE IF Contained(r) THEN "none" ELSE "left"
    BY <1>0, <1>5 DEF Crash, TypeOK
  <2>2. sub'[r].pc = "over" /\ sub'[r].approved = sub[r].approved /\ sub'[r].status = "Prepared"
    BY <1>0, <2>1 DEF End, Fresh, TypeOK
  <2>3. RunsInv(r)' BY <1>0, <2>1, <2>2 DEF RunsInv, Survives, Over, Contained, Reserved
  <2>4. TreeInv(r)' BY <1>0, <2>1, <2>2 DEF TreeInv, Contained
  <2>5. WorkerInv(r)' BY <2>2 DEF WorkerInv, Prepared
  <2>6. PacketInv(ChangeOf[r])' BY <1>00, <2>1 DEF PacketInv
  <2>7. Owns(r)' => Owns(r) BY <2>1, <2>2 DEF Owns, Prepared
  <2> QED BY <1>01, <2>1, <2>3, <2>4, <2>5, <2>6, <2>7 DEF Kept, Mine, W
<1>6. CASE Lose(r)
  <2>1. /\ UNCHANGED <<mode, sub, worktree, head, packet, runs, agent, box, checked>> /\ Reserved(r) /\ ~Ended(r)
        /\ lost'[r] = IF sub[r].pc \in {"commit", "save", "saving", "decide", "deciding"} THEN "late" ELSE "early"
    BY <1>0, <1>6 DEF Lose, TypeOK
  <2>2. RunsInv(r)' BY <1>0, <2>1 DEF RunsInv, Survives, Over, Contained, Reserved, Ended
  <2>3. TreeInv(r)' BY <1>0, <2>1 DEF TreeInv, Contained, Dirty, Source
  <2>4. WorkerInv(r)' BY <1>0, <2>1 DEF WorkerInv
  <2>5. PacketInv(ChangeOf[r])' BY <1>00, <2>1 DEF PacketInv
  <2>6. Owns(r)' => Owns(r) BY <2>1 DEF Owns
  <2> QED BY <1>01, <2>1, <2>2, <2>3, <2>4, <2>5, <2>6 DEF Kept, Mine, W
<1> QED BY <1>1, <1>2, <1>3, <1>4, <1>5, <1>6

-----------------------------------------------------------------------------
(* Types.                                                                    *)

\* Every step keeps the submissions typed.
LEMMA SubmissionTyped ==
    ASSUME ChangeInv, NEW r \in Client, Step(r) \/ Crash(r) \/ Lose(r)
    PROVE  sub' \in [Client -> Submission]
<1>0. TypeOK /\ sub[r] \in Submission /\ sub \in [Client -> Submission] BY DEF ChangeInv, TypeOK
<1>00. /\ {"select", "prepare", "inspect1", "implement", "agent", "inspect2", "fence1", "check", "wait",
           "artifacts", "inspect3", "fence2", "commit", "save", "saving", "decide", "deciding", "over"}
            \subseteq Pc
       /\ {"Failed", "PathPolicyFailed", "ChecksFailed", "ChecksPassed", "ExecutorUnavailable"} \subseteq Status
  BY DEF Pc, Status
<1>1. ASSUME End(r) \/ \E x \in Pc : Go(r, x) PROVE sub' \in [Client -> Submission]
  BY <1>0, <1>1, GoSet, EndSet
<1>2. ASSUME \E x \in Status : Fail(r, x) PROVE sub' \in [Client -> Submission] BY <1>0, <1>2, FailSet
<1>3. CASE \/ Scan(r) \/ Unselected(r) \/ Unresolved(r) \/ Prepare(r) \/ FenceBeforeChecks(r)
           \/ FenceBeforeCommit(r) \/ Implement(r) \/ CommandSpawn(r) \/ CommitFail(r) \/ SaveBegin(r) \/ SaveEnd(r)
           \/ Crash(r)
  <2>1. End(r) \/ (\E x \in Pc : Go(r, x)) \/ (\E x \in Status : Fail(r, x))
    BY <1>00, <1>3 DEF Scan, Unselected, Unresolved, Prepare, FenceBeforeChecks, FenceBeforeCommit,
       Implement, CommandSpawn, CommitFail, SaveBegin, SaveEnd, Crash
  <2> QED BY <1>1, <1>2, <2>1
<1>4. CASE Select(r)
  <2>1. registry \in 0 .. MaxEdits BY <1>0 DEF TypeOK
  <2>2. [sub[r] EXCEPT !.pc = "prepare", !.worker = registry] \in Submission BY <1>0, <1>00, <2>1 DEF Submission
  <2> QED BY <1>0, <1>4, <2>2, SubSet DEF Select
<1>5. ASSUME NEW next \in Pc, Inspected(r, next) PROVE sub' \in [Client -> Submission]
  <2> DEFINE paths == Dirty(ChangeOf[r])
  <2>1. paths \subseteq Path BY DEF Dirty
  <2>2. PICK s \in {[sub[r] EXCEPT !.pc = "save", !.status = "Failed"],
                    [sub[r] EXCEPT !.pc = "save", !.status = "PathPolicyFailed", !.changed = paths],
                    [sub[r] EXCEPT !.pc = next, !.changed = paths]} : sub' = [sub EXCEPT ![r] = s]
    BY <1>5 DEF Inspected
  <2> HIDE DEF paths
  <2>3. [sub[r] EXCEPT !.pc = "save", !.status = "Failed"] \in Submission BY <1>0, <1>00 DEF Submission
  <2>4. [sub[r] EXCEPT !.pc = "save", !.status = "PathPolicyFailed", !.changed = paths] \in Submission
    BY <1>0, <1>00, <2>1 DEF Submission
  <2>5. [sub[r] EXCEPT !.pc = next, !.changed = paths] \in Submission BY <1>0, <2>1 DEF Submission
  <2> QED BY <1>0, <2>2, <2>3, <2>4, <2>5, SubSet
<1>6. CASE InspectPrepared(r) \/ InspectImplemented(r) \/ InspectChecked(r)
  <2>1. \E next \in {"implement", "save", "fence1", "fence2"} : Inspected(r, next)
    BY <1>6 DEF InspectPrepared, InspectImplemented, InspectChecked
  <2> QED BY <1>00, <1>5, <2>1
<1>7. CASE \/ ImplementFail(r) \/ CommandTimeout(r) \/ AssertArtifacts(r)
           \/ \E ok, left \in BOOLEAN : AgentEnd(r, ok, left)
           \/ \E b \in BOOLEAN : CommandEnd(r, b) \/ CommandError(r, b)
  <2>1. ASSUME NEW x \in Pc, NEW y \in Status, sub' = [sub EXCEPT ![r].pc = x, ![r].status = y]
        PROVE  sub' \in [Client -> Submission]
    <3>1. [sub[r] EXCEPT !.pc = x, !.status = y] \in Submission BY <1>0 DEF Submission
    <3>2. sub' = [sub EXCEPT ![r] = [sub[r] EXCEPT !.pc = x, !.status = y]] BY <1>0, <2>1 DEF Submission
    <3> QED BY <1>0, <3>1, <3>2, SubSet
  <2>2. sub[r].status \in Status BY <1>0 DEF Submission
  <2>3. ASSUME NEW b \in BOOLEAN, CommandEnd(r, b) PROVE sub' \in [Client -> Submission]
    <3>1. sub' = [sub EXCEPT ![r].pc = IF b THEN "artifacts" ELSE "inspect3",
                             ![r].status = IF b THEN sub[r].status ELSE "ChecksFailed"]
      BY <1>0, <2>3 DEF CommandEnd
    <3>2. (IF b THEN "artifacts" ELSE "inspect3") \in Pc /\ (IF b THEN sub[r].status ELSE "ChecksFailed") \in Status
      BY <1>00, <2>2
    <3> QED BY <2>1, <3>1, <3>2
  <2>4. ASSUME NEW ok \in BOOLEAN, NEW left \in BOOLEAN, AgentEnd(r, ok, left) PROVE sub' \in [Client -> Submission]
    <3>1. sub' = [sub EXCEPT ![r].pc = "inspect2", ![r].status = IF ok THEN sub[r].status ELSE "Failed"]
      BY <1>0, <2>4 DEF AgentEnd
    <3>2. (IF ok THEN sub[r].status ELSE "Failed") \in Status BY <1>00, <2>2
    <3> QED BY <1>00, <2>1, <3>1, <3>2
  <2>5. ASSUME NEW b \in BOOLEAN, CommandError(r, b) PROVE sub' \in [Client -> Submission]
    <3>1. CASE b = TRUE BY <1>00, <1>2, <2>5, <3>1 DEF CommandError
    <3>2. CASE b = FALSE
      <4>1. sub' = [sub EXCEPT ![r].pc = "inspect3", ![r].status = "Failed"] BY <2>5, <3>2 DEF CommandError
      <4> QED BY <1>00, <2>1, <4>1
    <3> QED BY <3>1, <3>2
  <2>6. CASE ImplementFail(r) \/ CommandTimeout(r) \/ AssertArtifacts(r)
    <3>1. \/ sub' = [sub EXCEPT ![r].pc = "inspect2", ![r].status = "Failed"]
          \/ sub' = [sub EXCEPT ![r].pc = "inspect3", ![r].status = "ChecksFailed"]
          \/ sub' = [sub EXCEPT ![r].pc = "inspect3", ![r].status = "ChecksPassed"]
      BY <2>6 DEF ImplementFail, CommandTimeout, AssertArtifacts
    <3> QED BY <1>00, <2>1, <3>1
  <2> QED BY <1>7, <2>3, <2>4, <2>5, <2>6
<1>8. CASE Commit(r)
  <2>1. [sub[r] EXCEPT !.pc = "save", !.approved = TRUE] \in Submission BY <1>0, <1>00 DEF Submission
  <2>2. sub' = [sub EXCEPT ![r] = [sub[r] EXCEPT !.pc = "save", !.approved = TRUE]] BY <1>0, <1>8 DEF Commit, Submission
  <2> QED BY <1>0, <2>1, <2>2, SubSet
<1>9. CASE \/ AgentConnect(r) \/ AgentDisconnect(r) \/ MoveHead(r) \/ Lose(r)
           \/ \E q \in Path : AgentWrite(r, q) \/ CommandWrite(r, q)
  BY <1>0, <1>9 DEF AgentConnect, AgentDisconnect, MoveHead, Lose, AgentWrite,
     CommandWrite, changeVars
<1> QED BY <1>3, <1>4, <1>6, <1>7, <1>8, <1>9 DEF Step

\* Every step keeps the types of the trees and of what runs.
LEMMA ChangeTyped ==
    ASSUME ChangeInv, FenceTypeOK', NEW r \in Client, Step(r) \/ Crash(r) \/ Lose(r)
    PROVE  TypeOK'
<1>0. TypeOK /\ ChangeOf[r] \in Change /\ (Owns(r) => W(r) \in Tree) /\ Base \in Tree
  BY ChangeAssumption DEF ChangeInv, OwnerInv, TypeOK, W, Base, Tree
<1>00. sub' \in [Client -> Submission] BY SubmissionTyped
<1> USE DEF TypeOK
<1>1. CASE \/ Scan(r) \/ Select(r) \/ Unselected(r) \/ Unresolved(r)
           \/ InspectPrepared(r) \/ InspectImplemented(r) \/ InspectChecked(r)
           \/ FenceBeforeChecks(r) \/ FenceBeforeCommit(r) \/ ImplementFail(r)
           \/ CommandSpawn(r) \/ AssertArtifacts(r) \/ CommitFail(r)
  BY <1>0, <1>00, <1>1 DEF Scan, Select, Unselected, Unresolved, InspectPrepared, InspectImplemented,
     InspectChecked, FenceBeforeChecks, FenceBeforeCommit, ImplementFail, CommandSpawn, AssertArtifacts, CommitFail
<1>2. CASE \/ AgentConnect(r) \/ AgentDisconnect(r) \/ CommandTimeout(r)
           \/ SaveBegin(r) \/ SaveEnd(r) \/ Crash(r) \/ Lose(r)
           \/ (\E ok, left \in BOOLEAN : AgentEnd(r, ok, left)) \/ (\E b \in BOOLEAN : CommandError(r, b))
  BY <1>0, <1>00, <1>2 DEF AgentConnect, AgentDisconnect, CommandTimeout,
     StopAndRemove, SaveBegin, SaveEnd, Crash, Lose, AgentEnd, CommandError, changeVars
<1>3. CASE Prepare(r) BY <1>0, <1>00, <1>3 DEF Prepare
<1>4. CASE Implement(r)
  <2>1. Owns(r) BY <1>4 DEF Implement, Owns, Prepared
  <2>2. Bound(r) \in Tree BY <1>0, <2>1 DEF Bound, Tree
  <2> QED BY <1>0, <1>00, <1>4, <2>2 DEF Implement
<1>5. ASSUME NEW q \in Path, AgentWrite(r, q) \/ CommandWrite(r, q) PROVE TypeOK'
  <2>1. Owns(r) /\ worktree' = [worktree EXCEPT ![ChangeOf[r]][q] = @ + 1]
    BY <1>5 DEF AgentWrite, CommandWrite, Owns
  <2>2. [W(r) EXCEPT ![q] = @ + 1] \in Tree BY <1>0, <2>1 DEF Tree
  <2>3. worktree' = [worktree EXCEPT ![ChangeOf[r]] = [W(r) EXCEPT ![q] = @ + 1]] BY <2>1 DEF W
  <2>4. worktree' \in [Change -> Tree \cup {None}] BY <1>0, <2>2, <2>3
  <2> QED BY <1>0, <1>00, <1>5, <2>4 DEF AgentWrite, CommandWrite
<1>6. CASE MoveHead(r)
  <2>1. Owns(r) BY <1>6 DEF MoveHead, Owns
  <2>2. [q \in Path |-> IF q \in Ignored THEN 0 ELSE W(r)[q]] \in Tree BY <1>0, <2>1 DEF Tree
  <2> QED BY <1>0, <1>00, <1>6, <2>2 DEF MoveHead
<1>7. ASSUME NEW b \in BOOLEAN, CommandEnd(r, b) PROVE TypeOK'
  <2>1. Owns(r) BY <1>7 DEF CommandEnd, Owns, Prepared
  <2> QED BY <1>0, <1>00, <1>7, <2>1 DEF CommandEnd
<1>8. CASE Commit(r)
  <2> DEFINE tree == [q \in Path |-> IF q \in Source(sub[r].changed) THEN W(r)[q] ELSE head[ChangeOf[r]][q]]
  <2>1. Owns(r) BY <1>8 DEF Commit, Owns, Prepared
  <2>2. tree \in Tree BY <1>0, <2>1 DEF Tree
  <2>3. head' = [head EXCEPT ![ChangeOf[r]] = tree] BY <1>8 DEF Commit
  <2>4. head' \in [Change -> Tree] BY <1>0, <2>2, <2>3
  <2> QED BY <1>0, <1>00, <1>8, <2>4 DEF Commit
<1> QED BY <1>1, <1>2, <1>3, <1>4, <1>5, <1>6, <1>7, <1>8 DEF Step

-----------------------------------------------------------------------------
(* The invariant and the theorems.                                           *)

\* Nothing submitted, nothing changed, nothing running.
LEMMA ChangeInit == Init => ChangeInv
<1> SUFFICES ASSUME Init PROVE ChangeInv OBVIOUS
<1> USE ChangeAssumption
<1>0. Base \in Tree /\ "new" \in Pc /\ "Prepared" \in Status BY DEF Base, Tree, Pc, Status
<1>1. FenceInv BY FenceStart DEF Init
<1>2. TypeOK
  <2>1. Fresh \in Submission BY <1>0 DEF Fresh, Submission
  <2>2. mode \in [Client -> {"reserved", "sandbox", "open"}] BY DEF Init
  <2> QED BY <1>0, <1>1, <2>1, <2>2 DEF Init, TypeOK, FenceInv
<1>3. \A p \in Client : ~Owns(p) /\ RunsInv(p) /\ TreeInv(p) /\ WorkerInv(p)
  BY DEF Init, Fresh, Owns, Prepared, RunsInv, Survives, TreeInv, WorkerInv
<1>4. OwnerInv BY <1>3 DEF OwnerInv
<1>5. \A c \in Change : PacketInv(c) BY DEF Init, PacketInv
<1> QED BY <1>1, <1>2, <1>3, <1>4, <1>5 DEF ChangeInv

\* A step of a submission keeps the invariant of the others, whose changes are
\* theirs alone.
LEMMA ChangeClientStep ==
    ASSUME ChangeInv, FenceInv', NEW r \in Client, Step(r) \/ Crash(r) \/ Lose(r)
    PROVE  ChangeInv'
<1> USE ChangeAssumption
<1>1. Kept(r) BY MineControl, MineRuns, MineShared DEF Step
<1>2. TypeOK /\ \A p \in Client : ChangeOf[p] \in Change BY DEF ChangeInv
<1>3. ASSUME NEW p \in Client \ {r}
      PROVE  /\ Owns(p)' <=> Owns(p)
             /\ RunsInv(p)' /\ TreeInv(p)' /\ WorkerInv(p)'
  <2>1. /\ mode' = mode /\ sub'[p] = sub[p] /\ agent'[p] = agent[p] /\ box'[p] = box[p]
        /\ lost'[p] = lost[p] /\ checked'[p] = checked[p]
    BY <1>2, Elsewhere
  <2>2. Owns(p)' <=> Owns(p) BY <2>1 DEF Owns
  <2>3. RunsInv(p) /\ TreeInv(p) /\ WorkerInv(p) BY DEF ChangeInv
  <2>4. RunsInv(p)' BY <2>1, <2>3 DEF RunsInv, Survives, Over, Contained, Reserved
  <2>5. CASE Owns(p)
    <3>1. /\ worktree'[ChangeOf[p]] = worktree[ChangeOf[p]] /\ head'[ChangeOf[p]] = head[ChangeOf[p]]
          /\ packet'[ChangeOf[p]] = packet[ChangeOf[p]] /\ runs'[ChangeOf[p]] = runs[ChangeOf[p]]
      BY <2>5, OwnersApart
    <3>2. TreeInv(p)' BY <2>1, <2>3, <3>1 DEF TreeInv, Contained, Dirty, Source
    <3>3. WorkerInv(p)' BY <2>1, <2>3, <3>1 DEF WorkerInv
    <3> QED BY <2>2, <2>4, <3>2, <3>3
  <2>6. CASE ~Owns(p)
    <3>1. TreeInv(p)' /\ WorkerInv(p)' BY <2>1, <2>6 DEF TreeInv, WorkerInv, Owns, Prepared
    <3> QED BY <2>2, <2>4, <3>1
  <2> QED BY <2>5, <2>6
<1>4. ASSUME NEW c \in Change PROVE PacketInv(c)'
  <2>1. CASE c = ChangeOf[r] BY <1>1, <2>1 DEF Kept, Mine
  <2>2. CASE c # ChangeOf[r]
    <3>1. worktree'[c] = worktree[c] /\ packet'[c] = packet[c] /\ runs'[c] = runs[c] BY <1>2, <2>2, Elsewhere
    <3> QED BY <3>1 DEF ChangeInv, PacketInv
  <2> QED BY <2>1, <2>2
<1>5. OwnerInv'
  <2>1. ASSUME NEW p \in Client, Owns(p)' PROVE worktree'[ChangeOf[p]] # None
    <3>1. CASE p = r BY <1>1, <2>1, <3>1 DEF Kept, W
    <3>2. CASE p # r
      <4>1. Owns(p) /\ worktree[ChangeOf[p]] # None BY <1>3, <2>1, <3>2 DEF ChangeInv, OwnerInv
      <4> QED BY <3>2, <4>1, OwnersApart
    <3> QED BY <3>1, <3>2
  <2>2. ASSUME NEW p \in Client, NEW q \in Client, Owns(p)', Owns(q)', ChangeOf[p] = ChangeOf[q], p # q PROVE FALSE
    <3>1. ASSUME NEW s \in Client \ {r}, Owns(s), Owns(r)', ChangeOf[s] = ChangeOf[r] PROVE FALSE
      <4>1. W(r) # None BY <3>1 DEF ChangeInv, OwnerInv, W
      <4>2. Owns(r) BY <1>1, <3>1, <4>1 DEF Kept
      <4> QED BY <3>1, <4>2 DEF ChangeInv, OwnerInv
    <3>2. CASE p = r BY <1>3, <2>2, <3>1, <3>2
    <3>3. CASE q = r BY <1>3, <2>2, <3>1, <3>3
    <3>4. CASE p # r /\ q # r BY <1>3, <2>2, <3>4 DEF ChangeInv, OwnerInv
    <3> QED BY <3>2, <3>3, <3>4
  <2> QED BY <2>1, <2>2 DEF OwnerInv
<1>6. TypeOK' BY ChangeTyped DEF FenceInv
<1>7. RunsInv(r)' /\ TreeInv(r)' /\ WorkerInv(r)' BY <1>1 DEF Kept, Mine
<1> QED BY <1>3, <1>4, <1>5, <1>6, <1>7 DEF ChangeInv

\* Every step of a submission, the runtime and the registry keeps the invariant.
LEMMA ChangeStep == ChangeInv /\ [Next]_vars => ChangeInv'
<1> SUFFICES ASSUME ChangeInv, [Next]_vars PROVE ChangeInv' OBVIOUS
<1>1. FenceInv' BY ChangeStepFence, FenceStep DEF ChangeInv
<1>2. CASE \E p \in Client : Step(p) \/ Crash(p) \/ Lose(p) BY <1>1, <1>2, ChangeClientStep
<1>3. ASSUME UNCHANGED <<mode, sub, worktree, head, packet, agent, box, lost, runs, checked>>,
             registry' \in 0 .. MaxEdits
      PROVE  ChangeInv'
  <2>1. TypeOK' BY <1>1, <1>3 DEF ChangeInv, TypeOK, FenceInv
  <2>2. OwnerInv' BY <1>3 DEF ChangeInv, OwnerInv, Owns
  <2>3. \A p \in Client : RunsInv(p)' /\ TreeInv(p)' /\ WorkerInv(p)'
    BY <1>3 DEF ChangeInv, RunsInv, Survives, TreeInv, WorkerInv, Contained, Reserved, Dirty, Source
  <2>4. \A c \in Change : PacketInv(c)' BY <1>3 DEF ChangeInv, PacketInv
  <2> QED BY <1>1, <2>1, <2>2, <2>3, <2>4 DEF ChangeInv
<1>4. registry \in 0 .. MaxEdits BY DEF ChangeInv, TypeOK
<1>5. CASE EditRegistry
  <2>1. registry' \in 0 .. MaxEdits BY <1>4, <1>5, ChangeAssumption DEF EditRegistry
  <2> QED BY <1>3, <1>5, <2>1 DEF EditRegistry
<1>6. CASE \E pt \in Port : RuntimeStep(pt) /\ UNCHANGED changeVars BY <1>3, <1>4, <1>6 DEF changeVars
<1>7. CASE UNCHANGED vars BY <1>3, <1>4, <1>7 DEF vars, changeVars
<1> QED BY <1>2, <1>5, <1>6, <1>7 DEF Next

\* The invariant of the execution of changes, for any number of submissions,
\* changes and paths (ChangeExecution.Next).
THEOREM ChangeInvariant == Spec => []ChangeInv
BY ChangeInit, ChangeStep, PTL DEF Spec

\* An accepted revision is allowed, is what the commands passed on, and was
\* still wanted (Inspected, CheckExecution, materialize_accepted_revision),
\* whatever agents, commands, crashes and other submissions do.
THEOREM ChangeAcceptedSound == Spec => []AcceptedSound
<1>1. ChangeInv => AcceptedSound
  BY DEF ChangeInv, RunsInv, TreeInv, AcceptedSound, AcceptedAllowed, AcceptedChecked, LostNotAccepted
<1> QED BY <1>1, ChangeInvariant, PTL

\* At most one agent is started for a change, the one its packet names
\* (Prepare, Implement, SaveEnd).
THEOREM ChangeImplementedOnce == Spec => []ImplementedOnce
<1>1. ChangeInv => ImplementedOnce
  <2> SUFFICES ASSUME ChangeInv, NEW c \in Change
               PROVE  /\ Len(runs[c]) <= 1
                      /\ c \in Saved /\ ~packet[c].torn =>
                           \A i \in DOMAIN runs[c] : runs[c][i] = packet[c].worker
    BY DEF ImplementedOnce
  <2>1. PacketInv(c) BY DEF ChangeInv
  <2>2. CASE runs[c] = <<>> BY <2>2
  <2>3. ASSUME NEW w \in 0 .. MaxEdits, runs[c] = <<w>>,
               packet[c] # None /\ ~packet[c].torn => packet[c].worker = w
        PROVE  /\ Len(runs[c]) <= 1
               /\ c \in Saved /\ ~packet[c].torn =>
                    \A i \in DOMAIN runs[c] : runs[c][i] = packet[c].worker
    <3>1. Len(runs[c]) = 1 /\ \A i \in DOMAIN runs[c] : runs[c][i] = w BY <2>3
    <3> QED BY <2>3, <3>1 DEF Saved
  <2> QED BY <2>1, <2>2, <2>3 DEF PacketInv
<1> QED BY <1>1, ChangeInvariant, PTL

\* The acceptance commands of a contained submission start when its agent is
\* gone, and what is accepted has neither an agent nor a container left, though
\* both may outlive their clean-up (AgentEnd, StopAndRemove): the error that
\* reports it rejects the change (InspectImplemented, InspectChecked).
THEOREM ChangeQuiet == Spec => []Quiet
<1>1. ChangeInv => Quiet
  BY DEF ChangeInv, RunsInv, Survives, Over, Quiet, TypeOK
<1> QED BY <1>1, ChangeInvariant, PTL
=============================================================================
