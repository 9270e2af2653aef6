----------------------------- MODULE QueueProofs -----------------------------
(* What a task, its lease and its run state are safe from, whatever          *)
(* run-next processes interleave or die: proofs about TaskQueue.             *)
EXTENDS TaskQueue, TLAPS

Chosen == {"place", "claim", "acquire", "write", "refused", "start", "invoke", "execute", "save",
           "move", "release", "remove", "after", "restore"}
Begun == {"invoke", "execute", "save", "move"}

RunOf(t) == [status : {"Queued", "Running", "Succeeded", "Failed"}, attempt : Nat,
             nodes : [NodesOf(t) -> {"Pending", "Running", "Succeeded", "Failed"}]]

\* What a process carries belongs to the task it has chosen.
PlanInv ==
    /\ \A t \in Task : run[t] # None => run[t] \in RunOf(t)
    /\ \A p \in Procs :
          /\ proc[p].pc \in Chosen =>
                /\ proc[p].task \in Task /\ proc[p].node \in NodesOf(proc[p].task)
                /\ proc[p].run \in RunOf(proc[p].task)
          /\ proc[p].pc \in Begun => proc[p].next \in RunOf(proc[p].task)
          /\ proc[p].pc \in {"save", "move"} => proc[p].invoked /\ proc[p].dest \in {"queued", "history"}
          /\ proc[p].pc = "execute" => proc[p].invoked

\* A run state, saved or in memory, says nothing about a node that is not true.
Sound(t, r) == \A n \in NodesOf(t) : r.nodes[n] = "Succeeded" => n \in done[t]
DoneInv ==
    /\ \A t \in Task : run[t] # None => Sound(t, run[t])
    /\ \A p \in Procs :
          /\ proc[p].pc \in Chosen =>
                /\ Sound(proc[p].task, proc[p].run)
                /\ Deps[proc[p].task][proc[p].node] \subseteq done[proc[p].task]
          /\ proc[p].pc \in Begun => Sound(proc[p].task, proc[p].next)

\* The process that moved a task to running has it for itself until it files
\* the outcome, or gives the task back because the worker was never invoked.
Claims(p) ==
    \/ proc[p].pc \in {"acquire", "write", "refused", "start", "invoke", "execute", "save", "move"}
    \/ proc[p].pc \in {"release", "remove", "after"} /\ ~proc[p].invoked
Working(p) == proc[p].pc \in {"execute", "save"}
OpenInv ==
    /\ \A p \in Procs : Claims(p) => spec[proc[p].task] = "running"
    /\ \A p, q \in Procs : Claims(p) /\ Claims(q) /\ proc[p].task = proc[q].task => p = q
    /\ \A t \in Task : open[t] \in {0, 1} /\ (open[t] = 1 => spec[t] = "running")
    /\ \A p \in Procs : Claims(p) => open[proc[p].task] = IF Working(p) THEN 1 ELSE 0

\* The leases of an attempt: all of them from the last write to the first
\* removal; authority.lock is held while they are written or removed.
HeldInv ==
    /\ \A r \in Resources : lease[r] # None => lease[r] \in 1 .. gen
    /\ \A p \in Procs : proc[p].gen \in 0 .. gen
    /\ \A p, q \in Procs : proc[p].gen # 0 /\ proc[p].gen = proc[q].gen => p = q
    /\ \A p \in Procs : Holds(p) => proc[p].gen # 0 /\ Needs(p) \subseteq Resources
    /\ \A p \in Procs : proc[p].pc \in {"write", "remove"} => lock = p /\ proc[p].todo \subseteq Needs(p)
    /\ \A p \in Procs : Holds(p) => \A r \in Needs(p) :
          /\ r \notin claims
          /\ lease[r] = IF (proc[p].pc = "write" /\ r \in proc[p].todo)
                           \/ (proc[p].pc = "remove" /\ r \notin proc[p].todo) THEN None ELSE proc[p].gen
    /\ \A p \in Procs : \A r \in Resources : Holds(p) /\ lease[r] = proc[p].gen => r \in Needs(p)

QueueInv == TypeOK /\ PlanInv /\ DoneInv /\ OpenInv /\ HeldInv /\ LeaseAccounted
-----------------------------------------------------------------------------
(* Types.                                                                    *)

\* One process changes, to a state of its type.
LEMMA ProcSet ==
    ASSUME TypeOK, NEW p \in Procs, NEW c \in Process, proc' = [proc EXCEPT ![p] = c]
    PROVE  proc' \in [Procs -> Process]
BY DEF TypeOK

\* Going to a place keeps the processes typed.
LEMMA PcSet ==
    ASSUME TypeOK, NEW p \in Procs, NEW x \in Pc, proc' = [proc EXCEPT ![p].pc = x]
    PROVE  proc' \in [Procs -> Process]
<1>1. [proc[p] EXCEPT !.pc = x] \in Process BY DEF TypeOK, Process
<1> QED BY <1>1, ProcSet

\* A process that ends, or dies, carries nothing.
LEMMA IdleSet ==
    ASSUME TypeOK, NEW p \in Procs,
           proc' = [proc EXCEPT ![p] = Idle] \/ proc' = [proc EXCEPT ![p] = [Idle EXCEPT !.pc = "dead"]]
    PROVE  proc' \in [Procs -> Process]
<1>0. "idle" \in Pc BY DEF Pc
<1>1. Idle \in Process BY <1>0 DEF Idle, Process
<1>2. [Idle EXCEPT !.pc = "dead"] \in Process BY <1>1 DEF Process, Pc
<1> QED BY <1>1, <1>2, ProcSet

\* The run states of a task are run states.
LEMMA RunStates == ASSUME NEW t \in Task PROVE RunOf(t) \subseteq RunState
BY DEF RunOf, RunState

\* What is written back of an attempt is a run state of its task.
LEMMA StartedType ==
    ASSUME PlanInv, NEW p \in Procs, proc[p].pc \in Chosen
    PROVE  Started(p) \in RunOf(proc[p].task)
<1> DEFINE s == proc[p].run
           nodes == [s.nodes EXCEPT ![proc[p].node] = "Running"]
           n == s.attempt + 1
<1>1. s \in RunOf(proc[p].task) BY DEF PlanInv
<1>2. nodes \in [NodesOf(proc[p].task) -> {"Pending", "Running", "Succeeded", "Failed"}] BY <1>1 DEF RunOf
<1>3. n \in Nat BY <1>1 DEF RunOf
<1>4. Started(p) = [s EXCEPT !.status = "Running", !.attempt = n, !.nodes = nodes] BY <1>1 DEF Started, RunOf
<1> HIDE DEF s, n, nodes
<1> QED BY <1>1, <1>2, <1>3, <1>4 DEF RunOf

\* The outcome of an attempt is a run state of its task.
LEMMA ResolvedType ==
    ASSUME PlanInv, NEW p \in Procs, proc[p].pc = "execute", NEW ok \in BOOLEAN
    PROVE  Resolved(p, ok) \in RunOf(proc[p].task)
<1> DEFINE s == proc[p].next
           n == proc[p].node
           after == [s.nodes EXCEPT ![n] = IF ok THEN "Succeeded" ELSE IF CanRetry(s) THEN "Pending" ELSE "Failed"]
           status == IF ok THEN IF Range(after) = {"Succeeded"} THEN "Succeeded" ELSE "Queued"
                     ELSE IF CanRetry(s) THEN "Queued" ELSE "Failed"
<1>1. s \in RunOf(proc[p].task) /\ n \in NodesOf(proc[p].task) BY DEF PlanInv, Chosen, Begun
<1>2. after \in [NodesOf(proc[p].task) -> {"Pending", "Running", "Succeeded", "Failed"}] BY <1>1 DEF RunOf
<1>3. status \in {"Queued", "Running", "Succeeded", "Failed"} OBVIOUS
<1>4. Resolved(p, ok) = [s EXCEPT !.nodes = after, !.status = status] BY DEF Resolved
<1> HIDE DEF s, n, after, status
<1> QED BY <1>1, <1>2, <1>3, <1>4 DEF RunOf

\* A worker needs resources.
LEMMA NeedsType ==
    ASSUME PlanInv, NEW p \in Procs, proc[p].pc \in Chosen
    PROVE  Needs(p) \subseteq Resources
BY DEF PlanInv, Needs, Resources

\* A process that moves keeps its type.
LEMMA TypeProc ==
    ASSUME TypeOK, PlanInv, NEW p \in Procs, Step(p) \/ Crash(p)
    PROVE  proc' \in [Procs -> Process]
<1> USE DEF TypeOK
<1>0. /\ "scan" \in Pc /\ "place" \in Pc /\ "acquire" \in Pc /\ "refused" \in Pc /\ "write" \in Pc /\ "invoke" \in Pc
      /\ "execute" \in Pc /\ "save" \in Pc /\ "remove" \in Pc /\ "restore" \in Pc
  BY DEF Pc
<1>1. CASE SelectList(p)
  <2>1. [proc[p] EXCEPT !.pc = "scan", !.scan = {t \in Task : spec[t] = "queued"}] \in Process BY <1>0 DEF Process
  <2> QED BY <1>1, <2>1, ProcSet DEF SelectList
<1>2. CASE SelectLoad(p)
  <2>1. CASE proc' = [proc EXCEPT ![p] = Idle] BY <2>1, IdleSet
  <2>2. ASSUME NEW t \in proc[p].scan, Selectable(t), NEW i \in ReadyNodes(t, run[t]),
               proc' = [proc EXCEPT ![p] = [@ EXCEPT !.pc = "place", !.scan = proc[p].scan \ {t}, !.task = t,
                                                     !.run = run[t], !.node = Nodes[t][i]]]
        PROVE  proc' \in [Procs -> Process]
    <3>1. t \in Task /\ proc[p].scan \ {t} \in SUBSET Task BY DEF Process
    <3>2. run[t] \in RunState BY <2>2, <3>1 DEF Selectable
    <3>3. Nodes[t][i] \in Node BY <2>2, <3>1 DEF ReadyNodes, Node, NodesOf, Range
    <3>4. [proc[p] EXCEPT !.pc = "place", !.scan = proc[p].scan \ {t}, !.task = t,
                          !.run = run[t], !.node = Nodes[t][i]] \in Process
      BY <1>0, <3>1, <3>2, <3>3 DEF Process
    <3> QED BY <2>2, <3>4, ProcSet
  <2> QED BY <1>2, <2>1, <2>2 DEF SelectLoad
<1>3. CASE \/ SelectPlace(p) \/ AcquireTimeout(p) \/ AcquireFail(p) \/ StartFail(p) \/ SaveOutcome(p)
           \/ SaveFail(p) \/ Move(p) \/ ReleaseTimeout(p)
  <2>1. PICK x \in {"scan", "claim", "refused", "release", "move", "after"} : proc' = [proc EXCEPT ![p].pc = x]
    BY <1>3 DEF SelectPlace, AcquireTimeout, AcquireFail, StartFail, SaveOutcome, SaveFail, Move, ReleaseTimeout
  <2> QED BY <2>1, PcSet DEF Pc
<1>4. CASE Claim(p)
  <2>1. [proc[p] EXCEPT !.pc = "acquire"] \in Process BY <1>0 DEF Process
  <2> QED BY <1>4, <2>1, IdleSet, ProcSet DEF Claim
<1>5. CASE AcquireLock(p)
  <2>1. CASE Blocked(Needs(p)) # {}
    <3>1. [proc[p] EXCEPT !.pc = "refused"] \in Process BY <1>0 DEF Process
    <3> QED BY <1>5, <2>1, <3>1, ProcSet DEF AcquireLock
  <2>2. CASE Blocked(Needs(p)) = {}
    <3>1. Needs(p) \in SUBSET Resources BY <1>5, NeedsType DEF AcquireLock, Chosen
    <3>2. gen + 1 \in Nat OBVIOUS
    <3>3. [proc[p] EXCEPT !.pc = "write", !.gen = gen + 1, !.todo = Needs(p)] \in Process
      BY <1>0, <3>1, <3>2 DEF Process
    <3> QED BY <1>5, <2>2, <3>3, ProcSet DEF AcquireLock
  <2> QED BY <2>1, <2>2
<1>6. ASSUME NEW r \in Resources, AcquireWrite(p, r) \/ RemoveFile(p, r) PROVE proc' \in [Procs -> Process]
  <2> DEFINE rest == proc[p].todo \ {r}
  <2>1. PICK x \in {"start", "write", "after", "remove"} :
           proc' = [proc EXCEPT ![p] = [@ EXCEPT !.todo = rest, !.pc = x]]
    BY <1>6 DEF AcquireWrite, RemoveFile
  <2>2. rest \in SUBSET Resources BY DEF Process
  <2>3. x \in Pc BY DEF Pc
  <2> HIDE DEF rest
  <2>4. [proc[p] EXCEPT !.todo = rest, !.pc = x] \in Process BY <2>2, <2>3 DEF Process
  <2> QED BY <2>1, <2>4, ProcSet
<1>7. CASE Refused(p) \/ Restore(p) \/ Crash(p) BY <1>7, IdleSet DEF Refused, Restore, Crash
<1>8. CASE Start(p)
  <2>1. Started(p) \in RunState BY <1>8, StartedType, RunStates DEF Start, Chosen, PlanInv
  <2>2. [proc[p] EXCEPT !.pc = "invoke", !.next = Started(p)] \in Process BY <1>0, <2>1 DEF Process
  <2> QED BY <1>8, <2>2, ProcSet DEF Start
<1>9. CASE Invoke(p)
  <2>1. [proc[p] EXCEPT !.pc = "execute", !.invoked = TRUE] \in Process BY <1>0 DEF Process
  <2> QED BY <1>9, <2>1, ProcSet DEF Invoke
<1>10. ASSUME NEW ok \in BOOLEAN, Execute(p, ok) PROVE proc' \in [Procs -> Process]
  <2> DEFINE next == Resolved(p, ok)
             dest == IF next.status = "Queued" THEN "queued" ELSE "history"
  <2>1. next \in RunState BY <1>10, ResolvedType, RunStates DEF Execute, Chosen, PlanInv
  <2>2. dest \in {None, "queued", "history"} OBVIOUS
  <2>3. proc' = [proc EXCEPT ![p] = [@ EXCEPT !.pc = "save", !.next = next, !.dest = dest]] BY <1>10 DEF Execute
  <2> HIDE DEF next, dest
  <2>4. [proc[p] EXCEPT !.pc = "save", !.next = next, !.dest = dest] \in Process BY <1>0, <2>1, <2>2 DEF Process
  <2> QED BY <2>3, <2>4, ProcSet
<1>11. CASE ReleaseLock(p)
  <2>1. Needs(p) \in SUBSET Resources BY <1>11, NeedsType DEF ReleaseLock, Chosen
  <2>2. [proc[p] EXCEPT !.pc = "remove", !.todo = Needs(p)] \in Process BY <1>0, <2>1 DEF Process
  <2> QED BY <1>11, <2>2, ProcSet DEF ReleaseLock
<1>12. CASE After(p)
  <2>1. [proc[p] EXCEPT !.pc = "restore"] \in Process BY <1>0 DEF Process
  <2> QED BY <1>12, <2>1, IdleSet, ProcSet DEF After
<1> QED BY <1>1, <1>2, <1>3, <1>4, <1>5, <1>6, <1>7, <1>8, <1>9, <1>10, <1>11, <1>12 DEF Step

\* Every step keeps the types of the files and of the histories.
LEMMA TypeStep == QueueInv /\ [Next]_vars => TypeOK'
<1> SUFFICES ASSUME QueueInv, [Next]_vars PROVE TypeOK' OBVIOUS
<1> USE QueueAssumption DEF QueueInv, TypeOK, ghosts
<1>1. ASSUME NEW t \in Task, SubmitSpec(t) \/ SubmitRun(t) PROVE TypeOK'
  <2>1. Queued(t) \in RunState
    <3>1. Queued(t) \in RunOf(t) BY DEF Queued, RunOf
    <3> QED BY <3>1, RunStates
  <2> QED BY <1>1, <2>1 DEF SubmitSpec, SubmitRun
<1>2. ASSUME NEW p \in Procs, Step(p) \/ Crash(p) PROVE TypeOK'
  <2>1. proc' \in [Procs -> Process] BY <1>2, TypeProc
  <2>2. proc[p] \in Process OBVIOUS
  <2>3. CASE SelectList(p) \/ SelectLoad(p) BY <2>1, <2>3 DEF SelectList, SelectLoad
  <2>4. CASE SelectPlace(p) BY <2>1, <2>2, <2>4 DEF SelectPlace, PlanInv, Chosen, Process
  <2>5. CASE Claim(p) \/ Refused(p) \/ After(p) BY <2>1, <2>5 DEF Claim, Refused, After
  <2>6. CASE AcquireLock(p) \/ AcquireTimeout(p) BY <2>1, <2>6 DEF AcquireLock, AcquireTimeout
  <2>7. CASE AcquireFail(p) BY <2>1, <2>7 DEF AcquireFail, RemoveOwned
  <2>8. ASSUME NEW r \in Resources, AcquireWrite(p, r) \/ RemoveFile(p, r) PROVE TypeOK'
    <3>1. proc[p].pc = "write" => proc[p].gen \in 1 .. MaxRuns BY DEF HeldInv, Holds
    <3> QED BY <2>1, <2>8, <3>1 DEF AcquireWrite, RemoveFile
  <2>9. CASE Start(p)
    <3>1. Started(p) \in RunState /\ proc[p].task \in Task
      BY <2>9, StartedType, RunStates DEF Start, Chosen, PlanInv
    <3> QED BY <2>1, <2>9, <3>1 DEF Start
  <2>10. CASE StartFail(p) \/ SaveFail(p) \/ ReleaseLock(p) BY <2>1, <2>10 DEF StartFail, SaveFail, ReleaseLock
  <2>11. CASE Invoke(p) BY <2>1, <2>11 DEF Invoke, PlanInv, Chosen
  <2>12. ASSUME NEW ok \in BOOLEAN, Execute(p, ok) PROVE TypeOK'
    <3>1. proc[p].node \in Node BY <2>12 DEF Execute, PlanInv, Chosen, Node
    <3> QED BY <2>1, <2>12, <3>1 DEF Execute
  <2>13. CASE SaveOutcome(p)
    <3>1. proc[p].task \in Task /\ proc[p].next \in RunState
      BY <2>13, RunStates DEF SaveOutcome, PlanInv, Chosen, Begun
    <3>2. open[proc[p].task] = 1 BY <2>13 DEF SaveOutcome, OpenInv, Claims, Working
    <3> QED BY <2>1, <2>13, <3>1, <3>2 DEF SaveOutcome
  <2>14. CASE Move(p)
    <3>1. proc[p].dest \in {"queued", "history"} BY <2>14 DEF Move, PlanInv
    <3> QED BY <2>1, <2>14, <3>1 DEF Move
  <2>15. CASE ReleaseTimeout(p)
    <3>1. proc[p].gen \in 1 .. MaxRuns BY <2>15 DEF ReleaseTimeout, HeldInv, Holds
    <3> QED BY <2>1, <2>15, <3>1 DEF ReleaseTimeout
  <2>16. CASE Restore(p)
    <3>1. [proc[p].run EXCEPT !.status = "Queued"] \in RunState
      <4>1. proc[p].run \in RunOf(proc[p].task) /\ proc[p].task \in Task BY <2>16 DEF Restore, PlanInv, Chosen
      <4>2. proc[p].run \in RunState BY <4>1, RunStates
      <4> QED BY <4>2 DEF RunState
    <3> QED BY <2>1, <2>16, <3>1 DEF Restore
  <2>17. CASE Crash(p) BY <2>1, <2>2, <2>17 DEF Crash, HeldInv, Process
  <2> QED BY <1>2, <2>3, <2>4, <2>5, <2>6, <2>7, <2>8, <2>9, <2>10, <2>11, <2>12, <2>13, <2>14, <2>15, <2>16, <2>17 DEF Step
<1>3. ASSUME NEW r \in Resources, ManagedClaim(r) \/ ManagedRelease(r) PROVE TypeOK'
  BY <1>3 DEF ManagedClaim, ManagedRelease
<1>4. CASE UNCHANGED vars BY <1>4 DEF vars
<1> QED BY <1>1, <1>2, <1>3, <1>4 DEF Next

-----------------------------------------------------------------------------
(* What a step of a process leaves alone.                                    *)

\* The other processes.
LEMMA Others ==
    ASSUME TypeOK, NEW p \in Procs, Step(p) \/ Crash(p)
    PROVE  \A q \in Procs \ {p} : proc'[q] = proc[q]
BY DEF TypeOK, Step, Crash, SelectList, SelectLoad, SelectPlace, Claim, AcquireLock, AcquireTimeout, AcquireFail,
       Refused, AcquireWrite, RemoveFile, Start, StartFail, Invoke, Execute, SaveOutcome, SaveFail, Move,
       ReleaseLock, ReleaseTimeout, After, Restore

\* What it has chosen, where it only moves on.
SamePlan(p) ==
    /\ proc'[p].task = proc[p].task /\ proc'[p].node = proc[p].node /\ proc'[p].run = proc[p].run
    /\ proc'[p].next = proc[p].next /\ proc'[p].dest = proc[p].dest /\ proc'[p].invoked = proc[p].invoked

\* The steps that keep what was planned.
LEMMA MovesOn ==
    ASSUME TypeOK, NEW p \in Procs,
           \/ SelectPlace(p) \/ AcquireLock(p) \/ AcquireTimeout(p) \/ AcquireFail(p) \/ StartFail(p)
           \/ SaveOutcome(p) \/ SaveFail(p) \/ Move(p) \/ ReleaseLock(p) \/ ReleaseTimeout(p)
           \/ \E r \in Resources : AcquireWrite(p, r) \/ RemoveFile(p, r)
    PROVE  SamePlan(p)
<1> USE DEF TypeOK, Process, SamePlan
<1>1. CASE SelectPlace(p) \/ AcquireTimeout(p) \/ AcquireFail(p) \/ StartFail(p) \/ ReleaseTimeout(p)
  BY <1>1 DEF SelectPlace, AcquireTimeout, AcquireFail, StartFail, ReleaseTimeout
<1>2. CASE SaveOutcome(p) \/ SaveFail(p) \/ Move(p) BY <1>2 DEF SaveOutcome, SaveFail, Move
<1>3. CASE AcquireLock(p)
  <2>1. CASE proc' = [proc EXCEPT ![p].pc = "refused"] BY <2>1
  <2>2. CASE proc' = [proc EXCEPT ![p] = [@ EXCEPT !.pc = "write", !.gen = gen + 1, !.todo = Needs(p)]] BY <2>2
  <2> QED BY <1>3, <2>1, <2>2 DEF AcquireLock
<1>4. CASE ReleaseLock(p) BY <1>4 DEF ReleaseLock
<1>5. ASSUME NEW r \in Resources, AcquireWrite(p, r) PROVE SamePlan(p) BY <1>5 DEF AcquireWrite
<1>6. ASSUME NEW r \in Resources, RemoveFile(p, r) PROVE SamePlan(p)
  <2>1. PICK todo, pc : proc' = [proc EXCEPT ![p] = [@ EXCEPT !.todo = todo, !.pc = pc]] BY <1>6 DEF RemoveFile
  <2> QED BY <2>1
<1> QED BY <1>1, <1>2, <1>3, <1>4, <1>5, <1>6

\* Where the steps that write several fields lead.
LEMMA AcquireEffect ==
    ASSUME TypeOK, NEW p \in Procs, AcquireLock(p)
    PROVE  \/ proc'[p].pc = "refused" /\ proc'[p].gen = proc[p].gen /\ UNCHANGED <<gen, lock>>
           \/ /\ Blocked(Needs(p)) = {} /\ gen' = gen + 1 /\ lock' = p
              /\ proc'[p].pc = "write" /\ proc'[p].gen = gen' /\ proc'[p].todo = Needs(p)
<1>1. CASE proc' = [proc EXCEPT ![p].pc = "refused"] /\ UNCHANGED <<gen, lock>> BY <1>1 DEF TypeOK, Process
<1>2. CASE /\ Blocked(Needs(p)) = {} /\ gen' = gen + 1 /\ lock' = p
           /\ proc' = [proc EXCEPT ![p] = [@ EXCEPT !.pc = "write", !.gen = gen + 1, !.todo = Needs(p)]]
  BY <1>2 DEF TypeOK, Process
<1> QED BY <1>1, <1>2 DEF AcquireLock

\* One lease file is written or removed; after the last one the process goes on.
LEMMA FilesEffect ==
    ASSUME TypeOK, NEW p \in Procs, NEW r \in Resources, AcquireWrite(p, r) \/ RemoveFile(p, r)
    PROVE  LET rest == proc[p].todo \ {r} IN
           /\ proc'[p].todo = rest /\ proc'[p].gen = proc[p].gen
           /\ proc'[p].pc = IF rest # {} THEN proc[p].pc
                            ELSE IF proc[p].pc = "write" THEN "start" ELSE "after"
<1> DEFINE pc == IF proc[p].todo \ {r} # {} THEN proc[p].pc ELSE IF proc[p].pc = "write" THEN "start" ELSE "after"
<1>1. proc' = [proc EXCEPT ![p] = [@ EXCEPT !.todo = proc[p].todo \ {r}, !.pc = pc]]
  <2>1. CASE AcquireWrite(p, r) BY <2>1 DEF AcquireWrite
  <2>2. CASE RemoveFile(p, r) BY <2>2 DEF RemoveFile
  <2> QED BY <2>1, <2>2
<1> HIDE DEF pc
<1>2. proc'[p].todo = proc[p].todo \ {r} /\ proc'[p].gen = proc[p].gen /\ proc'[p].pc = pc
  BY <1>1 DEF TypeOK, Process
<1> QED BY <1>2 DEF pc
\* Every step keeps what a process carries with its task.
LEMMA PlanStep == QueueInv /\ [Next]_vars => PlanInv'
<1> SUFFICES ASSUME QueueInv, [Next]_vars PROVE PlanInv' OBVIOUS
<1> USE DEF QueueInv, PlanInv, TypeOK, Process, Chosen, Begun, ghosts
<1>1. ASSUME NEW t \in Task, SubmitSpec(t) \/ SubmitRun(t) PROVE PlanInv'
  <2>1. Queued(t) \in RunOf(t) BY DEF Queued, RunOf
  <2> QED BY <1>1, <2>1 DEF SubmitSpec, SubmitRun
<1>2. ASSUME NEW p \in Procs, Step(p) \/ Crash(p) PROVE PlanInv'
  <2>0. \A q \in Procs \ {p} : proc'[q] = proc[q] BY <1>2, Others
  <2>1. CASE SelectList(p) BY <2>1 DEF SelectList
  <2>2. CASE SelectLoad(p)
    <3>1. CASE proc' = [proc EXCEPT ![p] = Idle] BY <2>2, <3>1 DEF SelectLoad, Idle
    <3>2. ASSUME NEW t \in proc[p].scan, Selectable(t), NEW i \in ReadyNodes(t, run[t]),
                 proc' = [proc EXCEPT ![p] = [@ EXCEPT !.pc = "place", !.scan = proc[p].scan \ {t}, !.task = t,
                                                       !.run = run[t], !.node = Nodes[t][i]]]
          PROVE  PlanInv'
      <4>1. t \in Task /\ run[t] \in RunOf(t) BY <3>2 DEF Selectable
      <4>2. Nodes[t][i] \in NodesOf(t) BY <3>2 DEF ReadyNodes, NodesOf, Range
      <4>3. proc'[p].task = t /\ proc'[p].node = Nodes[t][i] /\ proc'[p].run = run[t] /\ proc'[p].pc = "place" BY <3>2
      <4> QED BY <2>0, <2>2, <4>1, <4>2, <4>3 DEF SelectLoad
    <3> QED BY <2>2, <3>1, <3>2 DEF SelectLoad
  <2>3. CASE SelectPlace(p) BY <2>3 DEF SelectPlace
  <2>4. CASE Claim(p) BY <2>4 DEF Claim, Idle
  <2>5. CASE AcquireLock(p) \/ AcquireTimeout(p)
    <3>1. proc'[p].pc \in {"write", "refused"} BY <2>5, AcquireEffect DEF AcquireTimeout
    <3>2. proc[p].pc \in Chosen /\ UNCHANGED run BY <2>5 DEF AcquireLock, AcquireTimeout
    <3> QED BY <2>0, <2>5, <3>1, <3>2, MovesOn DEF SamePlan
  <2>6. CASE AcquireFail(p) \/ Refused(p) BY <2>6 DEF AcquireFail, Refused, Idle
  <2>7. ASSUME NEW r \in Resources, AcquireWrite(p, r) \/ RemoveFile(p, r) PROVE PlanInv'
    <3>1. proc[p].pc \in {"write", "remove"} /\ UNCHANGED run BY <2>7 DEF AcquireWrite, RemoveFile
    <3>2. proc'[p].pc \in {"write", "start", "remove", "after"} BY <2>7, <3>1, FilesEffect
    <3> QED BY <2>0, <2>7, <3>1, <3>2, MovesOn DEF SamePlan
  <2>8. CASE Start(p)
    <3>1. Started(p) \in RunOf(proc[p].task) BY <2>8, StartedType DEF Start
    <3> QED BY <2>8, <3>1 DEF Start
  <2>9. CASE StartFail(p) \/ SaveFail(p) BY <2>9 DEF StartFail, SaveFail
  <2>10. CASE Invoke(p) BY <2>10 DEF Invoke
  <2>11. ASSUME NEW ok \in BOOLEAN, Execute(p, ok) PROVE PlanInv'
    <3>1. Resolved(p, ok) \in RunOf(proc[p].task) BY <2>11, ResolvedType DEF Execute
    <3> QED BY <2>11, <3>1 DEF Execute
  <2>12. CASE SaveOutcome(p)
    <3>1. proc[p].task \in Task /\ proc[p].next \in RunOf(proc[p].task) BY <2>12 DEF SaveOutcome
    <3>2. proc[p].pc = "save" /\ proc'[p].pc = "move" BY <2>12 DEF SaveOutcome
    <3>3. SamePlan(p) BY <2>12, MovesOn
    <3>4. run' = [run EXCEPT ![proc[p].task] = proc[p].next] BY <2>12 DEF SaveOutcome
    <3> QED BY <2>0, <3>1, <3>2, <3>3, <3>4 DEF SamePlan
  <2>13. CASE Move(p) \/ ReleaseTimeout(p)
    <3>1. proc[p].pc \in Chosen /\ proc'[p].pc \in {"release", "after"} /\ UNCHANGED run
      BY <2>13 DEF Move, ReleaseTimeout
    <3> QED BY <2>0, <2>13, <3>1, MovesOn DEF SamePlan
  <2>17. CASE ReleaseLock(p)
    <3>1. proc'[p].pc = "remove" /\ proc[p].pc = "release" /\ UNCHANGED run BY <2>17 DEF ReleaseLock
    <3> QED BY <2>0, <2>17, <3>1, MovesOn DEF SamePlan
  <2>14. CASE After(p) BY <2>14 DEF After, Idle
  <2>15. CASE Restore(p)
    <3>1. [proc[p].run EXCEPT !.status = "Queued"] \in RunOf(proc[p].task) BY <2>15 DEF Restore, RunOf
    <3> QED BY <2>15, <3>1 DEF Restore, Idle
  <2>16. CASE Crash(p) BY <2>16 DEF Crash, Idle
  <2> QED BY <1>2, <2>1, <2>2, <2>3, <2>4, <2>5, <2>6, <2>7, <2>8, <2>9, <2>10, <2>11, <2>12, <2>13, <2>14, <2>15, <2>16, <2>17 DEF Step
<1>3. ASSUME NEW r \in Resources, ManagedClaim(r) \/ ManagedRelease(r) PROVE PlanInv'
  BY <1>3 DEF ManagedClaim, ManagedRelease
<1>4. CASE UNCHANGED vars BY <1>4 DEF vars
<1> QED BY <1>1, <1>2, <1>3, <1>4 DEF Next

-----------------------------------------------------------------------------
(* The parts of the invariant, step by step.                                 *)

\* Run states stay true of the nodes that were completed.
LEMMA DoneFrame ==
    ASSUME QueueInv, NEW p \in Procs, UNCHANGED <<run, done>>, \A q \in Procs \ {p} : proc'[q] = proc[q],
           \/ proc'[p].pc \notin Chosen
           \/ SamePlan(p) /\ proc[p].pc \in Chosen /\ (proc'[p].pc \in Begun => proc[p].pc \in Begun)
    PROVE  DoneInv'
BY DEF QueueInv, DoneInv, Sound, SamePlan, Chosen, Begun

\* What is recorded as done stays so.
LEMMA DoneStep == QueueInv /\ [Next]_vars => DoneInv'
<1> SUFFICES ASSUME QueueInv, [Next]_vars PROVE DoneInv' OBVIOUS
<1> USE DEF QueueInv, ghosts
<1>1. ASSUME NEW t \in Task, SubmitSpec(t) \/ SubmitRun(t) PROVE DoneInv'
  <2>1. UNCHANGED <<proc, done>> /\ (run' = run \/ run' = [run EXCEPT ![t] = Queued(t)]) BY <1>1 DEF SubmitSpec, SubmitRun
  <2>2. Sound(t, Queued(t)) BY DEF Sound, Queued
  <2> QED BY <2>1, <2>2 DEF DoneInv, Sound, TypeOK
<1>2. ASSUME NEW p \in Procs, Step(p) \/ Crash(p) PROVE DoneInv'
  <2>0. (\A q \in Procs \ {p} : proc'[q] = proc[q]) /\ proc[p] \in Process BY <1>2, Others DEF TypeOK
  <2>1. CASE SelectList(p)
    <3>1. proc'[p].pc = "scan" BY <2>0, <2>1 DEF SelectList, TypeOK, Process
    <3> QED BY <2>0, <2>1, <3>1, DoneFrame DEF SelectList, Chosen
  <2>2. CASE SelectLoad(p)
    <3>1. CASE proc' = [proc EXCEPT ![p] = Idle]
      BY <2>0, <2>2, <3>1, DoneFrame DEF SelectLoad, Idle, TypeOK, Chosen
    <3>2. ASSUME NEW t \in proc[p].scan, Selectable(t), NEW i \in ReadyNodes(t, run[t]),
                 proc' = [proc EXCEPT ![p] = [@ EXCEPT !.pc = "place", !.scan = proc[p].scan \ {t}, !.task = t,
                                                       !.run = run[t], !.node = Nodes[t][i]]]
          PROVE  DoneInv'
      <4>1. t \in Task /\ run[t] # None BY <2>0, <3>2 DEF Selectable, Process
      <4>2. Nodes[t][i] \in NodesOf(t) BY <3>2 DEF ReadyNodes, NodesOf, Range
      <4>3. Sound(t, run[t]) BY <4>1 DEF DoneInv
      <4>4. Deps[t][Nodes[t][i]] \subseteq done[t]
        BY <3>2, <4>1, <4>2, <4>3, QueueAssumption DEF ReadyNodes, Sound
      <4>5. proc'[p].task = t /\ proc'[p].node = Nodes[t][i] /\ proc'[p].run = run[t] /\ proc'[p].pc = "place"
        BY <3>2 DEF TypeOK, Process
      <4>6. UNCHANGED <<run, done>> BY <2>2 DEF SelectLoad
      <4> QED BY <2>0, <4>3, <4>4, <4>5, <4>6 DEF DoneInv, Sound, Begun
    <3> QED BY <2>2, <3>1, <3>2 DEF SelectLoad
  <2>3. CASE SelectPlace(p)
    <3>1. proc[p].pc = "place" /\ proc'[p].pc \in {"scan", "claim"} /\ SamePlan(p)
      BY <2>3, MovesOn DEF SelectPlace, TypeOK, Process
    <3> QED BY <2>0, <2>3, <3>1 DEF SelectPlace, DoneInv, PlanInv, TypeOK, Sound, SamePlan, Chosen, Begun
  <2>4. CASE Claim(p)
    <3>1. proc'[p].pc \in {"acquire", "idle"} BY <2>4 DEF Claim, TypeOK, Process, Idle
    <3>2. CASE spec[proc[p].task] = "queued"
      <4>1. SamePlan(p) BY <2>4, <3>2 DEF Claim, SamePlan, TypeOK, Process
      <4> QED BY <2>0, <2>4, <3>1, <4>1, DoneFrame DEF Claim, Chosen, Begun
    <3>3. CASE spec[proc[p].task] # "queued"
      <4>1. proc'[p].pc = "idle" BY <2>4, <3>3 DEF Claim, TypeOK, Idle
      <4> QED BY <2>0, <2>4, <4>1, DoneFrame DEF Claim, Chosen
    <3> QED BY <3>2, <3>3
  <2>5. CASE AcquireLock(p) \/ AcquireTimeout(p)
    <3>1. proc'[p].pc \in {"write", "refused"} BY <2>5, AcquireEffect DEF AcquireTimeout, TypeOK, Process
    <3>2. proc[p].pc \in Chosen /\ UNCHANGED <<run, done>> BY <2>5 DEF AcquireLock, AcquireTimeout, Chosen
    <3>3. SamePlan(p) BY <2>5, MovesOn
    <3> QED BY <2>0, <3>1, <3>2, <3>3, DoneFrame DEF Begun
  <2>6. ASSUME NEW r \in Resources, AcquireWrite(p, r) \/ RemoveFile(p, r) PROVE DoneInv'
    <3>1. proc[p].pc \in {"write", "remove"} /\ UNCHANGED <<run, done>> BY <2>6 DEF AcquireWrite, RemoveFile
    <3>2. proc'[p].pc \in {"write", "start", "remove", "after"} BY <2>6, <3>1, FilesEffect
    <3> QED BY <2>0, <2>6, <3>1, <3>2, MovesOn, DoneFrame DEF Chosen, Begun
  <2>7. CASE AcquireFail(p) \/ StartFail(p) \/ SaveFail(p) \/ Move(p) \/ ReleaseTimeout(p)
    <3>1. proc'[p].pc \in {"refused", "release", "after"} /\ proc[p].pc \in Chosen /\ UNCHANGED <<run, done>>
      BY <2>0, <2>7 DEF AcquireFail, StartFail, SaveFail, Move, ReleaseTimeout, TypeOK, Process, Chosen
    <3> QED BY <2>0, <2>7, <3>1, MovesOn, DoneFrame DEF Begun
  <2>15. CASE ReleaseLock(p)
    <3>1. proc'[p].pc = "remove" /\ proc[p].pc = "release" /\ UNCHANGED <<run, done>>
      BY <2>0, <2>15 DEF ReleaseLock, TypeOK, Process
    <3> QED BY <2>0, <2>15, <3>1, MovesOn, DoneFrame DEF Chosen, Begun
  <2>8. CASE Start(p)
    <3>1. /\ proc'[p].pc = "invoke" /\ proc'[p].next = Started(p) /\ proc'[p].task = proc[p].task
          /\ proc'[p].node = proc[p].node /\ proc'[p].run = proc[p].run
      BY <2>8 DEF Start, TypeOK, Process
    <3>2. proc[p].task \in Task /\ proc[p].run \in RunOf(proc[p].task) /\ Sound(proc[p].task, proc[p].run)
      BY <2>8 DEF Start, PlanInv, DoneInv, Chosen
    <3>3. Sound(proc[p].task, Started(p)) BY <3>2 DEF Started, Sound, RunOf
    <3> QED BY <2>0, <2>8, <3>1, <3>2, <3>3 DEF Start, DoneInv, PlanInv, TypeOK, Sound, Chosen, Begun
  <2>9. CASE Invoke(p)
    <3>1. proc'[p].pc = "execute" /\ proc'[p].task = proc[p].task /\ proc'[p].node = proc[p].node
          /\ proc'[p].run = proc[p].run /\ proc'[p].next = proc[p].next
      BY <2>9 DEF Invoke, TypeOK, Process
    <3> QED BY <2>0, <2>9, <3>1 DEF Invoke, DoneInv, Sound, Chosen, Begun
  <2>10. ASSUME NEW ok \in BOOLEAN, Execute(p, ok) PROVE DoneInv'
    <3> DEFINE t == proc[p].task
    <3>1. proc'[p].pc = "save" /\ proc'[p].task = t /\ proc'[p].node = proc[p].node /\ proc'[p].run = proc[p].run
          /\ proc'[p].next = Resolved(p, ok)
      BY <2>10 DEF Execute, TypeOK, Process
    <3>2. t \in Task /\ proc[p].node \in NodesOf(t) /\ proc[p].next \in RunOf(t) /\ Sound(t, proc[p].next)
      BY <2>10 DEF Execute, PlanInv, DoneInv, Chosen, Begun
    <3>3. (\A u \in Task : done[u] \subseteq done'[u]) /\ (ok => proc[p].node \in done'[t])
      BY <2>10, <3>2 DEF Execute, TypeOK
    <3>4. \A n \in NodesOf(t) : Resolved(p, ok).nodes[n] = "Succeeded" => n \in done'[t]
      <4> DEFINE x == IF ok THEN "Succeeded" ELSE IF CanRetry(proc[p].next) THEN "Pending" ELSE "Failed"
      <4>1. Resolved(p, ok).nodes = [proc[p].next.nodes EXCEPT ![proc[p].node] = x] BY <3>2 DEF Resolved, RunOf
      <4>2. x = "Succeeded" => ok OBVIOUS
      <4> HIDE DEF x
      <4> QED BY <3>2, <3>3, <4>1, <4>2 DEF Sound, RunOf
    <3> QED BY <2>0, <2>10, <3>1, <3>2, <3>3, <3>4 DEF Execute, DoneInv, PlanInv, Sound, Chosen, Begun
  <2>11. CASE SaveOutcome(p)
    <3>1. proc[p].pc = "save" /\ proc'[p].pc = "move" /\ SamePlan(p)
      BY <2>11, MovesOn DEF SaveOutcome, TypeOK, Process
    <3> QED BY <2>0, <2>11, <3>1 DEF SaveOutcome, DoneInv, PlanInv, TypeOK, Sound, SamePlan, Chosen, Begun
  <2>12. CASE After(p)
    <3>1. CASE proc[p].invoked
      <4>1. proc'[p].pc = "idle" BY <2>12, <3>1 DEF After, Idle, TypeOK
      <4> QED BY <2>0, <2>12, <4>1, DoneFrame DEF After, Chosen
    <3>2. CASE ~proc[p].invoked
      <4>1. SamePlan(p) /\ proc'[p].pc = "restore" BY <2>12, <3>2 DEF After, SamePlan, TypeOK, Process
      <4> QED BY <2>0, <2>12, <4>1, DoneFrame DEF After, Chosen, Begun
    <3> QED BY <3>1, <3>2
  <2>13. CASE Restore(p)
    <3>1. proc'[p].pc = "idle" BY <2>13 DEF Restore, Idle, TypeOK
    <3>2. proc[p].task \in Task /\ proc[p].run \in RunOf(proc[p].task) /\ Sound(proc[p].task, proc[p].run)
      BY <2>13 DEF Restore, PlanInv, DoneInv, Chosen
    <3>3. Sound(proc[p].task, [proc[p].run EXCEPT !.status = "Queued"]) BY <3>2 DEF Sound, RunOf
    <3> QED BY <2>0, <2>13, <3>1, <3>2, <3>3 DEF Restore, DoneInv, TypeOK, Sound, Chosen, Begun
  <2>14. CASE Refused(p) \/ Crash(p)
    <3>1. proc'[p].pc \in {"idle", "dead"} /\ UNCHANGED <<run, done>> BY <2>14 DEF Refused, Crash, Idle, TypeOK
    <3> QED BY <2>0, <3>1, DoneFrame DEF Chosen
  <2> QED BY <1>2, <2>1, <2>2, <2>3, <2>4, <2>5, <2>6, <2>7, <2>8, <2>9, <2>10, <2>11, <2>12, <2>13, <2>14, <2>15 DEF Step
<1>3. ASSUME NEW r \in Resources, ManagedClaim(r) \/ ManagedRelease(r) PROVE DoneInv'
  BY <1>3 DEF ManagedClaim, ManagedRelease, DoneInv, Sound
<1>4. CASE UNCHANGED vars BY <1>4 DEF vars, DoneInv, Sound
<1> QED BY <1>1, <1>2, <1>3, <1>4 DEF Next

\* A task that is claimed stays with its process; one invocation is open while
\* the worker runs.
LEMMA OpenFrame ==
    ASSUME QueueInv, NEW p \in Procs, UNCHANGED <<spec, open>>, \A q \in Procs \ {p} : proc'[q] = proc[q],
           Claims(p)' => Claims(p) /\ proc'[p].task = proc[p].task /\ (Working(p)' <=> Working(p))
    PROVE  OpenInv'
BY DEF QueueInv, OpenInv, Claims, Working

\* The task of a process that claims it changes hands with nobody else's.
LEMMA OpenMine ==
    ASSUME QueueInv, NEW p \in Procs, Claims(p), \A q \in Procs \ {p} : proc'[q] = proc[q],
           NEW t \in Task, t = proc[p].task, NEW x, NEW n \in {0, 1},
           spec' = [spec EXCEPT ![t] = x], open' = [open EXCEPT ![t] = n],
           n = 1 => x = "running",
           Claims(p)' => proc'[p].task = t /\ x = "running" /\ n = IF Working(p)' THEN 1 ELSE 0
    PROVE  OpenInv'
BY DEF QueueInv, OpenInv, TypeOK, Claims, Working

\* A process that lets a task go after its outcome was saved, or before the worker ran.
LEMMA OpenGive ==
    ASSUME QueueInv, NEW p \in Procs, Claims(p), ~Working(p), \A q \in Procs \ {p} : proc'[q] = proc[q],
           NEW x, spec' = [spec EXCEPT ![proc[p].task] = x], UNCHANGED open, ~Claims(p)'
    PROVE  OpenInv'
<1>1. open[proc[p].task] = 0 BY DEF QueueInv, OpenInv
<1> QED BY <1>1 DEF QueueInv, OpenInv, TypeOK, Claims, Working

\* One claim, one open attempt: kept by every step.
LEMMA OpenStep == QueueInv /\ [Next]_vars => OpenInv'
<1> SUFFICES ASSUME QueueInv, [Next]_vars PROVE OpenInv' OBVIOUS
<1> USE DEF QueueInv, ghosts
<1>1. ASSUME NEW t \in Task, SubmitSpec(t) \/ SubmitRun(t) PROVE OpenInv'
  <2>1. UNCHANGED <<proc, open>> /\ \A u \in Task : spec[u] = "running" => spec'[u] = "running"
    BY <1>1 DEF SubmitSpec, SubmitRun, TypeOK
  <2>2. \A q \in Procs : Claims(q) => proc[q].task \in Task BY DEF Claims, PlanInv, Chosen
  <2> QED BY <2>1, <2>2 DEF OpenInv, Claims, Working
<1>2. ASSUME NEW p \in Procs, Step(p) \/ Crash(p) PROVE OpenInv'
  <2> DEFINE t == proc[p].task
  <2>0. (\A q \in Procs \ {p} : proc'[q] = proc[q]) /\ proc[p] \in Process BY <1>2, Others DEF TypeOK
  <2>00. proc[p].pc \in Chosen => t \in Task /\ spec[t] \in {"absent", "queued", "running", "history"} /\ open[t] \in {0, 1}
    BY DEF PlanInv, TypeOK, OpenInv
  <2>1. CASE SelectList(p) \/ SelectPlace(p)
    <3>1. proc'[p].pc \in {"scan", "claim"} /\ UNCHANGED <<spec, open>>
      BY <2>0, <2>1 DEF SelectList, SelectPlace, TypeOK, Process
    <3> QED BY <2>0, <3>1, OpenFrame DEF Claims
  <2>2. CASE SelectLoad(p)
    <3>1. UNCHANGED <<spec, open>> BY <2>2 DEF SelectLoad
    <3>2. proc'[p].pc \in {"idle", "place"}
      <4>1. CASE proc' = [proc EXCEPT ![p] = Idle] BY <4>1 DEF TypeOK, Idle
      <4>2. ASSUME NEW t1, NEW i, proc' = [proc EXCEPT ![p] = [@ EXCEPT !.pc = "place", !.scan = proc[p].scan \ {t1},
                                                  !.task = t1, !.run = run[t1], !.node = Nodes[t1][i]]]
            PROVE  proc'[p].pc = "place"
        BY <4>2 DEF TypeOK, Process
      <4> QED BY <2>2, <4>1, <4>2 DEF SelectLoad
    <3> QED BY <2>0, <3>1, <3>2, OpenFrame DEF Claims
  <2>3. CASE Claim(p)
    <3>1. CASE spec[t] = "queued"
      <4>1. /\ proc'[p].pc = "acquire" /\ proc'[p].task = t /\ UNCHANGED open
            /\ spec' = [spec EXCEPT ![t] = "running"] /\ t \in Task
        BY <2>0, <2>00, <2>3, <3>1 DEF Claim, TypeOK, Process, Chosen
      <4>2. open[t] = 0 BY <3>1, <4>1 DEF OpenInv
      <4>3. \A q \in Procs \ {p} : Claims(q) => proc[q].task # t BY <3>1 DEF OpenInv
      <4> QED BY <2>0, <4>1, <4>2, <4>3 DEF OpenInv, Claims, Working, TypeOK
    <3>2. CASE spec[t] # "queued"
      <4>1. proc'[p].pc = "idle" /\ UNCHANGED <<spec, open>> BY <2>3, <3>2 DEF Claim, TypeOK, Idle
      <4> QED BY <2>0, <4>1, OpenFrame DEF Claims
    <3> QED BY <3>1, <3>2
  <2>4. CASE AcquireLock(p) \/ AcquireTimeout(p)
    <3>1. proc'[p].pc \in {"write", "refused"} BY <2>4, AcquireEffect DEF AcquireTimeout, TypeOK, Process
    <3>2. proc[p].pc = "acquire" /\ UNCHANGED <<spec, open>> BY <2>4 DEF AcquireLock, AcquireTimeout
    <3>3. SamePlan(p) BY <2>4, MovesOn
    <3> QED BY <2>0, <3>1, <3>2, <3>3, OpenFrame DEF SamePlan, Claims, Working
  <2>5. ASSUME NEW r \in Resources, AcquireWrite(p, r) \/ RemoveFile(p, r) PROVE OpenInv'
    <3>1. proc[p].pc \in {"write", "remove"} /\ UNCHANGED <<spec, open>> BY <2>5 DEF AcquireWrite, RemoveFile
    <3>2. proc'[p].pc \in {proc[p].pc, IF proc[p].pc = "write" THEN "start" ELSE "after"} BY <2>5, FilesEffect
    <3>3. SamePlan(p) BY <2>5, MovesOn
    <3> QED BY <2>0, <3>1, <3>2, <3>3, OpenFrame DEF SamePlan, Claims, Working
  <2>6. CASE AcquireFail(p) \/ StartFail(p) \/ ReleaseTimeout(p) \/ ReleaseLock(p)
    <3>1. UNCHANGED <<spec, open>> BY <2>6 DEF AcquireFail, StartFail, ReleaseTimeout, ReleaseLock
    <3>2. \/ proc[p].pc = "write" /\ proc'[p].pc = "refused"
          \/ proc[p].pc = "start" /\ proc'[p].pc = "release"
          \/ proc[p].pc = "release" /\ proc'[p].pc \in {"after", "remove"}
      <4>1. CASE ReleaseLock(p) BY <2>0, <4>1 DEF ReleaseLock, TypeOK, Process
      <4>2. CASE AcquireFail(p) \/ StartFail(p) \/ ReleaseTimeout(p)
        BY <2>0, <4>2 DEF AcquireFail, StartFail, ReleaseTimeout, TypeOK, Process
      <4> QED BY <2>6, <4>1, <4>2
    <3>3. SamePlan(p) BY <2>6, MovesOn
    <3> QED BY <2>0, <3>1, <3>2, <3>3, OpenFrame DEF SamePlan, Claims, Working
  <2>7. CASE Start(p)
    <3>1. proc[p].pc = "start" /\ proc'[p].pc = "invoke" /\ proc'[p].task = t /\ UNCHANGED <<spec, open>>
      BY <2>0, <2>7 DEF Start, TypeOK, Process
    <3> QED BY <2>0, <3>1, OpenFrame DEF Claims, Working
  <2>8. CASE Invoke(p)
    <3>1. proc[p].pc = "invoke" /\ proc'[p].pc = "execute" /\ proc'[p].task = t
      BY <2>0, <2>8 DEF Invoke, TypeOK, Process
    <3>2. t \in Task /\ spec[t] = "running" /\ open[t] = 0
      BY <2>00, <3>1 DEF OpenInv, Claims, Working, Chosen
    <3>3. open' = [open EXCEPT ![t] = 1] /\ spec' = [spec EXCEPT ![t] = "running"]
      BY <2>8, <3>2 DEF Invoke, TypeOK
    <3> QED BY <2>0, <3>1, <3>2, <3>3, OpenMine DEF Claims, Working
  <2>9. ASSUME NEW ok \in BOOLEAN, Execute(p, ok) PROVE OpenInv'
    <3>1. proc[p].pc = "execute" /\ proc'[p].pc = "save" /\ proc'[p].task = t /\ UNCHANGED <<spec, open>>
      BY <2>0, <2>9 DEF Execute, TypeOK, Process
    <3> QED BY <2>0, <3>1, OpenFrame DEF Claims, Working
  <2>10. CASE SaveOutcome(p)
    <3>1. proc[p].pc = "save" /\ proc'[p].pc = "move" /\ SamePlan(p)
      BY <2>0, <2>10, MovesOn DEF SaveOutcome, TypeOK, Process
    <3>2. t \in Task /\ spec[t] = "running" /\ open[t] = 1
      BY <2>00, <3>1 DEF OpenInv, Claims, Working, Chosen
    <3>3. open' = [open EXCEPT ![t] = 0] /\ spec' = [spec EXCEPT ![t] = "running"]
      BY <2>10, <3>2 DEF SaveOutcome, TypeOK
    <3> QED BY <2>0, <3>1, <3>2, <3>3, OpenMine DEF SamePlan, Claims, Working
  <2>11. CASE SaveFail(p)
    <3>1. /\ proc[p].pc = "save" /\ proc'[p].pc = "release" /\ proc'[p].invoked = proc[p].invoked
          /\ UNCHANGED <<spec, open>>
      BY <2>0, <2>11 DEF SaveFail, TypeOK, Process
    <3>2. proc[p].invoked BY <3>1 DEF PlanInv
    <3> QED BY <2>0, <3>1, <3>2, OpenFrame DEF Claims
  <2>12. CASE Move(p)
    <3>1. proc[p].pc = "move" /\ proc'[p].pc = "release" /\ proc'[p].invoked = proc[p].invoked
      BY <2>0, <2>12 DEF Move, TypeOK, Process
    <3>2. proc[p].invoked /\ proc[p].dest \in {"queued", "history"} BY <3>1 DEF PlanInv
    <3>3. spec' = [spec EXCEPT ![t] = proc[p].dest] /\ UNCHANGED open BY <2>12 DEF Move
    <3>4. Claims(p) /\ ~Working(p) /\ ~Claims(p)' BY <3>1, <3>2 DEF Claims, Working
    <3> QED BY <2>0, <3>3, <3>4, OpenGive
  <2>13. CASE Refused(p)
    <3>1. proc[p].pc = "refused" /\ proc'[p].pc = "idle" BY <2>13 DEF Refused, Idle, TypeOK
    <3>2. spec' = [spec EXCEPT ![t] = "queued"] /\ UNCHANGED open BY <2>13 DEF Refused
    <3>3. Claims(p) /\ ~Working(p) /\ ~Claims(p)' BY <3>1 DEF Claims, Working
    <3> QED BY <2>0, <3>2, <3>3, OpenGive
  <2>14. CASE After(p)
    <3>1. proc[p].pc = "after" BY <2>14 DEF After
    <3>2. CASE proc[p].invoked
      <4>1. proc'[p].pc = "idle" /\ UNCHANGED <<spec, open>> BY <2>14, <3>2 DEF After, Idle, TypeOK
      <4> QED BY <2>0, <4>1, OpenFrame DEF Claims
    <3>3. CASE ~proc[p].invoked
      <4>1. proc'[p].pc = "restore" BY <2>0, <2>14, <3>3 DEF After, TypeOK, Process
      <4>2. spec' = [spec EXCEPT ![t] = "queued"] /\ UNCHANGED open BY <2>14, <3>3 DEF After
      <4>3. Claims(p) /\ ~Working(p) /\ ~Claims(p)' BY <3>1, <3>3, <4>1 DEF Claims, Working
      <4> QED BY <2>0, <4>2, <4>3, OpenGive
    <3> QED BY <3>2, <3>3
  <2>15. CASE Restore(p) \/ Crash(p)
    <3>1. proc'[p].pc \in {"idle", "dead"} /\ UNCHANGED <<spec, open>> BY <2>15 DEF Restore, Crash, Idle, TypeOK
    <3> QED BY <2>0, <3>1, OpenFrame DEF Claims
  <2> QED BY <1>2, <2>1, <2>2, <2>3, <2>4, <2>5, <2>6, <2>7, <2>8, <2>9, <2>10, <2>11, <2>12, <2>13, <2>14, <2>15 DEF Step
<1>3. ASSUME NEW r \in Resources, ManagedClaim(r) \/ ManagedRelease(r) PROVE OpenInv'
  BY <1>3 DEF ManagedClaim, ManagedRelease, OpenInv, Claims, Working
<1>4. CASE UNCHANGED vars BY <1>4 DEF vars, OpenInv, Claims, Working
<1> QED BY <1>1, <1>2, <1>3, <1>4 DEF Next

\* The lock and the lease files stay; a process moves on, or carries nothing.
LEMMA HeldFrame ==
    ASSUME QueueInv, NEW p \in Procs, UNCHANGED <<lease, claims, lock, gen>>,
           \A q \in Procs \ {p} : proc'[q] = proc[q],
           proc'[p].pc \notin {"write", "remove"},
           \/ proc'[p].gen = 0 /\ ~Holds(p)'
           \/ proc'[p].gen = proc[p].gen /\ ~Holds(p)'
           \/ /\ proc'[p].gen = proc[p].gen /\ Holds(p) /\ proc[p].pc \notin {"write", "remove"}
              /\ proc'[p].task = proc[p].task /\ proc'[p].node = proc[p].node
    PROVE  HeldInv'
<1> USE DEF QueueInv
<1>1. \A q \in Procs \ {p} : Needs(q)' = Needs(q) /\ (Holds(q)' <=> Holds(q)) BY DEF Needs, Holds
<1>2. Holds(p)' => /\ Holds(p) /\ Needs(p)' = Needs(p) /\ proc[p].pc \notin {"write", "remove"}
                   /\ proc'[p].gen = proc[p].gen
  BY DEF Needs, Holds
<1>3. proc'[p].gen \in {0, proc[p].gen} /\ gen \in Nat BY DEF TypeOK
<1>4. \A q \in Procs : proc'[q].gen \in 0 .. gen BY <1>3 DEF HeldInv
<1>5. \A q, s \in Procs : proc'[q].gen # 0 /\ proc'[q].gen = proc'[s].gen => q = s BY <1>3 DEF HeldInv
<1>6. \A q \in Procs : Holds(q)' => /\ Holds(q) /\ Needs(q)' = Needs(q) /\ proc'[q].gen = proc[q].gen
                                    /\ (proc'[q].pc \in {"write", "remove"} <=> proc[q].pc \in {"write", "remove"})
                                    /\ (proc[q].pc \in {"write", "remove"} => proc'[q] = proc[q])
  BY <1>1, <1>2
<1>7. \A q \in Procs : proc'[q].pc \in {"write", "remove"} => q # p BY DEF Holds
<1>8. \A q \in Procs : proc'[q].pc \in {"write", "remove"} => lock' = q /\ proc'[q].todo \subseteq Needs(q)'
  BY <1>1, <1>7 DEF HeldInv
<1> QED BY <1>4, <1>5, <1>6, <1>8 DEF HeldInv

\* While one process writes or removes lease files, the others that hold a
\* lease have every file of it, and none that is another's.
LEMMA HeldApart ==
    ASSUME QueueInv, NEW p \in Procs, NEW q \in Procs \ {p}, lock \in {None, p}, Holds(q)
    PROVE  /\ proc[q].pc \notin {"write", "remove"}
           /\ \A r \in Needs(q) : r \notin claims /\ lease[r] = proc[q].gen /\ lease[r] # proc[p].gen /\ lease[r] # None
           /\ proc[q].gen # proc[p].gen
<1>1. q # None /\ proc[q].pc \notin {"write", "remove"} BY QueueAssumption DEF QueueInv, HeldInv
<1>2. proc[q].gen \in Nat \ {0, None} BY QueueAssumption DEF QueueInv, HeldInv, TypeOK
<1>3. proc[q].gen # proc[p].gen BY <1>2 DEF QueueInv, HeldInv
<1> QED BY <1>1, <1>2, <1>3 DEF QueueInv, HeldInv

\* Lease files are held by whoever wrote them: kept by every step.
LEMMA HeldStep == QueueInv /\ [Next]_vars => HeldInv'
<1> SUFFICES ASSUME QueueInv, [Next]_vars PROVE HeldInv' OBVIOUS
<1> USE DEF QueueInv, ghosts
<1>1. ASSUME NEW t \in Task, SubmitSpec(t) \/ SubmitRun(t) PROVE HeldInv'
  BY <1>1 DEF SubmitSpec, SubmitRun, HeldInv, Holds, Needs
<1>2. ASSUME NEW p \in Procs, Step(p) \/ Crash(p) PROVE HeldInv'
  <2>0. (\A q \in Procs \ {p} : proc'[q] = proc[q]) /\ proc[p] \in Process BY <1>2, Others DEF TypeOK
  <2>1. CASE SelectList(p) \/ SelectPlace(p)
    <3>1. /\ proc'[p].pc \in {"scan", "claim"} /\ proc'[p].gen = proc[p].gen
          /\ UNCHANGED <<lease, claims, lock, gen>>
      BY <2>0, <2>1 DEF SelectList, SelectPlace, TypeOK, Process
    <3> QED BY <2>0, <3>1, HeldFrame DEF Holds
  <2>2. CASE SelectLoad(p)
    <3>1. UNCHANGED <<lease, claims, lock, gen>> BY <2>2 DEF SelectLoad
    <3>2. \/ proc'[p].pc = "idle" /\ proc'[p].gen = 0
          \/ proc'[p].pc = "place" /\ proc'[p].gen = proc[p].gen
      <4>1. CASE proc' = [proc EXCEPT ![p] = Idle] BY <4>1 DEF TypeOK, Idle
      <4>2. ASSUME NEW t1, NEW i, proc' = [proc EXCEPT ![p] = [@ EXCEPT !.pc = "place", !.scan = proc[p].scan \ {t1},
                                                  !.task = t1, !.run = run[t1], !.node = Nodes[t1][i]]]
            PROVE  proc'[p].pc = "place" /\ proc'[p].gen = proc[p].gen
        BY <4>2 DEF TypeOK, Process
      <4> QED BY <2>2, <4>1, <4>2 DEF SelectLoad
    <3> QED BY <2>0, <3>1, <3>2, HeldFrame DEF Holds
  <2>3. CASE Claim(p) \/ After(p)
    <3>1. UNCHANGED <<lease, claims, lock, gen>> BY <2>3 DEF Claim, After
    <3>2. CASE proc' = [proc EXCEPT ![p] = Idle]
      <4>1. proc'[p].pc = "idle" /\ proc'[p].gen = 0 BY <3>2 DEF TypeOK, Idle
      <4> QED BY <2>0, <3>1, <4>1, HeldFrame DEF Holds
    <3>3. ASSUME NEW x \in {"acquire", "restore"}, proc' = [proc EXCEPT ![p] = [@ EXCEPT !.pc = x]] PROVE HeldInv'
      <4>1. proc'[p].pc = x /\ proc'[p].gen = proc[p].gen BY <3>3 DEF TypeOK, Process
      <4> QED BY <2>0, <3>1, <4>1, HeldFrame DEF Holds
    <3> QED BY <2>3, <3>2, <3>3 DEF Claim, After
  <2>4. CASE AcquireLock(p)
    <3>1. proc[p].pc = "acquire" /\ lock = None /\ UNCHANGED <<lease, claims>> BY <2>4 DEF AcquireLock
    <3>2. SamePlan(p) BY <2>4, MovesOn
    <3>3. CASE proc'[p].pc = "refused" /\ proc'[p].gen = proc[p].gen /\ UNCHANGED <<gen, lock>>
      BY <2>0, <3>1, <3>3, HeldFrame DEF Holds
    <3>4. CASE /\ Blocked(Needs(p)) = {} /\ gen' = gen + 1 /\ lock' = p
               /\ proc'[p].pc = "write" /\ proc'[p].gen = gen' /\ proc'[p].todo = Needs(p)
      <4>1. Needs(p)' = Needs(p) BY <3>2 DEF Needs, SamePlan
      <4>2. Needs(p) \subseteq Resources BY <3>1, NeedsType DEF Chosen
      <4>3. \A r \in Needs(p) : lease[r] = None /\ r \notin claims BY <3>4 DEF Blocked
      <4>4. gen \in Nat BY DEF TypeOK
      <4>5. \A r \in Resources : lease[r] = None \/ lease[r] \in 1 .. gen BY DEF HeldInv
      <4>6. \A r \in Resources : lease[r] # gen + 1 BY <4>4, <4>5, QueueAssumption
      <4>7. \A q \in Procs : proc[q].pc \notin {"write", "remove"} BY <3>1, QueueAssumption DEF HeldInv
      <4>8. \A q \in Procs \ {p} : Needs(q)' = Needs(q) /\ (Holds(q)' <=> Holds(q)) BY <2>0 DEF Needs, Holds
      <4>a. /\ \A r \in Resources : lease'[r] # None => lease'[r] \in 1 .. gen'
            /\ \A q \in Procs : proc'[q].gen \in 0 .. gen'
        BY <2>0, <3>1, <3>4, <4>4 DEF HeldInv
      <4>b. \A q, s \in Procs : proc'[q].gen # 0 /\ proc'[q].gen = proc'[s].gen => q = s
        <5>1. \A q \in Procs \ {p} : proc'[q].gen # gen + 1 BY <2>0, <4>4 DEF HeldInv
        <5> QED BY <2>0, <3>4, <5>1 DEF HeldInv
      <4>c. \A q \in Procs : Holds(q)' => proc'[q].gen # 0 /\ Needs(q)' \subseteq Resources
        BY <2>0, <3>4, <4>1, <4>2, <4>4, <4>8 DEF HeldInv
      <4>d. \A q \in Procs : proc'[q].pc \in {"write", "remove"} => lock' = q /\ proc'[q].todo \subseteq Needs(q)'
        BY <2>0, <3>4, <4>1, <4>7
      <4>e. \A q \in Procs : Holds(q)' => \A r \in Needs(q)' :
              /\ r \notin claims'
              /\ lease'[r] = IF (proc'[q].pc = "write" /\ r \in proc'[q].todo)
                                \/ (proc'[q].pc = "remove" /\ r \notin proc'[q].todo) THEN None ELSE proc'[q].gen
        BY <2>0, <3>1, <3>4, <4>1, <4>3, <4>7, <4>8 DEF HeldInv
      <4>f. \A q \in Procs : \A r \in Resources : Holds(q)' /\ lease'[r] = proc'[q].gen => r \in Needs(q)'
        BY <2>0, <3>1, <3>4, <4>6, <4>8 DEF HeldInv
      <4> QED BY <4>a, <4>b, <4>c, <4>d, <4>e, <4>f DEF HeldInv
    <3> QED BY <2>4, <3>3, <3>4, AcquireEffect
  <2>5. CASE AcquireTimeout(p) \/ StartFail(p) \/ SaveOutcome(p) \/ SaveFail(p) \/ Move(p) \/ ReleaseTimeout(p)
    <3>1. UNCHANGED <<lease, claims, lock, gen>>
      BY <2>5 DEF AcquireTimeout, StartFail, SaveOutcome, SaveFail, Move, ReleaseTimeout
    <3>2. PICK x \in {"refused", "release", "move", "after"} : proc' = [proc EXCEPT ![p].pc = x]
      BY <2>5 DEF AcquireTimeout, StartFail, SaveOutcome, SaveFail, Move, ReleaseTimeout
    <3>3. \/ proc[p].pc = "acquire" /\ x = "refused"
          \/ proc[p].pc \in {"start", "save", "move", "release"} /\ x \in {"release", "move", "after"}
      <4>1. CASE AcquireTimeout(p) BY <2>0, <3>2, <4>1 DEF AcquireTimeout, TypeOK, Process
      <4>2. CASE StartFail(p) \/ SaveOutcome(p) \/ SaveFail(p) \/ Move(p) \/ ReleaseTimeout(p)
        BY <2>0, <3>2, <4>2 DEF StartFail, SaveOutcome, SaveFail, Move, ReleaseTimeout, TypeOK, Process
      <4> QED BY <2>5, <4>1, <4>2
    <3>4. proc'[p].pc = x /\ proc'[p].gen = proc[p].gen /\ proc'[p].task = proc[p].task /\ proc'[p].node = proc[p].node
      BY <2>0, <3>2 DEF TypeOK, Process
    <3> QED BY <2>0, <3>1, <3>3, <3>4, HeldFrame DEF Holds
  <2>6. ASSUME NEW r \in Resources, AcquireWrite(p, r) PROVE HeldInv'
    <3>1. proc[p].pc = "write" /\ r \in proc[p].todo /\ lock = p /\ Holds(p) /\ UNCHANGED <<claims, gen>>
      BY <2>6 DEF AcquireWrite, HeldInv, Holds
    <3>2. lease' = [lease EXCEPT ![r] = proc[p].gen] /\ lock' = IF proc[p].todo \ {r} = {} THEN None ELSE p
      BY <2>6, <3>1 DEF AcquireWrite
    <3>3. SamePlan(p) BY <2>6, MovesOn
    <3>4. /\ proc'[p].todo = proc[p].todo \ {r} /\ proc'[p].gen = proc[p].gen
          /\ proc'[p].pc = IF proc[p].todo \ {r} # {} THEN "write" ELSE "start"
      BY <2>6, <3>1, FilesEffect
    <3>5. Needs(p)' = Needs(p) BY <3>3 DEF Needs, SamePlan
    <3>6. Needs(p) \subseteq Resources /\ proc[p].todo \subseteq Needs(p) /\ proc[p].gen \in 1 .. gen
      BY <3>1 DEF HeldInv, TypeOK
    <3>7. \A s \in Needs(p) : s \notin claims /\ lease[s] = IF s \in proc[p].todo THEN None ELSE proc[p].gen
      BY <3>1 DEF HeldInv
    <3>8. \A q \in Procs \ {p} : Needs(q)' = Needs(q) /\ (Holds(q)' <=> Holds(q)) BY <2>0 DEF Needs, Holds
    <3>9. \A q \in Procs \ {p} : proc[q].pc \notin {"write", "remove"} BY <3>1 DEF HeldInv
    <3>10. \A s \in Resources : lease'[s] = IF s = r THEN proc[p].gen ELSE lease[s] BY <3>2 DEF TypeOK
    <3>11. \A q \in Procs \ {p} : Holds(q) => r \notin Needs(q) /\ proc[q].gen # proc[p].gen
      BY <3>1, <3>6, <3>7, HeldApart
    <3>a. /\ \A s \in Resources : lease'[s] # None => lease'[s] \in 1 .. gen'
          /\ \A q \in Procs : proc'[q].gen \in 0 .. gen'
          /\ \A q, s \in Procs : proc'[q].gen # 0 /\ proc'[q].gen = proc'[s].gen => q = s
      BY <2>0, <3>1, <3>4, <3>6, <3>10 DEF HeldInv
    <3>b. \A q \in Procs : Holds(q)' => proc'[q].gen # 0 /\ Needs(q)' \subseteq Resources
      BY <2>0, <3>4, <3>5, <3>6, <3>8 DEF HeldInv
    <3>c. \A q \in Procs : proc'[q].pc \in {"write", "remove"} => lock' = q /\ proc'[q].todo \subseteq Needs(q)'
      BY <2>0, <3>2, <3>4, <3>5, <3>6, <3>9
    <3>d. \A q \in Procs : Holds(q)' => \A s \in Needs(q)' :
            /\ s \notin claims'
            /\ lease'[s] = IF (proc'[q].pc = "write" /\ s \in proc'[q].todo)
                              \/ (proc'[q].pc = "remove" /\ s \notin proc'[q].todo) THEN None ELSE proc'[q].gen
      <4>1. ASSUME NEW s \in Needs(p)
            PROVE  /\ s \notin claims'
                   /\ lease'[s] = IF (proc'[p].pc = "write" /\ s \in proc'[p].todo)
                                     \/ (proc'[p].pc = "remove" /\ s \notin proc'[p].todo) THEN None ELSE proc'[p].gen
        BY <3>1, <3>4, <3>6, <3>7, <3>10
      <4>2. ASSUME NEW q \in Procs \ {p}, Holds(q), NEW s \in Needs(q)
            PROVE  s \notin claims' /\ lease'[s] = proc[q].gen /\ proc[q].pc \notin {"write", "remove"}
        <5>1. s \in Resources /\ s # r BY <3>11, <4>2 DEF HeldInv
        <5> QED BY <3>1, <3>10, <4>2, <5>1, HeldApart
      <4> QED BY <2>0, <3>5, <3>8, <4>1, <4>2
    <3>e. \A q \in Procs : \A s \in Resources : Holds(q)' /\ lease'[s] = proc'[q].gen => s \in Needs(q)'
      BY <2>0, <3>1, <3>4, <3>5, <3>6, <3>8, <3>10, <3>11 DEF HeldInv
    <3> QED BY <3>a, <3>b, <3>c, <3>d, <3>e DEF HeldInv
  <2>7. ASSUME NEW r \in Resources, RemoveFile(p, r) PROVE HeldInv'
    <3>1. proc[p].pc = "remove" /\ r \in proc[p].todo /\ lock = p /\ Holds(p) /\ UNCHANGED <<claims, gen>>
      BY <2>7 DEF RemoveFile, HeldInv, Holds
    <3>2. lease' = [lease EXCEPT ![r] = None] /\ lock' = IF proc[p].todo \ {r} = {} THEN None ELSE p
      BY <2>7, <3>1 DEF RemoveFile
    <3>3. SamePlan(p) BY <2>7, MovesOn
    <3>4. /\ proc'[p].todo = proc[p].todo \ {r} /\ proc'[p].gen = proc[p].gen
          /\ proc'[p].pc = IF proc[p].todo \ {r} # {} THEN "remove" ELSE "after"
      BY <2>7, <3>1, FilesEffect
    <3>5. Needs(p)' = Needs(p) BY <3>3 DEF Needs, SamePlan
    <3>6. Needs(p) \subseteq Resources /\ proc[p].todo \subseteq Needs(p) /\ proc[p].gen \in 1 .. gen
      BY <3>1 DEF HeldInv, TypeOK
    <3>7. \A s \in Needs(p) : s \notin claims /\ lease[s] = IF s \in proc[p].todo THEN proc[p].gen ELSE None
      BY <3>1 DEF HeldInv
    <3>8. \A q \in Procs \ {p} : Needs(q)' = Needs(q) /\ (Holds(q)' <=> Holds(q)) BY <2>0 DEF Needs, Holds
    <3>9. \A q \in Procs \ {p} : proc[q].pc \notin {"write", "remove"} BY <3>1 DEF HeldInv
    <3>10. \A s \in Resources : lease'[s] = IF s = r THEN None ELSE lease[s] BY <3>2 DEF TypeOK
    <3>11. \A q \in Procs \ {p} : Holds(q) => r \notin Needs(q) BY <3>1, <3>6, <3>7, HeldApart
    <3>12. \A q \in Procs : proc[q].gen # None BY QueueAssumption DEF HeldInv, TypeOK
    <3>a. /\ \A s \in Resources : lease'[s] # None => lease'[s] \in 1 .. gen'
          /\ \A q \in Procs : proc'[q].gen \in 0 .. gen'
          /\ \A q, s \in Procs : proc'[q].gen # 0 /\ proc'[q].gen = proc'[s].gen => q = s
      BY <2>0, <3>1, <3>4, <3>6, <3>10 DEF HeldInv
    <3>b. \A q \in Procs : Holds(q)' => proc'[q].gen # 0 /\ Needs(q)' \subseteq Resources
      BY <2>0, <3>4, <3>5, <3>6, <3>8 DEF HeldInv
    <3>c. \A q \in Procs : proc'[q].pc \in {"write", "remove"} => lock' = q /\ proc'[q].todo \subseteq Needs(q)'
      BY <2>0, <3>2, <3>4, <3>5, <3>6, <3>9
    <3>d. \A q \in Procs : Holds(q)' => \A s \in Needs(q)' :
            /\ s \notin claims'
            /\ lease'[s] = IF (proc'[q].pc = "write" /\ s \in proc'[q].todo)
                              \/ (proc'[q].pc = "remove" /\ s \notin proc'[q].todo) THEN None ELSE proc'[q].gen
      <4>1. ASSUME Holds(p)', NEW s \in Needs(p)
            PROVE  /\ s \notin claims'
                   /\ lease'[s] = IF (proc'[p].pc = "write" /\ s \in proc'[p].todo)
                                     \/ (proc'[p].pc = "remove" /\ s \notin proc'[p].todo) THEN None ELSE proc'[p].gen
        <5>1. proc'[p].pc = "remove" BY <3>4, <4>1 DEF Holds
        <5> QED BY <3>1, <3>4, <3>6, <3>7, <3>10, <5>1
      <4>2. ASSUME NEW q \in Procs \ {p}, Holds(q), NEW s \in Needs(q)
            PROVE  s \notin claims' /\ lease'[s] = proc[q].gen /\ proc[q].pc \notin {"write", "remove"}
        <5>1. s \in Resources /\ s # r BY <3>11, <4>2 DEF HeldInv
        <5> QED BY <3>1, <3>10, <4>2, <5>1, HeldApart
      <4> QED BY <2>0, <3>5, <3>8, <4>1, <4>2
    <3>e. \A q \in Procs : \A s \in Resources : Holds(q)' /\ lease'[s] = proc'[q].gen => s \in Needs(q)'
      BY <2>0, <3>1, <3>4, <3>5, <3>6, <3>8, <3>10, <3>12 DEF HeldInv
    <3> QED BY <3>a, <3>b, <3>c, <3>d, <3>e DEF HeldInv
  <2>8. CASE AcquireFail(p)
    <3>1. proc[p].pc = "write" /\ lock = p /\ Holds(p) /\ UNCHANGED <<claims, gen>> /\ lease' = RemoveOwned(proc[p].gen)
      BY <2>8 DEF AcquireFail, HeldInv, Holds
    <3>2. proc'[p].pc = "refused" /\ proc'[p].gen = proc[p].gen BY <2>0, <2>8 DEF AcquireFail, TypeOK, Process
    <3>3. ~Holds(p)' BY <3>2 DEF Holds
    <3>4. \A q \in Procs \ {p} : Needs(q)' = Needs(q) /\ (Holds(q)' <=> Holds(q)) BY <2>0 DEF Needs, Holds
    <3>5. \A q \in Procs \ {p} : proc[q].pc \notin {"write", "remove"} BY <3>1 DEF HeldInv
    <3>6. \A s \in Resources : lease'[s] = IF lease[s] = proc[p].gen THEN None ELSE lease[s] BY <3>1 DEF RemoveOwned
    <3>7. \A q \in Procs : proc[q].gen # None BY QueueAssumption DEF HeldInv, TypeOK
    <3>a. /\ \A s \in Resources : lease'[s] # None => lease'[s] \in 1 .. gen'
          /\ \A q \in Procs : proc'[q].gen \in 0 .. gen'
          /\ \A q, s \in Procs : proc'[q].gen # 0 /\ proc'[q].gen = proc'[s].gen => q = s
          /\ \A q \in Procs : Holds(q)' => proc'[q].gen # 0 /\ Needs(q)' \subseteq Resources
          /\ \A q \in Procs : proc'[q].pc \in {"write", "remove"} => lock' = q /\ proc'[q].todo \subseteq Needs(q)'
      BY <2>0, <3>1, <3>2, <3>3, <3>4, <3>5, <3>6 DEF HeldInv
    <3>b. \A q \in Procs : Holds(q)' => \A s \in Needs(q)' :
            /\ s \notin claims'
            /\ lease'[s] = IF (proc'[q].pc = "write" /\ s \in proc'[q].todo)
                              \/ (proc'[q].pc = "remove" /\ s \notin proc'[q].todo) THEN None ELSE proc'[q].gen
      <4>1. ASSUME NEW q \in Procs \ {p}, Holds(q), NEW s \in Needs(q)
            PROVE  s \notin claims' /\ lease'[s] = proc[q].gen /\ proc[q].pc \notin {"write", "remove"}
        <5>1. s \in Resources BY <4>1 DEF HeldInv
        <5> QED BY <3>1, <3>6, <4>1, <5>1, HeldApart
      <4> QED BY <2>0, <3>3, <3>4, <4>1
    <3>c. \A q \in Procs : \A s \in Resources : Holds(q)' /\ lease'[s] = proc'[q].gen => s \in Needs(q)'
      BY <2>0, <3>3, <3>4, <3>6, <3>7 DEF HeldInv
    <3> QED BY <3>a, <3>b, <3>c DEF HeldInv
  <2>9. CASE Start(p) \/ Invoke(p) \/ (\E ok \in BOOLEAN : Execute(p, ok))
    <3>1. /\ UNCHANGED <<lease, claims, lock, gen>> /\ proc[p].pc \in {"start", "invoke", "execute"}
          /\ proc'[p].pc \in {"invoke", "execute", "save"} /\ proc'[p].gen = proc[p].gen
          /\ proc'[p].task = proc[p].task /\ proc'[p].node = proc[p].node
      <4>1. CASE Start(p) BY <2>0, <4>1 DEF Start, TypeOK, Process
      <4>2. CASE Invoke(p) BY <2>0, <4>2 DEF Invoke, TypeOK, Process
      <4>3. ASSUME NEW ok \in BOOLEAN, Execute(p, ok)
            PROVE  /\ UNCHANGED <<lease, claims, lock, gen>> /\ proc[p].pc = "execute"
                   /\ proc'[p].pc = "save" /\ proc'[p].gen = proc[p].gen
                   /\ proc'[p].task = proc[p].task /\ proc'[p].node = proc[p].node
        BY <2>0, <4>3 DEF Execute, TypeOK, Process
      <4> QED BY <2>9, <4>1, <4>2, <4>3
    <3> QED BY <2>0, <3>1, HeldFrame DEF Holds
  <2>10. CASE ReleaseLock(p)
    <3>1. /\ proc[p].pc = "release" /\ lock = None /\ lock' = p /\ Holds(p)
          /\ UNCHANGED <<lease, claims, gen>> /\ proc'[p].pc = "remove"
          /\ proc'[p].gen = proc[p].gen /\ proc'[p].todo = Needs(p)
      BY <2>0, <2>10 DEF ReleaseLock, TypeOK, Process, Holds
    <3>2. Needs(p)' = Needs(p) BY <2>10, MovesOn DEF Needs, SamePlan
    <3>3. \A q \in Procs \ {p} : Needs(q)' = Needs(q) /\ (Holds(q)' <=> Holds(q)) BY <2>0 DEF Needs, Holds
    <3>4. \A q \in Procs : proc[q].pc \notin {"write", "remove"} BY <3>1, QueueAssumption DEF HeldInv
    <3>5. \A r \in Needs(p) : r \notin claims /\ lease[r] = proc[p].gen BY <3>1, <3>4 DEF HeldInv
    <3>a. /\ \A s \in Resources : lease'[s] # None => lease'[s] \in 1 .. gen'
          /\ \A q \in Procs : proc'[q].gen \in 0 .. gen'
          /\ \A q, s \in Procs : proc'[q].gen # 0 /\ proc'[q].gen = proc'[s].gen => q = s
          /\ \A q \in Procs : Holds(q)' => proc'[q].gen # 0 /\ Needs(q)' \subseteq Resources
          /\ \A q \in Procs : proc'[q].pc \in {"write", "remove"} => lock' = q /\ proc'[q].todo \subseteq Needs(q)'
      BY <2>0, <3>1, <3>2, <3>3, <3>4 DEF HeldInv
    <3>b. \A q \in Procs : Holds(q)' => \A s \in Needs(q)' :
            /\ s \notin claims'
            /\ lease'[s] = IF (proc'[q].pc = "write" /\ s \in proc'[q].todo)
                              \/ (proc'[q].pc = "remove" /\ s \notin proc'[q].todo) THEN None ELSE proc'[q].gen
      <4>1. ASSUME NEW q \in Procs \ {p}, Holds(q), NEW s \in Needs(q)
            PROVE  s \notin claims' /\ lease'[s] = proc[q].gen /\ proc[q].pc \notin {"write", "remove"}
        BY <3>1, <4>1, HeldApart
      <4> QED BY <2>0, <3>1, <3>2, <3>3, <3>5, <4>1
    <3>c. \A q \in Procs : \A s \in Resources : Holds(q)' /\ lease'[s] = proc'[q].gen => s \in Needs(q)'
      BY <2>0, <3>1, <3>2, <3>3 DEF HeldInv
    <3> QED BY <3>a, <3>b, <3>c DEF HeldInv
  <2>11. CASE Refused(p) \/ Restore(p)
    <3>1. UNCHANGED <<lease, claims, lock, gen>> /\ proc'[p].pc = "idle" /\ proc'[p].gen = 0
      BY <2>11 DEF Refused, Restore, Idle, TypeOK
    <3> QED BY <2>0, <3>1, HeldFrame DEF Holds
  <2>12. CASE Crash(p)
    <3>1. /\ UNCHANGED <<lease, claims, gen>> /\ lock' = (IF lock = p THEN None ELSE lock)
          /\ proc'[p].pc = "dead" /\ proc'[p].gen = 0
      BY <2>12 DEF Crash, Idle, TypeOK
    <3>2. ~Holds(p)' BY <3>1 DEF Holds
    <3>3. \A q \in Procs \ {p} : Needs(q)' = Needs(q) /\ (Holds(q)' <=> Holds(q)) BY <2>0 DEF Needs, Holds
    <3>4. gen \in Nat BY DEF TypeOK
    <3>a. /\ \A s \in Resources : lease'[s] # None => lease'[s] \in 1 .. gen'
          /\ \A q \in Procs : proc'[q].gen \in 0 .. gen'
          /\ \A q, s \in Procs : proc'[q].gen # 0 /\ proc'[q].gen = proc'[s].gen => q = s
          /\ \A q \in Procs : Holds(q)' => proc'[q].gen # 0 /\ Needs(q)' \subseteq Resources
          /\ \A q \in Procs : proc'[q].pc \in {"write", "remove"} => lock' = q /\ proc'[q].todo \subseteq Needs(q)'
      BY <2>0, <3>1, <3>2, <3>3, <3>4 DEF HeldInv
    <3>b. /\ \A q \in Procs : Holds(q)' => \A s \in Needs(q)' :
               /\ s \notin claims'
               /\ lease'[s] = IF (proc'[q].pc = "write" /\ s \in proc'[q].todo)
                                 \/ (proc'[q].pc = "remove" /\ s \notin proc'[q].todo) THEN None ELSE proc'[q].gen
          /\ \A q \in Procs : \A s \in Resources : Holds(q)' /\ lease'[s] = proc'[q].gen => s \in Needs(q)'
      BY <2>0, <3>1, <3>2, <3>3 DEF HeldInv
    <3> QED BY <3>a, <3>b DEF HeldInv
  <2> QED BY <1>2, <2>1, <2>2, <2>3, <2>4, <2>5, <2>6, <2>7, <2>8, <2>9, <2>10, <2>11, <2>12 DEF Step
<1>3. ASSUME NEW r \in Resources, ManagedClaim(r) \/ ManagedRelease(r) PROVE HeldInv'
  <2>1. lock = None /\ UNCHANGED <<lease, lock, gen, proc>> /\ claims' \subseteq claims \cup (IF lease[r] = None THEN {r} ELSE {})
    BY <1>3 DEF ManagedClaim, ManagedRelease
  <2>2. \A q \in Procs : proc[q].pc \notin {"write", "remove"} /\ proc[q].gen # None
    BY <2>1, QueueAssumption DEF HeldInv, TypeOK
  <2>3. \A q \in Procs : Holds(q) => \A s \in Needs(q) : s \notin claims' BY <2>1, <2>2 DEF HeldInv
  <2> QED BY <2>1, <2>3 DEF HeldInv, Holds, Needs
<1>4. CASE UNCHANGED vars BY <1>4 DEF vars, HeldInv, Holds, Needs
<1> QED BY <1>1, <1>2, <1>3, <1>4 DEF Next

\* A lease file is never left by an attempt that went on without it.
LEMMA AccountedStep == QueueInv /\ [Next]_vars => LeaseAccounted'
<1> SUFFICES ASSUME QueueInv, [Next]_vars PROVE LeaseAccounted' OBVIOUS
<1> USE DEF QueueInv, ghosts
<1>0. LeaseAccounted' <=> \A r \in Resources : lease'[r] # None =>
         lease'[r] \in lost' \/ \E q \in Procs : Holds(q)' /\ proc'[q].gen = lease'[r]
  BY DEF LeaseAccounted
<1>00. \A r \in Resources : lease[r] # None =>
         lease[r] \in lost \/ \E q \in Procs : Holds(q) /\ proc[q].gen = lease[r]
  BY DEF LeaseAccounted
<1>1. ASSUME NEW t \in Task, SubmitSpec(t) \/ SubmitRun(t) PROVE LeaseAccounted'
  BY <1>1, <1>0, <1>00 DEF SubmitSpec, SubmitRun, Holds
<1>2. ASSUME NEW p \in Procs, Step(p) \/ Crash(p) PROVE LeaseAccounted'
  <2>0. (\A q \in Procs \ {p} : proc'[q] = proc[q]) /\ proc[p] \in Process BY <1>2, Others DEF TypeOK
  <2>00. \A q \in Procs \ {p} : (Holds(q)' <=> Holds(q)) /\ proc'[q].gen = proc[q].gen BY <2>0 DEF Holds
  <2>1. ASSUME UNCHANGED lease, lost \subseteq lost',
               Holds(p) => (Holds(p)' /\ proc'[p].gen = proc[p].gen) \/ proc[p].gen \in lost'
        PROVE  LeaseAccounted'
    BY <1>0, <1>00, <2>00, <2>1
  <2>2. CASE \/ SelectList(p) \/ SelectLoad(p) \/ SelectPlace(p) \/ Claim(p) \/ AcquireLock(p)
             \/ AcquireTimeout(p) \/ Refused(p) \/ After(p) \/ Restore(p)
    BY <2>1, <2>2 DEF SelectList, SelectLoad, SelectPlace, Claim, AcquireLock, AcquireTimeout, Refused, After, Restore, Holds
  <2>3. CASE StartFail(p) \/ SaveOutcome(p) \/ SaveFail(p) \/ Move(p)
    <3>1. proc'[p].pc \in {"release", "move"} /\ proc'[p].gen = proc[p].gen /\ UNCHANGED <<lease, lost>>
      BY <2>0, <2>3 DEF StartFail, SaveOutcome, SaveFail, Move, TypeOK, Process
    <3> QED BY <2>1, <3>1 DEF Holds
  <2>4. CASE Start(p) \/ ReleaseLock(p) \/ Invoke(p)
    <3>1. proc'[p].pc \in {"invoke", "remove", "execute"} /\ proc'[p].gen = proc[p].gen
      <4>1. CASE Start(p) BY <2>0, <4>1 DEF Start, TypeOK, Process
      <4>2. CASE ReleaseLock(p) BY <2>0, <4>2 DEF ReleaseLock, TypeOK, Process
      <4>3. CASE Invoke(p) BY <2>0, <4>3 DEF Invoke, TypeOK, Process
      <4> QED BY <2>4, <4>1, <4>2, <4>3
    <3>2. UNCHANGED <<lease, lost>> BY <2>4 DEF Start, ReleaseLock, Invoke
    <3> QED BY <2>1, <3>1, <3>2 DEF Holds
  <2>5. ASSUME NEW ok \in BOOLEAN, Execute(p, ok) PROVE LeaseAccounted'
    <3>1. proc'[p].pc = "save" /\ proc'[p].gen = proc[p].gen /\ UNCHANGED <<lease, lost>>
      BY <2>0, <2>5 DEF Execute, TypeOK, Process
    <3> QED BY <2>1, <3>1 DEF Holds
  <2>6. CASE ReleaseTimeout(p) BY <2>1, <2>6 DEF ReleaseTimeout
  <2>7. CASE Crash(p)
    <3>1. Holds(p) => proc[p].gen > 0 BY <2>0 DEF HeldInv, Process
    <3> QED BY <2>1, <2>7, <3>1 DEF Crash
  <2>8. CASE AcquireFail(p)
    <3>1. lease' = RemoveOwned(proc[p].gen) /\ UNCHANGED lost BY <2>8 DEF AcquireFail
    <3>2. \A s \in Resources : lease'[s] # None => lease'[s] = lease[s] /\ lease[s] # proc[p].gen
      BY <3>1 DEF RemoveOwned
    <3> QED BY <1>0, <1>00, <2>00, <3>1, <3>2
  <2>9. ASSUME NEW r \in Resources, AcquireWrite(p, r) PROVE LeaseAccounted'
    <3>1. proc[p].pc = "write" /\ UNCHANGED lost BY <2>9 DEF AcquireWrite
    <3>2. Holds(p)' /\ proc'[p].gen = proc[p].gen BY <2>9, <3>1, FilesEffect DEF Holds
    <3>3. \A s \in Resources : lease'[s] = IF s = r THEN proc[p].gen ELSE lease[s] BY <2>9 DEF AcquireWrite, TypeOK
    <3> QED BY <1>0, <1>00, <2>00, <3>1, <3>2, <3>3
  <2>10. ASSUME NEW r \in Resources, RemoveFile(p, r) PROVE LeaseAccounted'
    <3>1. proc[p].pc = "remove" /\ r \in proc[p].todo /\ Holds(p) /\ UNCHANGED lost BY <2>10 DEF RemoveFile, Holds
    <3>2. \A s \in Resources : lease'[s] = IF s = r THEN None ELSE lease[s] BY <2>10 DEF RemoveFile, TypeOK
    <3>3. proc'[p].gen = proc[p].gen /\ (Holds(p)' \/ proc[p].todo \ {r} = {}) BY <2>10, <3>1, FilesEffect DEF Holds
    <3>4. \A s \in Resources : s \notin proc[p].todo => lease[s] # proc[p].gen
      <4>1. proc[p].gen # None BY QueueAssumption DEF HeldInv, TypeOK
      <4> QED BY <3>1, <4>1 DEF HeldInv
    <3>5. CASE Holds(p)' BY <1>0, <1>00, <2>00, <3>1, <3>2, <3>3, <3>5
    <3>6. CASE proc[p].todo \ {r} = {} BY <1>0, <1>00, <2>00, <3>1, <3>2, <3>4, <3>6
    <3> QED BY <3>3, <3>5, <3>6
  <2> QED BY <1>2, <2>2, <2>3, <2>4, <2>5, <2>6, <2>7, <2>8, <2>9, <2>10 DEF Step
<1>3. ASSUME NEW r \in Resources, ManagedClaim(r) \/ ManagedRelease(r) PROVE LeaseAccounted'
  BY <1>0, <1>00, <1>3 DEF ManagedClaim, ManagedRelease, Holds
<1>4. CASE UNCHANGED vars BY <1>0, <1>00, <1>4 DEF vars, Holds
<1> QED BY <1>1, <1>2, <1>3, <1>4 DEF Next

-----------------------------------------------------------------------------
(* Theorems.                                                                 *)

\* An empty queue without leases.
LEMMA QueueInit == Init => QueueInv
<1> SUFFICES ASSUME Init PROVE QueueInv OBVIOUS
<1>1. TypeOK
  <2>1. Idle \in Process
    <3>1. "idle" \in Pc BY DEF Pc
    <3> QED BY <3>1 DEF Idle, Process
  <2> QED BY <2>1, QueueAssumption DEF Init, TypeOK
<1>2. PlanInv /\ DoneInv BY DEF Init, PlanInv, DoneInv, Chosen, Begun, Idle
<1>3. OpenInv BY DEF Init, OpenInv, Claims, Idle
<1>4. HeldInv /\ LeaseAccounted BY DEF Init, HeldInv, LeaseAccounted, Holds, Idle
<1> QED BY <1>1, <1>2, <1>3, <1>4 DEF QueueInv

\* The invariant of the queue (TaskQueue.Next): types, plans, what run states
\* claim, who has a task, and the lease files with the lock they are under.
THEOREM QueueInvariant == Spec => []QueueInv
<1>1. QueueInv /\ [Next]_vars => QueueInv'
  BY TypeStep, PlanStep, DoneStep, OpenStep, HeldStep, AccountedStep DEF QueueInv
<1> QED BY <1>1, QueueInit, PTL DEF Spec

\* Every file and every process keeps the type of its record.
THEOREM QueueTyped == Spec => []TypeOK
BY QueueInvariant, PTL DEF QueueInv

\* Two workers, or a worker and a managed model, never share a resource
\* (AcquireLock, AcquireWrite and their failures; ReleaseLock, RemoveFile).
THEOREM WorkersExclusive == Spec => []Exclusive
<1>1. QueueInv => Exclusive BY DEF QueueInv, HeldInv, Exclusive, Holds
<1> QED BY <1>1, QueueInvariant, PTL

\* A worker that was invoked is not invoked again before the outcome is saved
\* (Claim, Invoke, SaveFail, After): no interleaving and no crash queues it.
THEOREM TaskInvokedOnce == Spec => []InvokedOnce
<1>1. QueueInv => InvokedOnce BY DEF QueueInv, OpenInv, InvokedOnce
<1> QED BY <1>1, QueueInvariant, PTL

\* A node runs after its dependencies really completed (ReadyNodes), although
\* SelectPlace and Restore write back copies that others have replaced.
THEOREM NodesInOrder == Spec => []DependenciesDone
<1>1. QueueInv => DependenciesDone BY DEF QueueInv, DoneInv, DependenciesDone, Chosen
<1> QED BY <1>1, QueueInvariant, PTL

\* A lease file outlives its attempt only where the process died or had no lock
\* to release it (AcquireFail, ReleaseTimeout, Crash).
THEOREM LeasesAccounted == Spec => []LeaseAccounted
BY QueueInvariant, PTL DEF QueueInv
=============================================================================
