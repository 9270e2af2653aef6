---------------------------- MODULE CampaignProofs ----------------------------
(* What holds of a campaign for any plan, any number of processes and any      *)
(* number of commands, faults and retries: one runner works and its heartbeats *)
(* succeed, no save undoes a command, and what is recorded as accepted is      *)
(* committed.                                                                  *)
EXTENDS CampaignRunner, TLAPS

-----------------------------------------------------------------------------
(* The leases: the two files of campaign_lease.rs implement a lock of the      *)
(* repository, for any number of campaigns and processes.                      *)

\* A process that acts and holds, or is between the two writes, has a fresh
\* heartbeat; between the writes nobody else holds or writes.
LeaseInv ==
    /\ LeaseTypeOK
    /\ LeaseKept
    /\ \A p \in Procs : job[p].phase # "none" => p \in alive /\ job[p].camp \in Campaigns
    /\ \A p \in Holding : p \notin lapsed
    /\ \A p \in Procs : job[p].phase = "writing" =>
         /\ campLease[job[p].camp] = p /\ p \notin lapsed \cup silent
         /\ Holding = {}
         /\ \A q \in Procs : job[q].phase = "writing" => q = p

\* No lease at first.
LEMMA LeaseInitInv == LeaseInit => LeaseInv
BY LeaseAssumption DEF LeaseInit, LeaseInv, LeaseTypeOK, LeaseKept, Holding, NoJob

\* A lease is taken only while nobody that still acts holds the repository: the
\* record of a holder is active, whichever campaign it belongs to.
LEMMA TakeableFree ==
    ASSUME LeaseInv, NEW p \in Procs, NEW c \in Campaigns, Active(p), job[p].phase = "none",
           Takeable(p, c)
    PROVE  Holding = {}
BY LeaseAssumption
   DEF LeaseInv, LeaseTypeOK, LeaseKept, Holding, Active, Takeable, RepositoryHeld, RecordActive

\* Every step of the two lease files keeps the invariant.
LEMMA LeaseStepInv == LeaseInv /\ [LeaseNext]_leaseVars => LeaseInv'
<1> SUFFICES ASSUME LeaseInv, [LeaseNext]_leaseVars PROVE LeaseInv'
  OBVIOUS
<1> USE DEF LeaseInv, LeaseTypeOK, LeaseKept, Holding, Active, NoJob
<1>1. ASSUME NEW p \in Procs, NEW c \in Campaigns, Active(p), job[p].phase = "none",
             AcquireCampaign(p, c)
      PROVE  LeaseInv'
  <2>1. Holding = {} BY <1>1, TakeableFree DEF AcquireCampaign
  <2>2. Holding' = {} BY <1>1, <2>1 DEF AcquireCampaign
  <2> QED BY <1>1, <2>1, <2>2, LeaseAssumption DEF AcquireCampaign, Unlocked
<1>2. ASSUME NEW p \in Procs, Active(p), AcquireRepository(p) PROVE LeaseInv'
  <2>1. Holding' = {p} BY <1>2 DEF AcquireRepository
  <2> QED BY <1>2, <2>1, LeaseAssumption DEF AcquireRepository
<1>3. ASSUME NEW p \in Procs, p \in Holding, HeartbeatOK(p), Heartbeat(p) PROVE LeaseInv'
  BY <1>3, LeaseAssumption DEF Heartbeat, HeartbeatOK, Unlocked
<1>4. ASSUME NEW p \in Procs, p \in Holding, Release(p) PROVE LeaseInv'
  BY <1>4, LeaseAssumption DEF Release, ReleaseFiles, Unlocked
<1>5. ASSUME NEW p \in Procs, Die(p) PROVE LeaseInv'
  BY <1>5 DEF Die
<1>6. ASSUME NEW p \in Procs, FallSilent(p) PROVE LeaseInv'
  BY <1>6 DEF FallSilent
<1>7. ASSUME NEW p \in Procs, Lapse(p) PROVE LeaseInv'
  BY <1>7 DEF Lapse
<1>8. ASSUME NEW p \in Procs, Restart(p) PROVE LeaseInv'
  BY <1>8 DEF Restart
<1>9. ASSUME OrphanLease({c \in Campaigns : \A p \in Holding : job[p].camp # c})
      PROVE  LeaseInv'
  BY <1>9, LeaseAssumption DEF OrphanLease
<1>10. CASE UNCHANGED leaseVars
  BY <1>10 DEF leaseVars
<1> QED
  BY <1>1, <1>2, <1>3, <1>4, <1>5, <1>6, <1>7, <1>8, <1>9, <1>10 DEF LeaseNext

\* Every step of the lease files takes the lock, drops it or leaves it alone.
LEMMA LeaseStepLock == LeaseInv /\ [LeaseNext]_leaseVars => [Lock!Next]_Holding
<1> SUFFICES ASSUME LeaseInv, [LeaseNext]_leaseVars PROVE Lock!Next \/ UNCHANGED Holding
  OBVIOUS
<1> USE DEF LeaseInv, LeaseTypeOK, Holding, Active, NoJob
<1>1. ASSUME NEW p \in Procs, NEW c \in Campaigns, Active(p), job[p].phase = "none",
             AcquireCampaign(p, c)
      PROVE  UNCHANGED Holding
  BY <1>1 DEF AcquireCampaign
<1>2. ASSUME NEW p \in Procs, Active(p), AcquireRepository(p) PROVE Lock!Take(p)
  <2>1. Holding = {} BY <1>2 DEF AcquireRepository
  <2>2. Holding' = {p} BY <1>2 DEF AcquireRepository
  <2> QED BY <2>1, <2>2 DEF Lock!Take
<1>3. ASSUME NEW p \in Procs, Release(p), p \in Holding PROVE Lock!Drop(p)
  BY <1>3 DEF Release, ReleaseFiles, Lock!Drop
<1>4. ASSUME NEW p \in Procs, Die(p) \/ FallSilent(p) PROVE Lock!Drop(p) \/ UNCHANGED Holding
  <2>1. Holding' = Holding \ {p} BY <1>4 DEF Die, FallSilent
  <2> QED BY <2>1 DEF Lock!Drop
<1>5. ASSUME NEW p \in Procs, Heartbeat(p) \/ Lapse(p) \/ Restart(p) PROVE UNCHANGED Holding
  BY <1>5 DEF Heartbeat, Lapse, Restart
<1>6. ASSUME OrphanLease({c \in Campaigns : \A p \in Holding : job[p].camp # c})
      PROVE  UNCHANGED Holding
  BY <1>6 DEF OrphanLease
<1>7. CASE UNCHANGED leaseVars
  BY <1>7 DEF leaseVars
<1> QED
  BY <1>1, <1>2, <1>3, <1>4, <1>5, <1>6, <1>7 DEF LeaseNext, Lock!Next

\* Refinement: the lease files are a lock of the repository, held by the
\* processes that still act (CampaignLeaseStore, wherever a process dies).
THEOREM LeaseImplementsLock == LeaseSpec => ExclusiveLease
<1>1. LeaseInit => Lock!Init
  BY DEF LeaseInit, Lock!Init, Holding, NoJob
<1> QED
  BY <1>1, LeaseInitInv, LeaseStepInv, LeaseStepLock, PTL
  DEF LeaseSpec, ExclusiveLease, Lock!Spec

\* A holder that still acts finds its pid in both files: nobody's acquire,
\* release or cleanup takes its record away.
THEOREM LeaseKeptHolds == LeaseSpec => []LeaseKept
<1>1. LeaseInv => LeaseKept BY DEF LeaseInv
<1> QED BY <1>1, LeaseInitInv, LeaseStepInv, PTL DEF LeaseSpec

-----------------------------------------------------------------------------
(* The inductive invariant *)

\* What a copy's attempt may hold.  (How many attempts a campaign's budget
\* leaves, and so the bound of CampaignTypeOK, is a sum over the steps, which
\* these proofs do not need.)
Numbers == Nat \cup {Total(t) + 1 : t \in [Steps -> Nat]}

\* A copy of the campaign's state.
Copy ==
    [state : CampaignStates, pause : BOOLEAN, cancel : BOOLEAN, busy : BOOLEAN,
     cur : Steps \cup {None}, attempt : Numbers, head : Nat,
     steps : [Steps -> {"absent", "pending", "rejected", "blocked", "accepted"}],
     tries : [Steps -> Nat]]

Verdicts == {"none", "Accepted", "Retryable", "Terminal", "health", "model", "review"}

\* What a runner remembers.
Runner ==
    [at : RunnerPlaces, resume : BOOLEAN, todo : Seq(Steps),
     left : [primary : Int, repair : Int, fallback : Int],
     reviewed : BOOLEAN, prefer : BOOLEAN, verdict : Verdicts, waits : Nat, failed : BOOLEAN]

\* A copy of a campaign that was started: it has every step of the plan.
Whole(m) == m.state # "Absent" /\ \A s \in Steps : Pending(s) => m.steps[s] # "absent"

\* AcceptedBacked of any copy m and any branch l.
Backed(m, l) ==
    /\ m.head <= Len(l)
    /\ \A s \in Steps \ Verification : m.steps[s] = "accepted" =>
         \E i \in DOMAIN l : l[i] = s /\ (Pending(s) => i <= m.head)

\* Where a runner is inside a step of its plan.
Inside ==
    {"attempt", "choose", "model", "returned", "accept", "review", "judge",
     "commit", "committing", "record", "mark", "verify", "settle"}

InStep(r) == r.at \in Inside \/ (r.at = "wait" /\ r.verdict # "health")

\* What a runner r with the copy m knows of the branch l: inside a step there
\* is one, and between its commit and its record the commit is the copy's HEAD.
Knows(r, m, l) ==
    /\ InStep(r) => r.todo # <<>>
    /\ r.at = "wait" => r.verdict \in {"health", "model", "review"}
    /\ r.at = "verify" => Head(r.todo) \in Verification
    /\ r.at \in {"record", "mark"} =>
         Head(r.todo) \in Verification \/ (m.head # 0 /\ l[m.head] = Head(r.todo))

\* The lease phase that goes with a place.
PhaseAt(l) ==
    IF l \in {"idle", "marking", "loaded", "clear"} THEN "none"
    ELSE IF l = "leasing" THEN "writing" ELSE "held"

\* Nobody stalls and no pid comes back here, so no record lapses.
Leased ==
    /\ LeaseInv
    /\ silent = {} /\ lapsed = {}
    /\ \A p \in Runners :
         /\ job[p].phase = PhaseAt(run[p].at)
         /\ job[p].phase # "none" => job[p].camp = Subject
         /\ run[p].at # "idle" => p \in alive

Copies ==
    /\ disk \in Copy
    /\ mem \in [Runners -> Copy]
    /\ run \in [Runners -> Runner]
    /\ log \in Seq(Steps)

\* The file, and the copies of the runners that are not idle.
FileSound ==
    /\ IF disk.state = "Absent" THEN \A s \in Steps : disk.steps[s] = "absent" ELSE Whole(disk)
    /\ Backed(disk, log)

RunnersSound ==
    \A p \in Runners : run[p].at # "idle" =>
        Whole(mem[p]) /\ Backed(mem[p], log) /\ Knows(run[p], mem[p], log)

CampaignInv == Leased /\ Copies /\ FileSound /\ RunnersSound

-----------------------------------------------------------------------------
(* The copies a runner makes of its copy *)

\* Any change of a copy but a commit and an acceptance.
Edits(m) ==
    {n \in Copy :
       /\ n.state = "Absent" => m.state = "Absent"
       /\ n.head = m.head
       /\ \A s \in Steps : n.steps[s] = m.steps[s] \/ n.steps[s] \in {"rejected", "blocked"}}

\* A copy nobody touched is an edit of itself.
LEMMA EditsSelf == \A m \in Copy : m \in Edits(m)
BY DEF Edits

\* Edits compose.
LEMMA EditsTwice ==
    ASSUME NEW m, NEW n \in Edits(m), NEW o \in Edits(n) PROVE o \in Edits(m)
BY DEF Edits

\* The changes that leave HEAD and the steps alone.
LEMMA EditsPlain ==
    ASSUME NEW m \in Copy
    PROVE  /\ \A x \in CampaignStates \ {"Absent"} : [m EXCEPT !.state = x] \in Edits(m)
           /\ \A x \in BOOLEAN : [m EXCEPT !.busy = x] \in Edits(m)
           /\ \A x \in BOOLEAN : [m EXCEPT !.pause = x] \in Edits(m)
           /\ \A x \in BOOLEAN : [m EXCEPT !.cancel = x] \in Edits(m)
           /\ \A x \in Steps \cup {None} : [m EXCEPT !.cur = x] \in Edits(m)
           /\ \A x \in Numbers : [m EXCEPT !.attempt = x] \in Edits(m)
BY DEF Copy, Edits

\* The same changes, several at once.
LEMMA EditsJoint ==
    ASSUME NEW m \in Copy, NEW c \in Steps \cup {None}
    PROVE  /\ [m EXCEPT !.state = "Completed", !.cur = c, !.busy = FALSE] \in Edits(m)
           /\ [m EXCEPT !.cur = c, !.busy = FALSE] \in Edits(m)
           /\ \A a \in Numbers : [m EXCEPT !.attempt = a, !.busy = TRUE] \in Edits(m)
<1>1. [m EXCEPT !.state = "Completed", !.cur = c, !.busy = FALSE] \in Edits(m)
  BY DEF Copy, Edits, CampaignStates
<1>2. [m EXCEPT !.cur = c, !.busy = FALSE] \in Edits(m)
  BY DEF Copy, Edits
<1>3. \A a \in Numbers : [m EXCEPT !.attempt = a, !.busy = TRUE] \in Edits(m)
  BY DEF Copy, Edits
<1> QED BY <1>1, <1>2, <1>3

\* An edit is a copy.
LEMMA EditsTyped == \A m, n : n \in Edits(m) => n \in Copy
BY DEF Edits

\* Blocking a campaign edits the copy.
LEMMA EditsBlocked == ASSUME NEW m \in Copy PROVE Blocked(m) \in Edits(m)
BY DEF Copy, Edits, Blocked, CampaignStates

\* So does the halt a checkpoint makes.
LEMMA EditsHalted == ASSUME NEW m \in Copy PROVE Halted(m) \in Edits(m)
BY DEF Copy, Edits, Halted, CampaignStates

\* Counting an attempt, accepted or not, changes no step to accepted.
LEMMA EditsAttempted ==
    ASSUME NEW m \in Copy, NEW s \in Steps, NEW v \in {"Accepted", "Terminal", "Retryable"}
    PROVE  Attempted(m, s, v) \in Edits(m)
<1> DEFINE x == CASE v = "Accepted"  -> m.steps[s]
                  [] v = "Terminal"  -> "blocked"
                  [] v = "Retryable" -> "rejected"
           t == [m.tries EXCEPT ![s] = m.tries[s] + 1]
           u == [m.steps EXCEPT ![s] = x]
<1>1. Attempted(m, s, v) = [m EXCEPT !.tries = t, !.steps = u]
  BY DEF Attempted
<1>2. x = m.steps[s] \/ x \in {"rejected", "blocked"}
  OBVIOUS
<1>3. t \in [Steps -> Nat] BY DEF Copy
<1>4. /\ u \in [Steps -> {"absent", "pending", "rejected", "blocked", "accepted"}]
      /\ \A z \in Steps : u[z] = m.steps[z] \/ u[z] \in {"rejected", "blocked"}
  <2> HIDE DEF x
  <2> QED BY <1>2 DEF Copy
<1> HIDE DEF t, u
<1> QED BY <1>1, <1>3, <1>4 DEF Copy, Edits

\* A checkpoint takes over the requests of the file, and no step.
LEMMA EditsRefreshed ==
    ASSUME disk \in Copy, NEW p \in Runners, mem[p] \in Copy
    PROVE  Refreshed(p) \in Edits(mem[p])
BY DEF Copy, Edits, Refreshed

\* The number of the next attempt is a number.
LEMMA EditsNumbered ==
    ASSUME NEW m \in Copy PROVE TotalAttempts(m) + 1 \in Numbers
BY DEF Copy, Numbers, TotalAttempts

-----------------------------------------------------------------------------
(* Saving: merge_runner_state_unlocked *)

\* What CommandsKept demands of a step from the file d to the file e.
Keeps(d, e) ==
    e.state # "Absent" =>
      /\ d.cancel /\ d.state = "Cancelled" => e.cancel /\ e.state = "Cancelled"
      /\ d.steps[Revision] # "absent" => e.steps[Revision] # "absent"

\* A merge field by field.
LEMMA MergeFields ==
    ASSUME NEW m \in Copy, NEW d \in Copy, NEW r \in BOOLEAN, d.state # "Absent"
    PROVE  LET e == Merge(m, d, r) IN
           /\ e \in Copy
           /\ e.cancel = (m.cancel \/ d.cancel)
           /\ e.head = m.head
           /\ e.state = IF d.cancel THEN "Cancelled" ELSE m.state
           /\ \A s \in Steps : e.steps[s] = IF m.steps[s] = "absent" THEN d.steps[s] ELSE m.steps[s]
<1> DEFINE t == [s \in Steps |-> IF m.steps[s] = "absent" THEN d.tries[s] ELSE m.tries[s]]
           u == [s \in Steps |-> IF m.steps[s] = "absent" THEN d.steps[s] ELSE m.steps[s]]
           c == m.cancel \/ d.cancel
           h == ~r /\ (m.pause \/ d.pause)
           x == IF d.cancel THEN "Cancelled" ELSE m.state
<1>1. Merge(m, d, r) =
        [m EXCEPT !.cancel = c, !.pause = h, !.steps = u, !.tries = t, !.state = x]
  BY DEF Merge
<1>2. t \in [Steps -> Nat] BY DEF Copy
<1>3. u \in [Steps -> {"absent", "pending", "rejected", "blocked", "accepted"}] BY DEF Copy
<1>4. c \in BOOLEAN /\ h \in BOOLEAN OBVIOUS
<1>5. x \in CampaignStates BY DEF Copy, CampaignStates
<1>6. \A s \in Steps : u[s] = IF m.steps[s] = "absent" THEN d.steps[s] ELSE m.steps[s]
  OBVIOUS
<1> HIDE DEF t, u, c, h, x
<1>7. Merge(m, d, r) \in Copy
  BY <1>1, <1>2, <1>3, <1>4, <1>5 DEF Copy
<1>8. LET e == Merge(m, d, r) IN e.cancel = c /\ e.head = m.head /\ e.state = x /\ e.steps = u
  BY <1>1 DEF Copy
<1> QED BY <1>6, <1>7, <1>8 DEF c, x

\* A merge of a sound copy into a sound file is sound.
LEMMA MergeSound ==
    ASSUME NEW m \in Copy, NEW d \in Copy, NEW r \in BOOLEAN, NEW l \in Seq(Steps),
           Whole(m), Backed(m, l), Backed(d, l)
    PROVE  LET e == Merge(m, d, r) IN e \in Copy /\ Whole(e) /\ Backed(e, l)
<1>1. CASE d.state = "Absent"
  BY <1>1 DEF Merge
<1>2. CASE d.state # "Absent"
  <2> DEFINE e == Merge(m, d, r)
  <2>1. /\ e \in Copy /\ e.head = m.head
        /\ e.state = IF d.cancel THEN "Cancelled" ELSE m.state
        /\ \A s \in Steps : e.steps[s] = IF m.steps[s] = "absent" THEN d.steps[s] ELSE m.steps[s]
    BY <1>2, MergeFields
  <2> HIDE DEF e
  <2>2. Whole(e) BY <2>1 DEF Whole
  <2>3. Backed(e, l) BY <2>1 DEF Backed, Whole
  <2> QED BY <2>1, <2>2, <2>3 DEF e
<1> QED BY <1>1, <1>2

\* A merge undoes no command.
LEMMA MergeKeeps ==
    ASSUME NEW m \in Copy, NEW d \in Copy, NEW r \in BOOLEAN,
           d.state = "Absent" => \A s \in Steps : d.steps[s] = "absent"
    PROVE  Keeps(d, Merge(m, d, r))
<1>0. Revision \in Steps BY DEF Steps
<1>1. CASE d.state = "Absent"
  BY <1>0, <1>1 DEF Keeps
<1>2. CASE d.state # "Absent"
  BY <1>0, <1>2, MergeFields DEF Keeps, Copy
<1> QED BY <1>1, <1>2

\* The runner's own copy stays sound under its edits, a longer branch included.
LEMMA EditsSound ==
    ASSUME NEW m \in Copy, NEW n \in Edits(m), NEW l \in Seq(Steps), Whole(m), Backed(m, l)
    PROVE  Whole(n) /\ Backed(n, l)
BY DEF Edits, Whole, Backed

\* What a branch backs, a longer one does.
LEMMA BackedLonger ==
    ASSUME NEW m \in Copy, NEW l \in Seq(Steps), NEW s \in Steps, Backed(m, l)
    PROVE  Backed(m, Append(l, s))
BY DEF Backed, Copy

-----------------------------------------------------------------------------
(* One step of one runner *)

\* A step of runner p that leaves it with r in mind and the copy n: it commits
\* or not, and it merges a sound copy into the file or leaves the file alone.
Moves(p, r, n) ==
    /\ r \in Runner /\ n \in Copy
    /\ run' = [run EXCEPT ![p] = r]
    /\ mem' = [mem EXCEPT ![p] = n]
    /\ log' = log \/ \E s \in Steps : log' = Append(log, s)
    /\ \/ disk' = disk
       \/ \E m \in Copy, z \in BOOLEAN :
            Whole(m) /\ Backed(m, log) /\ disk' = Merge(m, disk, z)
    /\ r.at # "idle" => Whole(n) /\ Backed(n, log') /\ Knows(r, n, log')

\* What a runner knows stays true on a longer branch.
LEMMA KnowsLonger ==
    ASSUME NEW m \in Copy, NEW l \in Seq(Steps), NEW s \in Steps, NEW r \in Runner,
           Backed(m, l), Knows(r, m, l)
    PROVE  Knows(r, m, Append(l, s))
BY DEF Knows, Backed, Copy

\* A step of one runner keeps the file and every copy sound.
LEMMA MovesSound ==
    ASSUME CampaignInv, NEW p \in Runners, NEW r, NEW n, Moves(p, r, n)
    PROVE  Copies' /\ FileSound' /\ RunnersSound'
<1> USE DEF CampaignInv, Copies
<1>1. log' \in Seq(Steps)
  BY DEF Moves
<1>2. run' \in [Runners -> Runner] /\ mem' \in [Runners -> Copy]
  BY DEF Moves
<1>3. Backed(disk, log')
  BY BackedLonger DEF Moves, FileSound
<1>4. disk' \in Copy /\ FileSound'
  <2>1. CASE disk' = disk
    BY <1>3, <2>1 DEF FileSound
  <2>2. ASSUME NEW m \in Copy, NEW z \in BOOLEAN,
               Whole(m), Backed(m, log), disk' = Merge(m, disk, z)
        PROVE  disk' \in Copy /\ FileSound'
    <3>1. Backed(m, log')
      BY <2>2, BackedLonger DEF Moves
    <3>2. disk' \in Copy /\ Whole(disk') /\ Backed(disk', log')
      BY <1>1, <1>3, <2>2, <3>1, MergeSound
    <3> QED BY <3>2 DEF FileSound, Whole
  <2> QED BY <2>1, <2>2 DEF Moves
<1>5. RunnersSound'
  <2> SUFFICES ASSUME NEW q \in Runners, run'[q].at # "idle"
               PROVE  Whole(mem'[q]) /\ Backed(mem'[q], log') /\ Knows(run'[q], mem'[q], log')
    BY DEF RunnersSound
  <2>1. CASE q = p
    BY <2>1 DEF Moves
  <2>2. CASE q # p
    <3>1. run'[q] = run[q] /\ mem'[q] = mem[q]
      BY <2>2 DEF Moves
    <3>2. Whole(mem[q]) /\ Backed(mem[q], log) /\ Knows(run[q], mem[q], log)
      BY <3>1 DEF RunnersSound
    <3> QED BY <3>1, <3>2, BackedLonger, KnowsLonger DEF Moves
  <2> QED BY <2>1, <2>2
<1> QED BY <1>1, <1>2, <1>4, <1>5

\* A step of one runner undoes no command of the file.
LEMMA MovesKeeps ==
    ASSUME CampaignInv, NEW p \in Runners, NEW r, NEW n, Moves(p, r, n)
    PROVE  Keeps(disk, disk')
<1>1. disk.state = "Absent" => \A s \in Steps : disk.steps[s] = "absent"
  BY DEF CampaignInv, FileSound
<1>2. CASE disk' = disk BY <1>2 DEF Keeps
<1>3. CASE \E m \in Copy, z \in BOOLEAN : disk' = Merge(m, disk, z)
  BY <1>1, <1>3, MergeKeeps DEF CampaignInv, Copies
<1> QED BY <1>2, <1>3 DEF Moves

\* What a runner's save, or its leaving the file alone, amounts to.
Kept(p) ==
    \/ disk' = disk /\ mem' = mem
    \/ \E n \in Edits(mem[p]), z \in BOOLEAN :
         disk' = Merge(n, disk, z) /\ mem' = [mem EXCEPT ![p] = n]

\* Where its control goes, within one phase of the lease.
Goes(p, r) ==
    /\ run[p].at # "idle"
    /\ run' = [run EXCEPT ![p] = r]
    /\ r \in Runner
    /\ PhaseAt(r.at) = PhaseAt(run[p].at)
    /\ Knows(r, mem[p], log)

\* A runner that only goes on and saves an edit makes such a step.
LEMMA GoesMoves ==
    ASSUME CampaignInv, NEW p \in Runners, NEW r, Goes(p, r), Kept(p), log' = log
    PROVE  \E n \in Copy : Moves(p, r, n)
<1> USE DEF CampaignInv, Copies
<1>0. mem[p] \in Copy /\ Whole(mem[p]) /\ Backed(mem[p], log)
  BY DEF Goes, RunnersSound
<1>1. CASE disk' = disk /\ mem' = mem
  <2>1. mem' = [mem EXCEPT ![p] = mem[p]] BY <1>1
  <2> QED BY <1>0, <1>1, <2>1 DEF Goes, Moves
<1>2. ASSUME NEW n \in Edits(mem[p]), NEW z \in BOOLEAN,
             disk' = Merge(n, disk, z), mem' = [mem EXCEPT ![p] = n]
      PROVE  Moves(p, r, n)
  <2>1. n \in Copy /\ Whole(n) /\ Backed(n, log)
    BY <1>0, EditsSound, EditsTyped
  <2>2. Knows(r, n, log)
    BY DEF Goes, Knows, Edits
  <2> QED BY <1>2, <2>1, <2>2 DEF Goes, Moves
<1> QED BY <1>1, <1>2, EditsTyped DEF Kept

-----------------------------------------------------------------------------
(* The steps of a runner that keep its lease and the branch *)

\* Save of an edited copy.
LEMMA SaveKeeps ==
    ASSUME NEW p \in Runners, NEW n \in Edits(mem[p]), Save(p, n) PROVE Kept(p)
BY DEF Save, Kept

\* A runner without a run is well typed.
LEMMA NoRunTyped == NoRun \in Runner
<1>1. Budget \in [primary : Int, repair : Int, fallback : Int]
  BY CampaignAssumption DEF Budget
<1>2. <<>> \in Seq(Steps)
  OBVIOUS
<1> QED
  BY <1>1, <1>2 DEF NoRun, Runner, RunnerPlaces, Verdicts

\* Going to place l with nothing else to remember.
LEMMA PlaceGoes ==
    ASSUME CampaignInv, NEW p \in Runners, NEW l \in RunnerPlaces \ {"wait"}, Place(p, l),
           run[p].at # "idle", PhaseAt(l) = PhaseAt(run[p].at),
           l \in Inside => run[p].todo # <<>>,
           l = "verify" => Step(p) \in Verification,
           l \in {"record", "mark"} =>
             Step(p) \in Verification \/ (mem[p].head # 0 /\ log[mem[p].head] = Step(p))
    PROVE  \E r \in Runner : Goes(p, r)
<1> USE DEF CampaignInv, Copies
<1>1. CASE l = "release"
  <2> DEFINE r == [NoRun EXCEPT !.at = "release"]
  <2>1. r \in Runner /\ r.at = "release"
    BY NoRunTyped DEF Runner, NoRun, RunnerPlaces
  <2>2. run' = [run EXCEPT ![p] = r] BY <1>1 DEF Place
  <2>3. Knows(r, mem[p], log) BY <2>1 DEF Knows, InStep, Inside
  <2> HIDE DEF r
  <2> QED BY <1>1, <2>1, <2>2, <2>3 DEF Goes
<1>2. CASE l # "release"
  <2> DEFINE r == [run[p] EXCEPT !.at = l]
  <2>1. r \in Runner /\ r.at = l /\ r.todo = run[p].todo BY DEF Runner
  <2>2. run' = [run EXCEPT ![p] = r] BY <1>2 DEF Place
  <2> HIDE DEF r
  <2>3. Knows(r, mem[p], log) BY <2>1 DEF Knows, InStep, Step
  <2> QED BY <2>1, <2>2, <2>3 DEF Goes
<1> QED BY <1>1, <1>2

\* BlockAnd saves an edit.
LEMMA BlockKeeps ==
    ASSUME CampaignInv, NEW p \in Runners, NEW l, BlockAnd(p, l)
    PROVE  Kept(p) /\ Place(p, l)
BY EditsBlocked, SaveKeeps DEF BlockAnd, CampaignInv, Copies

\* What a runner knows inside a step.
LEMMA InsideStep ==
    ASSUME CampaignInv, NEW p \in Runners, run[p].at \in Inside
    PROVE  run[p].todo # <<>> /\ Step(p) \in Steps
BY DEF CampaignInv, Copies, RunnersSound, Knows, InStep, Inside, Runner, Step

\* Out of the steps, to the release of the lease.
LEMMA ReleaseGoes ==
    ASSUME CampaignInv, NEW p \in Runners, PhaseAt(run[p].at) = "held", run[p].at # "idle",
           Place(p, "release")
    PROVE  \E r \in Runner : Goes(p, r)
<1>1. "release" \in RunnerPlaces \ {"wait"} /\ PhaseAt("release") = "held"
  BY DEF RunnerPlaces, PhaseAt
<1> QED BY <1>1, PlaceGoes DEF Inside

\* Inside a step the lease is held.
LEMMA InsideHeld ==
    ASSUME NEW r, r.at \in Inside PROVE PhaseAt(r.at) = "held" /\ r.at # "idle"
BY DEF Inside, PhaseAt

\* What a step of the kind proved below is.
Works(p) == (\E r \in Runner : Goes(p, r)) /\ Kept(p) /\ log' = log

\* Giving up with a blocked campaign keeps the invariant.
LEMMA BlockWorks ==
    ASSUME CampaignInv, NEW p \in Runners, PhaseAt(run[p].at) = "held", run[p].at # "idle",
           BlockAnd(p, "release"), log' = log
    PROVE  Works(p)
BY BlockKeeps, ReleaseGoes DEF Works

\* The types of what one runner works on.
LEMMA Typed ==
    ASSUME CampaignInv, NEW p \in Runners
    PROVE  mem[p] \in Copy /\ disk \in Copy /\ run[p] \in Runner /\ Refreshed(p) \in Edits(mem[p])
BY EditsRefreshed DEF CampaignInv, Copies

\* A save of an edited copy on the way to place l.
LEMMA SaveWorks ==
    ASSUME CampaignInv, NEW p \in Runners, NEW n \in Edits(mem[p]), Save(p, n), log' = log,
           \E r \in Runner : Goes(p, r)
    PROVE  Works(p)
BY SaveKeeps DEF Works

\* A step that saves nothing.
LEMMA StayWorks ==
    ASSUME CampaignInv, NEW p \in Runners, UNCHANGED <<disk, mem>>, log' = log,
           \E r \in Runner : Goes(p, r)
    PROVE  Works(p)
BY DEF Works, Kept

\* A campaign that may not run is left alone.
LEMMA RefusedWorks == ASSUME CampaignInv, NEW p \in Runners, Refused(p) PROVE Works(p)
<1>1. Place(p, "idle") /\ run[p].at = "loaded" /\ UNCHANGED <<disk, mem>> /\ log' = log
  BY DEF Refused, At, Quiet, WorktreeKept
<1>2. \E r \in Runner : Goes(p, r)
  BY <1>1, PlaceGoes DEF RunnerPlaces, PhaseAt, Inside
<1> QED BY <1>1, <1>2, StayWorks

\* The supervisor blocks a campaign it could not detach.
LEMMA MarkBlockedWorks == ASSUME CampaignInv, NEW p \in Runners, MarkBlocked(p) PROVE Works(p)
<1>1. BlockAnd(p, "idle") /\ run[p].at = "marking" /\ log' = log
  BY DEF MarkBlocked, At, Quiet, WorktreeKept
<1>2. Kept(p) /\ Place(p, "idle")
  BY <1>1, BlockKeeps
<1>3. \E r \in Runner : Goes(p, r)
  BY <1>1, <1>2, PlaceGoes DEF RunnerPlaces, PhaseAt, Inside
<1> QED BY <1>1, <1>2, <1>3 DEF Works

\* The first save under the lease.
LEMMA SaveLeasedWorks == ASSUME CampaignInv, NEW p \in Runners, SaveLeased(p) PROVE Works(p)
<1> DEFINE z == run[p].resume
           m == [mem[p] EXCEPT !.pause = mem[p].pause /\ ~z]
<1>1. /\ Place(p, "recover") /\ run[p].at = "leased" /\ log' = log
      /\ disk' = Merge(m, disk, z) /\ mem' = [mem EXCEPT ![p] = m]
  BY DEF SaveLeased, At, Quiet, WorktreeKept
<1>2. m \in Edits(mem[p]) /\ z \in BOOLEAN
  BY Typed, EditsPlain DEF Runner
<1>3. \E r \in Runner : Goes(p, r)
  BY <1>1, PlaceGoes DEF RunnerPlaces, PhaseAt, Inside
<1> HIDE DEF m, z
<1> QED BY <1>1, <1>2, <1>3 DEF Works, Kept

\* A run that fails goes to the release of its lease.
LEMMA FailGoes ==
    ASSUME CampaignInv, NEW p \in Runners, PhaseAt(run[p].at) = "held", run[p].at # "idle", Fail(p)
    PROVE  \E r \in Runner : Goes(p, r)
<1> DEFINE r == [NoRun EXCEPT !.at = "release", !.failed = TRUE]
<1>1. r \in Runner /\ r.at = "release"
  BY NoRunTyped DEF Runner, NoRun, RunnerPlaces
<1>2. run' = [run EXCEPT ![p] = r] BY DEF Fail
<1> HIDE DEF r
<1>3. Knows(r, mem[p], log) /\ PhaseAt(r.at) = "held"
  BY <1>1 DEF Knows, InStep, Inside, PhaseAt
<1> QED BY <1>1, <1>2, <1>3 DEF Goes

\* CampaignRunner::recover blocks or goes on.
LEMMA RecoverWorks == ASSUME CampaignInv, NEW p \in Runners, Recover(p) PROVE Works(p)
<1>0. run[p].at = "recover" /\ log' = log /\ PhaseAt(run[p].at) = "held"
  BY DEF Recover, At, PhaseAt
<1>1. ASSUME Place(p, "triage") \/ Place(p, "health") PROVE \E r \in Runner : Goes(p, r)
  BY <1>0, <1>1, PlaceGoes DEF RunnerPlaces, PhaseAt, Inside
<1>2. CASE BlockAnd(p, "triage")
  BY <1>0, <1>1, <1>2, BlockKeeps DEF Works
<1>3. CASE Fail(p) /\ UNCHANGED <<disk, mem>>
  BY <1>0, <1>3, FailGoes, StayWorks
<1>4. CASE Save(p, [mem[p] EXCEPT !.state = "Expired"]) /\ Place(p, "triage")
  <2>1. [mem[p] EXCEPT !.state = "Expired"] \in Edits(mem[p])
    BY Typed, EditsPlain DEF CampaignStates
  <2> QED BY <1>0, <1>1, <1>4, <2>1, SaveWorks
<1>5. CASE Place(p, "health") /\ UNCHANGED <<disk, mem>>
  BY <1>0, <1>1, <1>5, StayWorks
<1> QED BY <1>2, <1>3, <1>4, <1>5 DEF Recover

\* A bounded wait, to go on at l.
LEMMA WaitForGoes ==
    ASSUME CampaignInv, NEW p \in Runners, NEW l \in {"health", "model", "review"}, WaitFor(p, l),
           PhaseAt(run[p].at) = "held", run[p].at # "idle", l # "health" => run[p].todo # <<>>
    PROVE  \E r \in Runner : Goes(p, r)
<1> DEFINE r == [run[p] EXCEPT !.at = "wait", !.verdict = l, !.waits = run[p].waits + 1]
<1>1. r \in Runner /\ r.at = "wait" /\ r.verdict = l /\ r.todo = run[p].todo
  <2>1. run[p].waits + 1 \in Nat /\ l \in Verdicts BY Typed DEF Runner, Verdicts
  <2> QED BY <2>1, Typed DEF Runner, RunnerPlaces
<1>2. run' = [run EXCEPT ![p] = r] BY DEF WaitFor, CampaignInv, Copies
<1> HIDE DEF r
<1>3. Knows(r, mem[p], log) /\ PhaseAt(r.at) = "held"
  BY <1>1 DEF Knows, InStep, Inside, PhaseAt
<1> QED BY <1>1, <1>2, <1>3 DEF Goes

\* The health check of the workers.
LEMMA HealthWorks == ASSUME CampaignInv, NEW p \in Runners, Health(p) PROVE Works(p)
<1>0. run[p].at = "health" /\ log' = log /\ PhaseAt(run[p].at) = "held"
  BY DEF Health, At, Quiet, WorktreeKept, PhaseAt
<1>1. ASSUME Place(p, "triage") PROVE \E r \in Runner : Goes(p, r)
  BY <1>0, <1>1, PlaceGoes DEF RunnerPlaces, PhaseAt, Inside
<1>2. CASE Healthy(p)
  BY <1>0, <1>1, <1>2, StayWorks DEF Healthy
<1>3. CASE BlockAnd(p, "triage")
  BY <1>0, <1>1, <1>3, BlockKeeps DEF Works
<1>4. CASE Save(p, [mem[p] EXCEPT !.busy = FALSE]) /\ WaitFor(p, "health")
  BY <1>0, <1>4, WaitForGoes, SaveWorks, Typed, EditsPlain
<1> QED BY <1>2, <1>3, <1>4 DEF Health

\* What a checkpoint saves.
LEMMA RefreshedEdits ==
    ASSUME CampaignInv, NEW p \in Runners
    PROVE  /\ Refreshed(p) \in Copy /\ Refreshed(p) \in Edits(mem[p])
           /\ Halted(Refreshed(p)) \in Copy /\ Halted(Refreshed(p)) \in Edits(mem[p])
           /\ Blocked(Refreshed(p)) \in Copy /\ Blocked(Refreshed(p)) \in Edits(mem[p])
<1>1. Refreshed(p) \in Edits(mem[p]) /\ Refreshed(p) \in Copy
  BY Typed, EditsTyped
<1>2. Halted(Refreshed(p)) \in Edits(Refreshed(p)) /\ Blocked(Refreshed(p)) \in Edits(Refreshed(p))
  BY <1>1, EditsHalted, EditsBlocked
<1>3. Halted(Refreshed(p)) \in Edits(mem[p]) /\ Blocked(Refreshed(p)) \in Edits(mem[p])
  BY <1>1, <1>2, EditsTwice
<1> QED BY <1>1, <1>3, EditsTyped

\* Going on from a wait, or anywhere else, with another verdict in mind.
LEMMA VerdictGoes ==
    ASSUME CampaignInv, NEW p \in Runners, NEW l \in RunnerPlaces \ {"wait", "verify", "record", "mark"},
           NEW v \in Verdicts,
           run' = [run EXCEPT ![p] = [run[p] EXCEPT !.at = l, !.verdict = v]],
           run[p].at # "idle", PhaseAt(l) = PhaseAt(run[p].at),
           l \in Inside => run[p].todo # <<>>
    PROVE  \E r \in Runner : Goes(p, r)
<1> DEFINE r == [run[p] EXCEPT !.at = l, !.verdict = v]
<1>1. r \in Runner /\ r.at = l /\ r.todo = run[p].todo
  BY Typed DEF Runner
<1> HIDE DEF r
<1>2. Knows(r, mem[p], log)
  BY <1>1 DEF Knows, InStep
<1> QED BY <1>1, <1>2 DEF Goes, r

\* The wait for a worker.
LEMMA WaitWorks == ASSUME CampaignInv, NEW p \in Runners, Wait(p) PROVE Works(p)
<1> DEFINE m == Refreshed(p)
           v == run[p].verdict
           l == CASE v = "health" -> "triage" [] v = "model" -> "release" [] v = "review" -> "judge"
<1>0. /\ run[p].at = "wait" /\ log' = log /\ PhaseAt(run[p].at) = "held"
      /\ v \in {"health", "model", "review"} /\ (v # "health" => run[p].todo # <<>>)
  BY DEF Wait, At, Quiet, WorktreeKept, PhaseAt, CampaignInv, RunnersSound, Knows, InStep
<1>1. CASE Halting(m)
  <2>1. Save(p, Halted(m))
    BY <1>1 DEF Wait
  <2>2. run' = [run EXCEPT ![p] = [run[p] EXCEPT !.at = l, !.verdict = "Terminal"]]
    BY <1>1 DEF Wait, CampaignInv, Copies
  <2>3. /\ l \in RunnerPlaces \ {"wait", "verify", "record", "mark"} /\ PhaseAt(l) = "held"
        /\ l \in Inside => run[p].todo # <<>>
    BY <1>0 DEF RunnerPlaces, PhaseAt, Inside
  <2> HIDE DEF l
  <2>4. \E r \in Runner : Goes(p, r)
    BY <1>0, <2>2, <2>3, VerdictGoes DEF Verdicts
  <2> QED BY <1>0, <2>1, <2>4, SaveWorks, RefreshedEdits
<1>2. CASE ~Halting(m)
  <2>1. Save(p, IF v = "model" THEN [m EXCEPT !.busy = TRUE] ELSE m)
    BY <1>2 DEF Wait
  <2>2. run' = [run EXCEPT ![p] = [run[p] EXCEPT !.at = v, !.verdict = "none"]]
    BY <1>2 DEF Wait, CampaignInv, Copies
  <2>3. /\ v \in RunnerPlaces \ {"wait", "verify", "record", "mark"} /\ PhaseAt(v) = "held"
        /\ v \in Inside => run[p].todo # <<>>
    BY <1>0 DEF RunnerPlaces, PhaseAt, Inside
  <2>4. \E r \in Runner : Goes(p, r)
    BY <1>0, <2>2, <2>3, VerdictGoes DEF Verdicts
  <2>5. [m EXCEPT !.busy = TRUE] \in Edits(mem[p])
    BY RefreshedEdits, EditsPlain, EditsTwice
  <2> QED BY <1>0, <2>1, <2>4, <2>5, SaveWorks, RefreshedEdits
<1> QED BY <1>1, <1>2

\* The steps of a plan, with or without the revision.
LEMMA StepsTyped ==
    /\ EffectiveSteps \in Seq(Steps)
    /\ \A t \in Seq(Steps) : t # <<>> => Head(t) \in Steps /\ Tail(t) \in Seq(Steps)
<1>1. Plan \in Seq(Steps)
  BY CampaignAssumption DEF Steps
<1>2. <<Revision>> \in Seq(Steps) /\ <<>> \in Seq(Steps)
  BY DEF Steps
<1>3. EffectiveSteps \in Seq(Steps)
  BY <1>1, <1>2 DEF EffectiveSteps
<1> QED BY <1>3

\* The choice of what a run starts with.
LEMMA TriageWorks == ASSUME CampaignInv, NEW p \in Runners, Triage(p) PROVE Works(p)
<1> DEFINE m == mem[p]
<1>0. run[p].at = "triage" /\ log' = log /\ PhaseAt(run[p].at) = "held"
  BY DEF Triage, At, Quiet, WorktreeKept, PhaseAt
<1>1. CASE Place(p, "release") /\ UNCHANGED <<disk, mem>>
  BY <1>0, <1>1, ReleaseGoes, StayWorks
<1>2. CASE /\ Save(p, [m EXCEPT !.state = IF m.cancel THEN "Cancelled" ELSE "Paused"])
           /\ Place(p, "release")
  <2>1. [m EXCEPT !.state = IF m.cancel THEN "Cancelled" ELSE "Paused"] \in Edits(mem[p])
    BY Typed, EditsPlain DEF CampaignStates
  <2> QED BY <1>0, <1>2, <2>1, ReleaseGoes, SaveWorks
<1>3. CASE BlockAnd(p, "release")
  BY <1>0, <1>3, BlockWorks
<1>4. CASE /\ Save(p, [m EXCEPT !.state = "Running"])
           /\ run' = [run EXCEPT ![p].at = "steps", ![p].todo = EffectiveSteps]
  <2> DEFINE r == [run[p] EXCEPT !.at = "steps", !.todo = EffectiveSteps]
  <2>1. r \in Runner /\ r.at = "steps" BY Typed, StepsTyped DEF Runner, RunnerPlaces
  <2>2. run' = [run EXCEPT ![p] = r] BY <1>4 DEF CampaignInv, Copies
  <2> HIDE DEF r
  <2>3. Knows(r, mem[p], log) /\ PhaseAt(r.at) = "held"
    BY <2>1 DEF Knows, InStep, Inside, PhaseAt
  <2>4. \E q \in Runner : Goes(p, q) BY <1>0, <2>1, <2>2, <2>3 DEF Goes
  <2>5. [m EXCEPT !.state = "Running"] \in Edits(mem[p])
    BY Typed, EditsPlain DEF CampaignStates
  <2> QED BY <1>0, <1>4, <2>4, <2>5, SaveWorks
<1> QED BY <1>1, <1>2, <1>3, <1>4 DEF Triage

\* The next step of the plan, or the end of the run.
LEMMA NextStepWorks == ASSUME CampaignInv, NEW p \in Runners, NextStep(p) PROVE Works(p)
<1> DEFINE m == Refreshed(p)
           todo == run[p].todo
           s == Head(todo)
<1>0. run[p].at = "steps" /\ log' = log /\ PhaseAt(run[p].at) = "held"
  BY DEF NextStep, At, Quiet, WorktreeKept, PhaseAt
<1>1. CASE /\ Save(p, [mem[p] EXCEPT !.state = "Completed", !.cur = None, !.busy = FALSE])
           /\ Place(p, "release")
  <2>1. [mem[p] EXCEPT !.state = "Completed", !.cur = None, !.busy = FALSE] \in Edits(mem[p])
    <3>1. mem[p] \in Copy BY Typed
    <3> QED BY <3>1, EditsJoint
  <2> QED BY <1>0, <1>1, <2>1, ReleaseGoes, SaveWorks
<1>2. CASE Fail(p) /\ UNCHANGED <<disk, mem>>
  BY <1>0, <1>2, FailGoes, StayWorks
<1>3. CASE /\ todo # <<>> /\ UNCHANGED <<disk, mem>>
           /\ run' = [run EXCEPT ![p].todo = Tail(todo)]
  <2> DEFINE r == [run[p] EXCEPT !.todo = Tail(todo)]
  <2>1. r \in Runner /\ r.at = "steps" BY <1>0, <1>3, Typed, StepsTyped DEF Runner
  <2>2. run' = [run EXCEPT ![p] = r] BY <1>3 DEF CampaignInv, Copies
  <2> HIDE DEF r
  <2>3. Knows(r, mem[p], log) /\ PhaseAt(r.at) = "held"
    BY <2>1 DEF Knows, InStep, Inside, PhaseAt
  <2>4. \E q \in Runner : Goes(p, q) BY <1>0, <2>1, <2>2, <2>3 DEF Goes
  <2> QED BY <1>0, <1>3, <2>4, StayWorks
<1>4. CASE todo # <<>> /\ Save(p, [Halted(m) EXCEPT !.cur = s]) /\ Place(p, "release")
  <2>1. s \in Steps BY <1>4, Typed, StepsTyped DEF Runner
  <2>2. [Halted(m) EXCEPT !.cur = s] \in Edits(mem[p])
    BY <2>1, RefreshedEdits, EditsPlain, EditsTwice
  <2> QED BY <1>0, <1>4, <2>2, ReleaseGoes, SaveWorks
<1>5. CASE /\ todo # <<>>
           /\ Save(p, [m EXCEPT !.cur = s, !.busy = FALSE])
           /\ run' = [run EXCEPT ![p].at = "attempt", ![p].left = Budget,
                                 ![p].reviewed = FALSE, ![p].prefer = FALSE]
  <2>1. s \in Steps BY <1>5, Typed, StepsTyped DEF Runner
  <2>2. [m EXCEPT !.cur = s, !.busy = FALSE] \in Edits(m)
    <3>1. m \in Copy BY RefreshedEdits
    <3> QED BY <2>1, <3>1, EditsJoint
  <2>3. [m EXCEPT !.cur = s, !.busy = FALSE] \in Edits(mem[p])
    BY <2>2, RefreshedEdits, EditsTwice
  <2> DEFINE r == [run[p] EXCEPT !.at = "attempt", !.left = Budget, !.reviewed = FALSE, !.prefer = FALSE]
  <2>4. r \in Runner /\ r.at = "attempt" /\ r.todo = todo
    <3>1. Budget \in [primary : Int, repair : Int, fallback : Int]
      BY CampaignAssumption DEF Budget
    <3> QED BY <3>1, Typed DEF Runner, RunnerPlaces
  <2>5. run' = [run EXCEPT ![p] = r] BY <1>5 DEF CampaignInv, Copies
  <2> HIDE DEF r
  <2>6. Knows(r, mem[p], log) /\ PhaseAt(r.at) = "held"
    BY <1>5, <2>4 DEF Knows, InStep, Inside, PhaseAt
  <2>7. \E q \in Runner : Goes(p, q) BY <1>0, <2>4, <2>5, <2>6 DEF Goes
  <2> QED BY <1>0, <1>5, <2>3, <2>7, SaveWorks
<1> QED BY <1>1, <1>2, <1>3, <1>4, <1>5 DEF NextStep

\* The start of an attempt.
LEMMA AttemptWorks == ASSUME CampaignInv, NEW p \in Runners, Attempt(p) PROVE Works(p)
<1> DEFINE m == Refreshed(p)
<1>0. /\ run[p].at = "attempt" /\ log' = log /\ PhaseAt(run[p].at) = "held"
      /\ run[p].todo # <<>>
  BY InsideStep DEF Attempt, At, Quiet, WorktreeKept, PhaseAt, Inside
<1>1. CASE Save(p, Halted(m)) /\ Place(p, "release")
  BY <1>0, <1>1, RefreshedEdits, ReleaseGoes, SaveWorks
<1>2. CASE Save(p, Blocked(m)) /\ Place(p, "release")
  BY <1>0, <1>2, RefreshedEdits, ReleaseGoes, SaveWorks
<1>3. CASE Save(p, m) /\ Place(p, IF Step(p) \in Verification THEN "verify" ELSE "choose")
  <2>1. \E r \in Runner : Goes(p, r)
    BY <1>0, <1>3, PlaceGoes DEF RunnerPlaces, PhaseAt
  <2> QED BY <1>0, <1>3, <2>1, RefreshedEdits, SaveWorks
<1> QED BY <1>1, <1>2, <1>3 DEF Attempt

\* The choice of a worker for it.
LEMMA ChooseWorks == ASSUME CampaignInv, NEW p \in Runners, Choose(p) PROVE Works(p)
<1> DEFINE kind == WorkerKind(p)
           n == [mem[p] EXCEPT !.attempt = TotalAttempts(mem[p]) + 1, !.busy = TRUE]
<1>0. /\ run[p].at = "choose" /\ log' = log /\ PhaseAt(run[p].at) = "held"
      /\ run[p].todo # <<>>
  BY InsideStep DEF Choose, At, WorktreeKept, PhaseAt, Inside
<1>1. CASE kind = "none"
  BY <1>0, <1>1, BlockWorks DEF Choose
<1>2. CASE kind # "none"
  <2> DEFINE left == [run[p].left EXCEPT ![kind] = run[p].left[kind] - 1]
             prefer == run[p].prefer /\ kind = "primary"
             r == [run[p] EXCEPT !.at = "model", !.left = left, !.waits = 0, !.prefer = prefer]
  <2>1. kind \in {"primary", "repair", "fallback"}
    BY <1>2 DEF WorkerKind
  <2>2. Save(p, n) /\ run' = [run EXCEPT ![p] = r]
    <3>1. Save(p, n) BY <1>2 DEF Choose
    <3>2. /\ run' = [run EXCEPT ![p].at = "model", ![p].left[kind] = @ - 1, ![p].waits = 0,
                                ![p].prefer = @ /\ kind = "primary"]
      BY <1>2 DEF Choose
    <3> HIDE DEF kind
    <3> QED BY <3>1, <3>2 DEF CampaignInv, Copies, Runner
  <2> HIDE DEF kind
  <2>3. run[p].left \in [primary : Int, repair : Int, fallback : Int] /\ prefer \in BOOLEAN
    BY Typed DEF Runner
  <2>4. left \in [primary : Int, repair : Int, fallback : Int]
    BY <2>1, <2>3
  <2> HIDE DEF left, prefer
  <2>5. r \in Runner /\ r.at = "model" /\ r.todo = run[p].todo
    BY <2>3, <2>4, Typed DEF Runner, RunnerPlaces
  <2> HIDE DEF r
  <2>6. Knows(r, mem[p], log) /\ PhaseAt(r.at) = "held"
    BY <1>0, <2>5 DEF Knows, InStep, Inside, PhaseAt
  <2>7. \E q \in Runner : Goes(p, q) BY <1>0, <2>2, <2>5, <2>6 DEF Goes
  <2>8. n \in Edits(mem[p])
    <3>1. TotalAttempts(mem[p]) + 1 \in Numbers BY Typed, EditsNumbered
    <3>2. mem[p] \in Copy BY Typed
    <3> QED BY <3>1, <3>2, EditsJoint
  <2> QED BY <1>0, <2>2, <2>7, <2>8, SaveWorks
<1> QED BY <1>1, <1>2

\* The agent ends, or is stopped.
LEMMA ModelReturnsWorks == ASSUME CampaignInv, NEW p \in Runners, ModelReturns(p) PROVE Works(p)
<1>0. /\ run[p].at = "model" /\ log' = log /\ PhaseAt(run[p].at) = "held"
      /\ run[p].todo # <<>>
  BY InsideStep DEF ModelReturns, At, WorktreeKept, PhaseAt, Inside
<1>1. CASE /\ run' = [run EXCEPT ![p].at = "returned",
                                 ![p].verdict = IF box = p THEN "none" ELSE "Terminal"]
           /\ UNCHANGED <<disk, mem>>
  <2> DEFINE v == IF box = p THEN "none" ELSE "Terminal"
  <2>1. run' = [run EXCEPT ![p] = [run[p] EXCEPT !.at = "returned", !.verdict = v]]
    BY <1>1 DEF CampaignInv, Copies
  <2>2. v \in Verdicts BY DEF Verdicts
  <2> HIDE DEF v
  <2>3. \E r \in Runner : Goes(p, r)
    BY <1>0, <2>1, <2>2, VerdictGoes DEF RunnerPlaces, PhaseAt
  <2> QED BY <1>0, <1>1, <2>3, StayWorks
<1>2. CASE Save(p, [mem[p] EXCEPT !.busy = FALSE]) /\ WaitFor(p, "model")
  BY <1>0, <1>2, WaitForGoes, SaveWorks, Typed, EditsPlain
<1>3. CASE BlockAnd(p, "release")
  BY <1>0, <1>3, BlockWorks
<1> QED BY <1>1, <1>2, <1>3 DEF ModelReturns

\* An edited copy with one more attempt of a step, and that one blocked.
LEMMA AttemptedEdits ==
    ASSUME CampaignInv, NEW p \in Runners, NEW n \in Edits(mem[p]), NEW s \in Steps,
           NEW v \in {"Accepted", "Terminal", "Retryable"}
    PROVE  /\ Attempted(n, s, v) \in Edits(mem[p])
           /\ Blocked(Attempted(n, s, v)) \in Edits(mem[p])
           /\ Blocked(n) \in Edits(mem[p])
<1>1. n \in Copy BY EditsTyped
<1>2. Attempted(n, s, v) \in Edits(n) BY <1>1, EditsAttempted
<1>3. Attempted(n, s, v) \in Edits(mem[p]) BY <1>2, EditsTwice
<1>4. Attempted(n, s, v) \in Copy BY <1>2, EditsTyped
<1>5. Blocked(Attempted(n, s, v)) \in Edits(Attempted(n, s, v)) BY <1>4, EditsBlocked
<1>6. Blocked(Attempted(n, s, v)) \in Edits(mem[p]) BY <1>3, <1>5, EditsTwice
<1>7. Blocked(n) \in Edits(mem[p]) BY <1>1, EditsBlocked, EditsTwice
<1> QED BY <1>3, <1>6, <1>7

\* The attempt is counted once the agent returned.
LEMMA ReturnedWorks == ASSUME CampaignInv, NEW p \in Runners, Returned(p) PROVE Works(p)
<1> DEFINE m == Refreshed(p)
<1>0. /\ run[p].at = "returned" /\ log' = log /\ PhaseAt(run[p].at) = "held"
      /\ run[p].todo # <<>> /\ Step(p) \in Steps
  BY InsideStep DEF Returned, At, Quiet, WorktreeKept, PhaseAt, Inside
<1>1. CASE Save(p, Attempted(Halted(m), Step(p), "Terminal")) /\ Place(p, "release")
  <2>1. Attempted(Halted(m), Step(p), "Terminal") \in Edits(mem[p])
    BY <1>0, RefreshedEdits, AttemptedEdits
  <2> QED BY <1>0, <1>1, <2>1, ReleaseGoes, SaveWorks
<1>2. CASE Save(p, Blocked(m)) /\ Place(p, "release")
  BY <1>0, <1>2, RefreshedEdits, ReleaseGoes, SaveWorks
<1>3. CASE Save(p, [m EXCEPT !.busy = TRUE]) /\ Place(p, "accept")
  <2>1. [m EXCEPT !.busy = TRUE] \in Edits(mem[p])
    BY RefreshedEdits, EditsPlain, EditsTwice
  <2>2. \E r \in Runner : Goes(p, r)
    BY <1>0, <1>3, PlaceGoes DEF RunnerPlaces, PhaseAt
  <2> QED BY <1>0, <1>3, <2>1, <2>2, SaveWorks
<1> QED BY <1>1, <1>2, <1>3 DEF Returned

\* Going on with another verdict in mind and no wait behind.
LEMMA ReviewedGoes ==
    ASSUME CampaignInv, NEW p \in Runners, NEW l \in {"review", "judge"}, NEW v \in Verdicts,
           run' = [run EXCEPT ![p].at = l, ![p].verdict = v, ![p].waits = 0],
           run[p].at # "idle", PhaseAt(run[p].at) = "held", run[p].todo # <<>>
    PROVE  \E r \in Runner : Goes(p, r)
<1> DEFINE r == [run[p] EXCEPT !.at = l, !.verdict = v, !.waits = 0]
<1>1. r \in Runner /\ r.at = l /\ r.todo = run[p].todo
  BY Typed DEF Runner, RunnerPlaces
<1>2. run' = [run EXCEPT ![p] = r] BY DEF CampaignInv, Copies
<1> HIDE DEF r
<1>3. Knows(r, mem[p], log) /\ PhaseAt(r.at) = "held"
  BY <1>1 DEF Knows, InStep, PhaseAt
<1> QED BY <1>1, <1>2, <1>3 DEF Goes

\* The acceptance commands of an attempt.
LEMMA AcceptWorks == ASSUME CampaignInv, NEW p \in Runners, Accept(p) PROVE Works(p)
<1>0. /\ run[p].at = "accept" /\ log' = log /\ PhaseAt(run[p].at) = "held"
      /\ run[p].todo # <<>>
  BY InsideStep DEF Accept, At, Quiet, WorktreeKept, PhaseAt, Inside
<1>1. CASE AcceptanceError(p)
  BY <1>0, <1>1, BlockWorks DEF AcceptanceError
<1>2. ASSUME Save(p, [mem[p] EXCEPT !.busy = FALSE]),
             NEW v \in ReviewAttempt(dirty, run[p].verdict = "Terminal"),
             run' = [run EXCEPT
                       ![p].at = IF v = "Accepted" THEN "review" ELSE "judge",
                       ![p].verdict = IF v = "Accepted" THEN "none" ELSE v,
                       ![p].waits = 0]
      PROVE  Works(p)
  <2> DEFINE l == IF v = "Accepted" THEN "review" ELSE "judge"
             w == IF v = "Accepted" THEN "none" ELSE v
  <2>1. l \in {"review", "judge"} /\ w \in Verdicts
    BY DEF ReviewAttempt, Verdicts
  <2>2. run' = [run EXCEPT ![p].at = l, ![p].verdict = w, ![p].waits = 0]
    BY <1>2
  <2> HIDE DEF l, w
  <2>3. \E r \in Runner : Goes(p, r) BY <1>0, <2>1, <2>2, ReviewedGoes
  <2> QED BY <1>0, <1>2, <2>3, SaveWorks, Typed, EditsPlain
<1> QED BY <1>1, <1>2 DEF Accept

\* The review of an accepted attempt.
LEMMA ReviewWorks == ASSUME CampaignInv, NEW p \in Runners, Review(p) PROVE Works(p)
<1>0. /\ run[p].at = "review" /\ log' = log /\ PhaseAt(run[p].at) = "held"
      /\ run[p].todo # <<>>
  BY InsideStep DEF Review, At, Quiet, WorktreeKept, PhaseAt, Inside
<1>1. CASE Place(p, "commit") /\ UNCHANGED <<disk, mem>>
  <2>1. \E r \in Runner : Goes(p, r)
    BY <1>0, <1>1, PlaceGoes DEF RunnerPlaces, PhaseAt
  <2> QED BY <1>0, <1>1, <2>1, StayWorks
<1>2. ASSUME NEW v \in Rejections, UNCHANGED <<disk, mem>>,
             run' = [run EXCEPT ![p].at = "judge", ![p].verdict = v, ![p].waits = 0]
      PROVE  Works(p)
  <2>1. v \in Verdicts BY DEF Rejections, Verdicts
  <2>2. \E r \in Runner : Goes(p, r) BY <1>0, <1>2, <2>1, ReviewedGoes
  <2> QED BY <1>0, <1>2, <2>2, StayWorks
<1>3. CASE Save(p, mem[p]) /\ WaitFor(p, "review")
  BY <1>0, <1>3, WaitForGoes, SaveWorks, Typed, EditsSelf
<1> QED BY <1>1, <1>2, <1>3 DEF Review

\* A plan for a retry is a verdict and whether it replans.
LEMMA PlanTyped ==
    ASSUME NEW p, NEW plan \in PlanRetry(p)
    PROVE  plan[1] \in {"Terminal", "Retryable"} /\ plan[2] \in BOOLEAN
<1>1. ASSUME NEW d, NEW n
      PROVE  Planned(d, n)[1] \in {"Terminal", "Retryable"} /\ Planned(d, n)[2] \in BOOLEAN
  BY DEF Planned
<1>2. CASE plan = <<"Terminal", FALSE>> \/ plan = <<"Retryable", FALSE>>
  <2>1. CASE plan = <<"Terminal", FALSE>> BY <2>1
  <2>2. CASE plan = <<"Retryable", FALSE>> BY <2>2
  <2> QED BY <1>2, <2>1, <2>2
<1>3. CASE \E d \in Decisions, r \in BOOLEAN : plan = Planned(Unstuck(d, r), run[p].left.fallback)
  <2>1. PICK d \in Decisions, r \in BOOLEAN : plan = Planned(Unstuck(d, r), run[p].left.fallback)
    BY <1>3
  <2> QED BY <1>1, <2>1
<1>4. \/ plan = <<"Terminal", FALSE>> \/ plan = <<"Retryable", FALSE>>
      \/ \E d \in Decisions, r \in BOOLEAN : plan = Planned(Unstuck(d, r), run[p].left.fallback)
  <2>1. CASE run[p].verdict = "Terminal"
    <3>1. PlanRetry(p) = {<<"Terminal", FALSE>>} BY <2>1 DEF PlanRetry
    <3> QED BY <3>1
  <2>2. CASE run[p].verdict # "Terminal"
    <3> DEFINE f(d, r) == Planned(Unstuck(d, r), run[p].left.fallback)
               diagnosed == {f(d, r) : d \in Decisions, r \in BOOLEAN}
    <3>1. PlanRetry(p) = {<<"Retryable", FALSE>>, <<"Terminal", FALSE>>} \cup diagnosed
      BY <2>2 DEF PlanRetry
    <3> HIDE DEF f
    <3>2. plan \in diagnosed => \E d \in Decisions, r \in BOOLEAN : plan = f(d, r)
      OBVIOUS
    <3> HIDE DEF diagnosed
    <3> QED BY <3>1, <3>2 DEF f
  <2> QED BY <2>1, <2>2
<1> QED BY <1>2, <1>3, <1>4

\* The judgement of an attempt.
LEMMA JudgeWorks == ASSUME CampaignInv, NEW p \in Runners, Judge(p) PROVE Works(p)
<1>0. /\ run[p].at = "judge" /\ log' = log /\ PhaseAt(run[p].at) = "held"
      /\ run[p].todo # <<>> /\ Step(p) \in Steps
  BY InsideStep DEF Judge, At, Quiet, WorktreeKept, PhaseAt, Inside
<1>1. PICK plan \in PlanRetry(p) :
        /\ Save(p, Attempted(mem[p], Step(p), plan[1]))
        /\ run' = [run EXCEPT ![p].at = "settle", ![p].verdict = plan[1],
                              ![p].reviewed = TRUE, ![p].prefer = plan[2]]
  BY DEF Judge
<1> DEFINE v == plan[1]
           b == plan[2]
           r == [run[p] EXCEPT !.at = "settle", !.verdict = v, !.reviewed = TRUE, !.prefer = b]
<1>2. v \in {"Terminal", "Retryable"} /\ b \in BOOLEAN BY PlanTyped
<1>3. run' = [run EXCEPT ![p] = r] BY <1>1 DEF CampaignInv, Copies
<1> HIDE DEF v, b
<1>4. r \in Runner /\ r.at = "settle" /\ r.todo = run[p].todo
  BY <1>2, Typed DEF Runner, RunnerPlaces, Verdicts
<1> HIDE DEF r
<1>5. Knows(r, mem[p], log) /\ PhaseAt(r.at) = "held"
  BY <1>0, <1>4 DEF Knows, InStep, PhaseAt
<1>6. \E q \in Runner : Goes(p, q) BY <1>0, <1>3, <1>4, <1>5 DEF Goes
<1>7. Attempted(mem[p], Step(p), v) \in Edits(mem[p])
  BY <1>0, <1>2, Typed, EditsAttempted
<1> QED BY <1>0, <1>1, <1>6, <1>7, SaveWorks DEF v

\* The settlement of a rejected one.
LEMMA SettleWorks == ASSUME CampaignInv, NEW p \in Runners, Settle(p) PROVE Works(p)
<1>0. /\ run[p].at = "settle" /\ log' = log /\ PhaseAt(run[p].at) = "held"
      /\ run[p].todo # <<>>
  BY InsideStep DEF Settle, At, PhaseAt, Inside
<1>1. CASE BlockAnd(p, "release")
  BY <1>0, <1>1, BlockWorks
<1>2. CASE /\ run' = [run EXCEPT ![p].at = "attempt", ![p].verdict = "none"]
           /\ UNCHANGED <<disk, mem>>
  <2>1. run' = [run EXCEPT ![p] = [run[p] EXCEPT !.at = "attempt", !.verdict = "none"]]
    BY <1>2 DEF CampaignInv, Copies
  <2>2. \E r \in Runner : Goes(p, r)
    BY <1>0, <2>1, VerdictGoes DEF RunnerPlaces, PhaseAt, Verdicts
  <2> QED BY <1>0, <1>2, <2>2, StayWorks
<1> QED BY <1>1, <1>2 DEF Settle

\* The last checkpoint before a commit.
LEMMA CommitWorks == ASSUME CampaignInv, NEW p \in Runners, Commit(p) PROVE Works(p)
<1> DEFINE m == Refreshed(p)
<1>0. /\ run[p].at = "commit" /\ log' = log /\ PhaseAt(run[p].at) = "held"
      /\ run[p].todo # <<>> /\ Step(p) \in Steps
  BY InsideStep DEF Commit, At, Quiet, WorktreeKept, PhaseAt, Inside
<1>1. CASE Save(p, Attempted(Halted(m), Step(p), "Accepted")) /\ Place(p, "release")
  <2>1. Attempted(Halted(m), Step(p), "Accepted") \in Edits(mem[p])
    BY <1>0, RefreshedEdits, AttemptedEdits
  <2> QED BY <1>0, <1>1, <2>1, ReleaseGoes, SaveWorks
<1>2. CASE Save(p, Blocked(m)) /\ Place(p, "release")
  BY <1>0, <1>2, RefreshedEdits, ReleaseGoes, SaveWorks
<1>3. CASE Save(p, m) /\ Place(p, "committing")
  <2>1. \E r \in Runner : Goes(p, r)
    BY <1>0, <1>3, PlaceGoes DEF RunnerPlaces, PhaseAt
  <2> QED BY <1>0, <1>3, <2>1, RefreshedEdits, SaveWorks
<1>4. CASE Save(p, Blocked(Attempted(m, Step(p), "Terminal"))) /\ Place(p, "release")
  <2>1. Blocked(Attempted(m, Step(p), "Terminal")) \in Edits(mem[p])
    BY <1>0, RefreshedEdits, AttemptedEdits
  <2> QED BY <1>0, <1>4, <2>1, ReleaseGoes, SaveWorks
<1> QED BY <1>1, <1>2, <1>3, <1>4 DEF Commit

\* The accepted attempt is recorded.
LEMMA RecordWorks == ASSUME CampaignInv, NEW p \in Runners, Record(p) PROVE Works(p)
<1>0. /\ run[p].at = "record" /\ log' = log /\ PhaseAt(run[p].at) = "held"
      /\ run[p].todo # <<>> /\ Step(p) \in Steps
      /\ Save(p, Attempted(mem[p], Step(p), "Accepted")) /\ Place(p, "mark")
  BY InsideStep DEF Record, At, Quiet, WorktreeKept, PhaseAt, Inside
<1>1. Step(p) \in Verification \/ (mem[p].head # 0 /\ log[mem[p].head] = Step(p))
  BY <1>0 DEF CampaignInv, RunnersSound, Knows, Step
<1>2. \E r \in Runner : Goes(p, r)
  BY <1>0, <1>1, PlaceGoes DEF RunnerPlaces, PhaseAt
<1>3. Attempted(mem[p], Step(p), "Accepted") \in Edits(mem[p])
  BY <1>0, Typed, EditsAttempted
<1> QED BY <1>0, <1>2, <1>3, SaveWorks

\* A verification step.
LEMMA VerifyWorks == ASSUME CampaignInv, NEW p \in Runners, Verify(p) PROVE Works(p)
<1> DEFINE m == [mem[p] EXCEPT !.attempt = TotalAttempts(mem[p]) + 1, !.busy = TRUE]
<1>0. /\ run[p].at = "verify" /\ log' = log /\ PhaseAt(run[p].at) = "held"
      /\ run[p].todo # <<>> /\ Step(p) \in Steps
  BY InsideStep DEF Verify, At, Quiet, WorktreeKept, PhaseAt, Inside
<1>1. Step(p) \in Verification
  BY <1>0 DEF CampaignInv, RunnersSound, Knows, Step
<1>2. m \in Edits(mem[p])
  <2>1. TotalAttempts(mem[p]) + 1 \in Numbers BY Typed, EditsNumbered
  <2> QED BY <2>1, Typed, EditsJoint
<1>3. CASE Save(p, Attempted(m, Step(p), "Accepted")) /\ Place(p, "mark")
  <2> HIDE DEF m
  <2>1. \E r \in Runner : Goes(p, r)
    BY <1>0, <1>1, <1>3, PlaceGoes DEF RunnerPlaces, PhaseAt
  <2>2. Attempted(m, Step(p), "Accepted") \in Edits(mem[p])
    BY <1>0, <1>2, AttemptedEdits
  <2> QED BY <1>0, <1>3, <2>1, <2>2, SaveWorks
<1>4. CASE Save(p, Blocked(Attempted(m, Step(p), "Retryable"))) /\ Place(p, "release")
  <2> HIDE DEF m
  <2>1. Blocked(Attempted(m, Step(p), "Retryable")) \in Edits(mem[p])
    BY <1>0, <1>2, AttemptedEdits
  <2> QED BY <1>0, <1>4, <2>1, ReleaseGoes, SaveWorks
<1>5. CASE Save(p, Blocked(m)) /\ Place(p, "release")
  <2> HIDE DEF m
  <2>1. Blocked(m) \in Edits(mem[p])
    BY <1>0, <1>2, AttemptedEdits
  <2> QED BY <1>0, <1>5, <2>1, ReleaseGoes, SaveWorks
<1> QED BY <1>3, <1>4, <1>5 DEF Verify

-----------------------------------------------------------------------------
(* The steps that commit, accept, load, end or kill a run *)

\* A commit moves HEAD of the copy with the branch.
LEMMA GitCommitMoves ==
    ASSUME CampaignInv, NEW p \in Runners, GitCommit(p)
    PROVE  \/ Works(p)
           \/ \E r \in Runner, n \in Copy : Moves(p, r, n) /\ PhaseAt(r.at) = "held"
<1>0. /\ run[p].at = "committing" /\ PhaseAt(run[p].at) = "held"
      /\ run[p].todo # <<>> /\ Step(p) \in Steps
  BY InsideStep DEF GitCommit, At, PhaseAt, Inside
<1>1. CASE BlockAnd(p, "release") /\ log' = log
  BY <1>0, <1>1, BlockWorks
<1>2. CASE /\ log' = Append(log, Step(p))
           /\ mem' = [mem EXCEPT ![p].head = Len(log) + 1]
           /\ Place(p, "record")
           /\ UNCHANGED disk
  <2> DEFINE r == [run[p] EXCEPT !.at = "record"]
             n == [mem[p] EXCEPT !.head = Len(log) + 1]
  <2>1. r \in Runner /\ r.at = "record" /\ r.todo = run[p].todo
    BY Typed DEF Runner, RunnerPlaces
  <2>2. n \in Copy /\ n.head = Len(log) + 1 /\ n.state = mem[p].state /\ n.steps = mem[p].steps
    <3>1. Len(log) + 1 \in Nat BY DEF CampaignInv, Copies
    <3> QED BY <3>1, Typed DEF Copy
  <2>3. run' = [run EXCEPT ![p] = r] /\ mem' = [mem EXCEPT ![p] = n]
    BY <1>2 DEF Place, CampaignInv, Copies
  <2> HIDE DEF r, n
  <2>4. log' \in Seq(Steps) /\ Len(log') = Len(log) + 1 /\ log'[Len(log) + 1] = Step(p)
    BY <1>0, <1>2 DEF CampaignInv, Copies
  <2>5. Whole(mem[p]) /\ Backed(mem[p], log')
    BY <1>0, <1>2, BackedLonger, Typed DEF CampaignInv, Copies, RunnersSound
  <2>6. mem[p].head <= Len(log)
    BY <1>0 DEF CampaignInv, RunnersSound, Backed
  <2>7. Whole(n) /\ Backed(n, log')
    <3>1. Len(log) \in Nat /\ mem[p].head \in Nat
      BY Typed DEF CampaignInv, Copies, Copy
    <3>2. Whole(n) BY <2>2, <2>5 DEF Whole
    <3>3. Backed(n, log')
      <4>1. n.head <= Len(log') BY <2>2, <2>4, <3>1
      <4>2. ASSUME NEW s \in Steps \ Verification, n.steps[s] = "accepted"
            PROVE  \E i \in DOMAIN log' : log'[i] = s /\ (Pending(s) => i <= n.head)
        <5>1. PICK i \in DOMAIN log' : log'[i] = s /\ (Pending(s) => i <= mem[p].head)
          BY <2>2, <2>5, <4>2 DEF Backed
        <5>2. i \in Nat BY <2>4
        <5> QED BY <2>2, <2>6, <3>1, <5>1, <5>2
      <4> QED BY <4>1, <4>2 DEF Backed
    <3> QED BY <3>2, <3>3
  <2>8. Knows(r, n, log')
    BY <1>0, <2>1, <2>2, <2>4 DEF Knows, Step, CampaignInv, Copies
  <2>9. Moves(p, r, n)
    BY <1>0, <1>2, <2>1, <2>2, <2>3, <2>7, <2>8 DEF Moves
  <2> QED BY <2>1, <2>2, <2>9 DEF PhaseAt
<1> QED BY <1>1, <1>2 DEF GitCommit

\* A step is marked accepted after its commit.
LEMMA MarkAcceptedMoves ==
    ASSUME CampaignInv, NEW p \in Runners, MarkAccepted(p)
    PROVE  \E r \in Runner, n \in Copy : Moves(p, r, n) /\ PhaseAt(r.at) = "held"
<1> DEFINE r == [run[p] EXCEPT !.at = "steps", !.todo = Tail(run[p].todo)]
           n == [mem[p] EXCEPT !.steps[Step(p)] = "accepted"]
<1>0. /\ run[p].at = "mark" /\ run[p].todo # <<>> /\ Step(p) \in Steps /\ log' = log
  BY InsideStep DEF MarkAccepted, At, Inside, Quiet, WorktreeKept
<1>1. r \in Runner /\ r.at = "steps"
  BY <1>0, Typed, StepsTyped DEF Runner, RunnerPlaces
<1>2. /\ n \in Copy /\ n.head = mem[p].head /\ n.state = mem[p].state
      /\ \A s \in Steps : n.steps[s] = IF s = Step(p) THEN "accepted" ELSE mem[p].steps[s]
  BY <1>0, Typed DEF Copy
<1>3. /\ run' = [run EXCEPT ![p] = r] /\ mem' = [mem EXCEPT ![p] = n]
      /\ disk' = Merge(n, disk, FALSE)
  BY DEF MarkAccepted, Save, CampaignInv, Copies
<1> HIDE DEF r, n
<1>4. Whole(mem[p]) /\ Backed(mem[p], log)
  BY <1>0 DEF CampaignInv, RunnersSound
<1>5. Step(p) \in Verification \/ (mem[p].head # 0 /\ log[mem[p].head] = Step(p))
  BY <1>0 DEF CampaignInv, RunnersSound, Knows, Step
<1>6. Whole(n)
  BY <1>2, <1>4 DEF Whole
<1>7. Backed(n, log)
  <2>1. n.head <= Len(log) BY <1>2, <1>4 DEF Backed
  <2>2. ASSUME NEW s \in Steps \ Verification, n.steps[s] = "accepted"
        PROVE  \E i \in DOMAIN log : log[i] = s /\ (Pending(s) => i <= n.head)
    <3>1. CASE s # Step(p)
      BY <1>2, <1>4, <2>2, <3>1 DEF Backed
    <3>2. CASE s = Step(p)
      <4>1. mem[p].head \in Nat /\ log \in Seq(Steps)
        BY Typed DEF Copy, CampaignInv, Copies
      <4>2. mem[p].head \in DOMAIN log /\ log[mem[p].head] = s
        BY <1>4, <1>5, <2>2, <3>2, <4>1 DEF Backed
      <4> QED BY <1>2, <4>1, <4>2
    <3> QED BY <3>1, <3>2
  <2> QED BY <2>1, <2>2 DEF Backed
<1>8. Knows(r, n, log)
  BY <1>1 DEF Knows, InStep, Inside
<1>9. Moves(p, r, n)
  BY <1>0, <1>1, <1>2, <1>3, <1>6, <1>7, <1>8 DEF Moves
<1> QED BY <1>1, <1>2, <1>9 DEF PhaseAt

\* The absent campaign is a copy without steps.
LEMMA NoCampaignTyped ==
    NoCampaign \in Copy /\ NoCampaign.state = "Absent" /\ NoCampaign.head = 0
      /\ \A s \in Steps : NoCampaign.steps[s] = "absent"
<1>1. 0 \in Numbers BY DEF Numbers
<1> QED BY <1>1 DEF NoCampaign, Copy, CampaignStates

\* Loading takes the copy from the file.
LEMMA LoadMoves ==
    ASSUME CampaignInv, NEW p \in Runners, NEW resume \in BOOLEAN, Load(p, resume)
    PROVE  \E r \in Runner, n \in Copy : Moves(p, r, n) /\ r.at = "loaded"
<1> DEFINE r == [NoRun EXCEPT !.at = "loaded", !.resume = resume]
<1>1. r \in Runner /\ r.at = "loaded"
  BY NoRunTyped DEF Runner, NoRun, RunnerPlaces
<1>2. /\ run' = [run EXCEPT ![p] = r] /\ mem' = [mem EXCEPT ![p] = disk]
      /\ disk' = disk /\ log' = log /\ disk.state # "Absent"
  BY DEF Load, WorktreeKept
<1> HIDE DEF r
<1>3. disk \in Copy /\ Whole(disk) /\ Backed(disk, log)
  BY <1>2 DEF CampaignInv, Copies, FileSound
<1>4. Knows(r, disk, log)
  BY <1>1 DEF Knows, InStep, Inside
<1>5. Moves(p, r, disk)
  BY <1>1, <1>2, <1>3, <1>4 DEF Moves
<1> QED BY <1>1, <1>3, <1>5

\* So does the supervisor that blocks a campaign.
LEMMA MarkLoadMoves ==
    ASSUME CampaignInv, NEW p \in Runners, MarkLoad(p)
    PROVE  \E r \in Runner, n \in Copy : Moves(p, r, n) /\ r.at = "marking"
<1> DEFINE r == [run[p] EXCEPT !.at = "marking"]
<1>1. r \in Runner /\ r.at = "marking"
  BY Typed DEF Runner, RunnerPlaces
<1>2. /\ run' = [run EXCEPT ![p] = r] /\ mem' = [mem EXCEPT ![p] = disk]
      /\ disk' = disk /\ log' = log /\ disk.state # "Absent"
  BY DEF MarkLoad, WorktreeKept, CampaignInv, Copies
<1> HIDE DEF r
<1>3. disk \in Copy /\ Whole(disk) /\ Backed(disk, log)
  BY <1>2 DEF CampaignInv, Copies, FileSound
<1>4. Knows(r, disk, log)
  BY <1>1 DEF Knows, InStep, Inside
<1>5. Moves(p, r, disk)
  BY <1>1, <1>2, <1>3, <1>4 DEF Moves
<1> QED BY <1>1, <1>3, <1>5

\* Control that moves with nothing saved, into another phase of the lease.
LEMMA PlaceMoves ==
    ASSUME CampaignInv, NEW p \in Runners, NEW l \in {"leasing", "leased", "clear"}, Place(p, l),
           run[p].at # "idle", UNCHANGED <<disk, mem>>, log' = log
    PROVE  \E r \in Runner, n \in Copy : Moves(p, r, n) /\ r.at = l
<1> DEFINE r == [run[p] EXCEPT !.at = l]
<1>1. r \in Runner /\ r.at = l
  BY Typed DEF Runner, RunnerPlaces
<1>2. run' = [run EXCEPT ![p] = r] /\ mem' = [mem EXCEPT ![p] = mem[p]]
  BY DEF Place, CampaignInv, Copies
<1> HIDE DEF r
<1>3. mem[p] \in Copy /\ Whole(mem[p]) /\ Backed(mem[p], log)
  BY Typed DEF CampaignInv, RunnersSound
<1>4. Knows(r, mem[p], log)
  BY <1>1 DEF Knows, InStep, Inside
<1>5. Moves(p, r, mem[p])
  BY <1>1, <1>2, <1>3, <1>4 DEF Moves
<1> QED BY <1>1, <1>3, <1>5

\* The end of a run merges once more.
LEMMA ClearLeaseMoves ==
    ASSUME CampaignInv, NEW p \in Runners, ClearLease(p)
    PROVE  Moves(p, NoRun, NoCampaign)
<1>1. NoRun \in Runner /\ NoRun.at = "idle" /\ NoCampaign \in Copy
  BY NoRunTyped, NoCampaignTyped DEF NoRun
<1>2. /\ run' = [run EXCEPT ![p] = NoRun] /\ mem' = [mem EXCEPT ![p] = NoCampaign]
      /\ log' = log /\ (disk' = disk \/ disk' = Merge(mem[p], disk, FALSE))
      /\ run[p].at # "idle"
  BY DEF ClearLease, Quiet, WorktreeKept, At
<1>3. mem[p] \in Copy /\ Whole(mem[p]) /\ Backed(mem[p], log)
  BY <1>2, Typed DEF CampaignInv, RunnersSound
<1> QED BY <1>1, <1>2, <1>3 DEF Moves

\* A runner that dies leaves the file alone.
LEMMA CrashMoves ==
    ASSUME CampaignInv, NEW p \in Runners, Crash(p)
    PROVE  Moves(p, NoRun, NoCampaign)
BY NoRunTyped, NoCampaignTyped DEF Crash, Moves, NoRun, WorktreeKept

-----------------------------------------------------------------------------
(* The lease along a run *)

\* RunnerHoldsLease, of one runner.
LEMMA RunnerHolds ==
    ASSUME CampaignInv, NEW p \in Runners, PhaseAt(run[p].at) = "held"
    PROVE  p \in Holding /\ HeartbeatOK(p)
<1>1. job[p].phase = "held" /\ job[p].camp = Subject /\ p \in alive \ silent
  BY DEF CampaignInv, Leased, LeaseInv, Runners
<1>2. p \in Holding
  BY <1>1 DEF Holding, Runners
<1> QED BY <1>2 DEF CampaignInv, Leased, LeaseInv, LeaseKept, HeartbeatOK

\* A runner's step within a phase leaves the lease files alone or beats.
LEMMA LeasedKept ==
    ASSUME CampaignInv, NEW p \in Runners,
           UNCHANGED leaseVars \/ (Heartbeat(p) /\ PhaseAt(run[p].at) = "held"),
           \A q \in Runners \ {p} : run'[q] = run[q],
           PhaseAt(run'[p].at) = PhaseAt(run[p].at), run'[p].at # "idle" => p \in alive
    PROVE  Leased'
<1>1. UNCHANGED <<alive, silent, lapsed, job>>
  BY DEF leaseVars, Heartbeat
<1>2. LeaseInv'
  <2>1. CASE UNCHANGED leaseVars
    BY <2>1, LeaseStepInv DEF CampaignInv, Leased
  <2>2. CASE Heartbeat(p) /\ PhaseAt(run[p].at) = "held"
    <3>1. p \in Holding /\ HeartbeatOK(p) BY <2>2, RunnerHolds
    <3>2. LeaseNext BY <2>2, <3>1 DEF LeaseNext, Runners
    <3> QED BY <3>2, LeaseStepInv DEF CampaignInv, Leased
  <2> QED BY <2>1, <2>2
<1>3. \A q \in Runners :
        /\ job'[q].phase = PhaseAt(run'[q].at)
        /\ job'[q].phase # "none" => job'[q].camp = Subject
        /\ run'[q].at # "idle" => q \in alive'
  <2> SUFFICES ASSUME NEW q \in Runners
               PROVE  /\ job'[q].phase = PhaseAt(run'[q].at)
                      /\ job'[q].phase # "none" => job'[q].camp = Subject
                      /\ run'[q].at # "idle" => q \in alive'
    OBVIOUS
  <2>1. CASE q = p BY <1>1, <2>1 DEF CampaignInv, Leased
  <2>2. CASE q # p BY <1>1, <2>2 DEF CampaignInv, Leased
  <2> QED BY <2>1, <2>2
<1> QED BY <1>1, <1>2, <1>3 DEF CampaignInv, Leased

\* Between acquisition and release a runner touches the lease only to beat.
LEMMA WorksLease ==
    ASSUME CampaignInv, NEW p \in Runners,
           \/ Refused(p) \/ SaveLeased(p) \/ Recover(p) \/ Health(p) \/ Wait(p) \/ Triage(p)
           \/ NextStep(p) \/ Attempt(p) \/ Choose(p) \/ ModelReturns(p) \/ Returned(p)
           \/ Accept(p) \/ Review(p) \/ Judge(p) \/ Settle(p) \/ Commit(p) \/ GitCommit(p)
           \/ Record(p) \/ MarkAccepted(p) \/ Verify(p) \/ ClearLease(p) \/ MarkBlocked(p)
    PROVE  /\ UNCHANGED leaseVars \/ (Heartbeat(p) /\ PhaseAt(run[p].at) = "held")
           /\ p \in alive
<1> USE DEF At, Active, PhaseAt
<1>1. CASE Refused(p) \/ SaveLeased(p) \/ Recover(p) \/ Health(p)
  BY <1>1 DEF Refused, SaveLeased, Recover, Health
<1>2. CASE Wait(p) \/ Triage(p) \/ NextStep(p) \/ Attempt(p)
  BY <1>2 DEF Wait, Triage, NextStep, Attempt
<1>3. CASE Choose(p) \/ ModelReturns(p) \/ Returned(p) \/ Accept(p)
  BY <1>3 DEF Choose, ModelReturns, Returned, Accept
<1>4. CASE Review(p) \/ Judge(p) \/ Settle(p) \/ Commit(p)
  BY <1>4 DEF Review, Judge, Settle, Commit
<1>5. CASE GitCommit(p) \/ Record(p) \/ MarkAccepted(p) \/ Verify(p)
  BY <1>5 DEF GitCommit, Record, MarkAccepted, Verify
<1>6. CASE ClearLease(p) \/ MarkBlocked(p)
  BY <1>6 DEF ClearLease, MarkBlocked
<1> QED BY <1>1, <1>2, <1>3, <1>4, <1>5, <1>6

\* The steps that take the lease, drop it, or die with it.
LEMMA LeasedTaken ==
    ASSUME CampaignInv, NEW p \in Runners, \A q \in Runners \ {p} : run'[q] = run[q],
           \/ At(p, "loaded") /\ AcquireCampaign(p, Subject) /\ run'[p].at = "leasing"
           \/ At(p, "leasing") /\ AcquireRepository(p) /\ run'[p].at = "leased"
           \/ At(p, "release") /\ Release(p) /\ run'[p].at = "clear"
           \/ Die(p) /\ run'[p].at = "idle"
    PROVE  Leased'
<1> USE DEF CampaignInv, Leased
<1>0. /\ job \in [Runners -> [camp : Campaigns \cup {None}, phase : {"none", "writing", "held"}]]
      /\ Subject \in Campaigns
  BY CampaignAssumption DEF LeaseInv, LeaseTypeOK, Runners
<1>1. CASE At(p, "loaded") /\ AcquireCampaign(p, Subject) /\ run'[p].at = "leasing"
  <2>1. Active(p) /\ job[p].phase = "none" BY <1>1 DEF At, PhaseAt
  <2>2. LeaseNext BY <1>0, <1>1, <2>1 DEF LeaseNext, Runners
  <2>3. LeaseInv' BY <2>2, LeaseStepInv
  <2> QED BY <1>0, <1>1, <2>1, <2>3 DEF AcquireCampaign, PhaseAt, Active
<1>2. CASE At(p, "leasing") /\ AcquireRepository(p) /\ run'[p].at = "leased"
  <2>1. Active(p) /\ job[p].phase = "writing" /\ job[p].camp = Subject
    BY <1>2 DEF At, PhaseAt
  <2>2. LeaseNext BY <1>2, <2>1 DEF LeaseNext, Runners
  <2>3. LeaseInv' BY <2>2, LeaseStepInv
  <2> QED BY <1>0, <1>2, <2>1, <2>3 DEF AcquireRepository, PhaseAt, Active
<1>3. CASE At(p, "release") /\ Release(p) /\ run'[p].at = "clear"
  <2>1. p \in Holding /\ p \in alive BY <1>3, RunnerHolds DEF At, PhaseAt, Active
  <2>2. LeaseNext BY <1>3, <2>1 DEF LeaseNext, Runners
  <2>3. LeaseInv' BY <2>2, LeaseStepInv
  <2> QED BY <1>0, <1>3, <2>1, <2>3 DEF Release, ReleaseFiles, NoJob, PhaseAt
<1>4. CASE Die(p) /\ run'[p].at = "idle"
  <2>1. LeaseNext BY <1>4 DEF LeaseNext, Runners
  <2>2. LeaseInv' BY <2>1, LeaseStepInv
  <2> QED BY <1>0, <1>4, <2>2 DEF Die, NoJob, PhaseAt
<1> QED BY <1>1, <1>2, <1>3, <1>4

\* A runner's move, once its effect on the lease is known.
LEMMA MovesInv ==
    ASSUME CampaignInv, NEW p \in Runners, NEW r, NEW n, Moves(p, r, n),
           (run'[p] = r /\ \A q \in Runners \ {p} : run'[q] = run[q]) => Leased'
    PROVE  CampaignInv' /\ Keeps(disk, disk')
<1>1. run'[p] = r /\ \A q \in Runners \ {p} : run'[q] = run[q]
  BY DEF Moves, CampaignInv, Copies
<1> QED BY <1>1, MovesSound, MovesKeeps DEF CampaignInv

\* A step under the lease keeps the invariant.
LEMMA WorksInv ==
    ASSUME CampaignInv, NEW p \in Runners, Works(p), p \in alive,
           UNCHANGED leaseVars \/ (Heartbeat(p) /\ PhaseAt(run[p].at) = "held")
    PROVE  CampaignInv' /\ Keeps(disk, disk')
<1>1. PICK r \in Runner : Goes(p, r) BY DEF Works
<1>2. PICK n \in Copy : Moves(p, r, n) BY <1>1, GoesMoves DEF Works
<1>3. (run'[p] = r /\ \A q \in Runners \ {p} : run'[q] = run[q]) => Leased'
  BY <1>1, LeasedKept DEF Goes
<1> QED BY <1>2, <1>3, MovesInv

\* So does every step of a runner.
LEMMA RunnerStepInv ==
    ASSUME CampaignInv, NEW p \in Runners, RunnerStep(p)
    PROVE  CampaignInv' /\ Keeps(disk, disk')
<1>1. CASE \/ Refused(p) \/ SaveLeased(p) \/ Recover(p) \/ Health(p) \/ Wait(p) \/ Triage(p)
           \/ NextStep(p) \/ Attempt(p) \/ Choose(p) \/ ModelReturns(p) \/ Returned(p)
           \/ Accept(p) \/ Review(p) \/ Judge(p) \/ Settle(p) \/ Commit(p)
           \/ Record(p) \/ Verify(p) \/ MarkBlocked(p)
  <2>1. Works(p)
    BY <1>1, RefusedWorks, SaveLeasedWorks, RecoverWorks, HealthWorks, WaitWorks, TriageWorks,
       NextStepWorks, AttemptWorks, ChooseWorks, ModelReturnsWorks, ReturnedWorks,
       AcceptWorks, ReviewWorks, JudgeWorks, SettleWorks, CommitWorks, RecordWorks,
       VerifyWorks, MarkBlockedWorks
  <2> QED BY <1>1, <2>1, WorksLease, WorksInv
<1>2. CASE GitCommit(p) \/ MarkAccepted(p)
  <2>1. /\ UNCHANGED leaseVars \/ (Heartbeat(p) /\ PhaseAt(run[p].at) = "held")
        /\ p \in alive /\ PhaseAt(run[p].at) = "held"
    BY <1>2, WorksLease DEF GitCommit, MarkAccepted, At, PhaseAt
  <2>2. CASE Works(p)
    BY <2>1, <2>2, WorksInv
  <2>3. CASE \E r \in Runner, n \in Copy : Moves(p, r, n) /\ PhaseAt(r.at) = "held"
    <3>1. PICK r \in Runner, n \in Copy : Moves(p, r, n) /\ PhaseAt(r.at) = "held"
      BY <2>3
    <3>2. (run'[p] = r /\ \A q \in Runners \ {p} : run'[q] = run[q]) => Leased'
      BY <2>1, <3>1, LeasedKept
    <3> QED BY <3>1, <3>2, MovesInv
  <2> QED BY <1>2, <2>2, <2>3, GitCommitMoves, MarkAcceptedMoves
<1>3. CASE ClearLease(p)
  <2>1. Moves(p, NoRun, NoCampaign) BY <1>3, ClearLeaseMoves
  <2>2. PhaseAt(run[p].at) = PhaseAt(NoRun.at) /\ NoRun.at = "idle"
    BY <1>3 DEF ClearLease, At, PhaseAt, NoRun
  <2>3. (run'[p] = NoRun /\ \A q \in Runners \ {p} : run'[q] = run[q]) => Leased'
    BY <1>3, <2>2, WorksLease, LeasedKept
  <2> QED BY <2>1, <2>3, MovesInv
<1>4. CASE Lease(p)
  <2>1. PICK l \in {"leasing", "leased"} :
          /\ Place(p, l)
          /\ \/ At(p, "loaded") /\ AcquireCampaign(p, Subject) /\ l = "leasing"
             \/ At(p, "leasing") /\ AcquireRepository(p) /\ l = "leased"
    BY <1>4 DEF Lease
  <2>2. run[p].at # "idle" /\ UNCHANGED <<disk, mem>> /\ log' = log
    BY <1>4 DEF Lease, At, Quiet, WorktreeKept
  <2>3. PICK r \in Runner, n \in Copy : Moves(p, r, n) /\ r.at = l
    BY <2>1, <2>2, PlaceMoves
  <2>4. (run'[p] = r /\ \A q \in Runners \ {p} : run'[q] = run[q]) => Leased'
    BY <2>1, <2>3, LeasedTaken
  <2> QED BY <2>3, <2>4, MovesInv
<1>5. CASE ReleaseLease(p)
  <2>1. /\ At(p, "release") /\ Release(p) /\ Place(p, "clear")
        /\ run[p].at # "idle" /\ UNCHANGED <<disk, mem>> /\ log' = log
    BY <1>5 DEF ReleaseLease, At, Quiet, WorktreeKept
  <2>2. PICK r \in Runner, n \in Copy : Moves(p, r, n) /\ r.at = "clear"
    BY <2>1, PlaceMoves
  <2>3. (run'[p] = r /\ \A q \in Runners \ {p} : run'[q] = run[q]) => Leased'
    BY <2>1, <2>2, LeasedTaken
  <2> QED BY <2>2, <2>3, MovesInv
<1> QED BY <1>1, <1>2, <1>3, <1>4, <1>5 DEF RunnerStep

-----------------------------------------------------------------------------
(* Operators, the supervisor and the worker *)

\* A command on the file alone.
LEMMA FileInv ==
    ASSUME CampaignInv, UNCHANGED <<leaseVars, mem, run, log>>, disk' \in Copy, FileSound'
    PROVE  CampaignInv'
<1>1. LeaseInv'
  <2>1. UNCHANGED leaseVars OBVIOUS
  <2> QED BY <2>1, LeaseStepInv DEF CampaignInv, Leased
<1>2. Leased' BY <1>1 DEF CampaignInv, Leased, leaseVars
<1>3. Copies' /\ RunnersSound' BY DEF CampaignInv, Copies, RunnersSound
<1> QED BY <1>2, <1>3 DEF CampaignInv

\* A command that edits what neither HEAD nor an accepted step depends on.
LEMMA CommandInv ==
    ASSUME CampaignInv, UNCHANGED <<leaseVars, mem, run, log>>, disk.state # "Absent",
           disk' \in Copy, disk'.state # "Absent", disk'.head = disk.head,
           \A s \in Steps : \/ disk'.steps[s] = disk.steps[s]
                            \/ s = Revision /\ disk'.steps[s] = "pending",
           disk.cancel /\ disk.state = "Cancelled" => disk'.cancel /\ disk'.state = "Cancelled"
    PROVE  CampaignInv' /\ Keeps(disk, disk')
<1>1. Whole(disk) /\ Backed(disk, log) BY DEF CampaignInv, FileSound
<1>2. Whole(disk') BY <1>1 DEF Whole
<1>3. Backed(disk', log) BY <1>1 DEF Backed
<1>4. Keeps(disk, disk') BY DEF Keeps, Steps
<1> QED BY <1>2, <1>3, <1>4, FileInv DEF FileSound

\* A campaign starts with pending steps.
LEMMA StartInv ==
    ASSUME CampaignInv, Start PROVE CampaignInv' /\ Keeps(disk, disk')
<1>1. /\ disk' = Started /\ disk.state = "Absent" /\ UNCHANGED <<leaseVars, mem, run, log>>
  BY DEF Start, Quiet, WorktreeKept
<1>2. /\ Started \in Copy /\ Started.state = "Running" /\ Started.head = 0
      /\ \A s \in Steps : Started.steps[s] = IF Pending(s) THEN "pending" ELSE "absent"
  <2> DEFINE u == [s \in Steps |-> IF Pending(s) THEN "pending" ELSE "absent"]
  <2>1. u \in [Steps -> {"absent", "pending", "rejected", "blocked", "accepted"}]
    OBVIOUS
  <2>2. \A s \in Steps : u[s] = IF Pending(s) THEN "pending" ELSE "absent"
    OBVIOUS
  <2>3. Started = [NoCampaign EXCEPT !.state = "Running", !.steps = u]
    BY DEF Started
  <2> HIDE DEF u
  <2> QED BY <2>1, <2>2, <2>3, NoCampaignTyped DEF Copy, CampaignStates
<1>3. Whole(Started) BY <1>2 DEF Whole
<1>4. Backed(Started, log) BY <1>2 DEF Backed, CampaignInv, Copies
<1>5. disk.steps[Revision] = "absent" BY <1>1 DEF CampaignInv, FileSound, Steps
<1>6. Keeps(disk, disk') BY <1>1, <1>5 DEF Keeps
<1> QED BY <1>1, <1>2, <1>3, <1>4, <1>6, FileInv DEF FileSound

\* A pause is a request in the file.
LEMMA PauseInv ==
    ASSUME CampaignInv, Pause PROVE CampaignInv' /\ Keeps(disk, disk')
BY CommandInv DEF Pause, WorktreeKept, CampaignInv, Copies, Copy

\* A cancel ends the campaign in the file.
LEMMA CancelInv ==
    ASSUME CampaignInv, Cancel PROVE CampaignInv' /\ Keeps(disk, disk')
<1> DEFINE x == IF disk.state \in {"Completed", "Cancelled", "Expired"}
                   THEN disk.state ELSE "Cancelled"
<1>1. /\ disk' = [disk EXCEPT !.cancel = TRUE, !.pause = FALSE, !.state = x]
      /\ disk.state # "Absent" /\ UNCHANGED <<leaseVars, mem, run, log>>
  BY DEF Cancel, WorktreeKept
<1>2. x \in CampaignStates /\ x # "Absent" /\ (disk.state = "Cancelled" => x = "Cancelled")
  BY <1>1 DEF CampaignStates
<1> HIDE DEF x
<1> QED BY <1>1, <1>2, CommandInv DEF CampaignInv, Copies, Copy

\* A revision adds its step.
LEMMA ReviseInv ==
    ASSUME CampaignInv, NEW torn \in BOOLEAN, Revise(torn)
    PROVE  CampaignInv' /\ Keeps(disk, disk')
<1>0. Revision \in Steps /\ disk \in Copy BY DEF Steps, CampaignInv, Copies
<1>1. disk.state # "Absent" /\ UNCHANGED <<leaseVars, mem, run, log>>
  BY DEF Revise
<1>2. CASE torn
  <2>1. disk' = disk BY <1>2 DEF Revise
  <2> QED BY <1>0, <1>1, <2>1, CommandInv
<1>3. CASE ~torn
  <2>1. disk' = [disk EXCEPT !.steps = [disk.steps EXCEPT ![Revision] = "pending"]]
    BY <1>3 DEF Revise
  <2>2. disk' \in Copy /\ disk'.state = disk.state /\ disk'.head = disk.head /\ disk'.cancel = disk.cancel
    BY <1>0, <2>1 DEF Copy
  <2>3. \A s \in Steps : disk'.steps[s] = IF s = Revision THEN "pending" ELSE disk.steps[s]
    BY <1>0, <2>1 DEF Copy
  <2> QED BY <1>1, <2>2, <2>3, CommandInv
<1> QED BY <1>2, <1>3

\* The background heartbeat writes the current step over the file.
LEMMA BeatStateInv ==
    ASSUME CampaignInv, NEW p \in Runners, BeatState(p)
    PROVE  CampaignInv' /\ Keeps(disk, disk')
<1>1. run[p].at = "model" /\ Step(p) \in Steps BY InsideStep DEF BeatState, At, Inside
<1>2. /\ disk' = [disk EXCEPT !.cur = Step(p), !.busy = TRUE]
      /\ disk.state = "Running" /\ UNCHANGED <<leaseVars, mem, run, log>>
  BY DEF BeatState, Quiet, WorktreeKept
<1> QED BY <1>1, <1>2, CommandInv DEF CampaignInv, Copies, Copy

\* Nobody is inside a run when a campaign is pruned, so nobody loses a lease.
LEMMA PruneInv ==
    ASSUME CampaignInv, Prune PROVE CampaignInv' /\ Keeps(disk, disk')
<1>1. \A p \in Runners : run[p].at = "idle" /\ job[p].phase = "none"
  BY DEF Prune, Active, CampaignInv, Leased, PhaseAt
<1>2. Holding = {}
  BY <1>1 DEF Holding, Runners, CampaignInv, Leased, LeaseInv, LeaseTypeOK
<1>3. /\ UNCHANGED <<alive, silent, lapsed, job, mem, run>> /\ disk' = NoCampaign /\ log' = <<>>
      /\ ReleaseFiles(Subject)
  BY DEF Prune
<1>4. Holding' = {} BY <1>2, <1>3 DEF Holding
<1>5. LeaseTypeOK'
  BY <1>3, CampaignAssumption DEF CampaignInv, Leased, LeaseInv, LeaseTypeOK, ReleaseFiles
<1>6. LeaseInv'
  BY <1>1, <1>3, <1>4, <1>5 DEF CampaignInv, Leased, LeaseInv, LeaseKept, Runners
<1>7. Leased'
  BY <1>3, <1>6 DEF CampaignInv, Leased
<1>8. log' \in Seq(Steps) BY <1>3
<1>9. Copies' /\ RunnersSound'
  BY <1>1, <1>3, <1>8, NoCampaignTyped DEF CampaignInv, Copies, RunnersSound
<1>10. FileSound'
  BY <1>3, NoCampaignTyped DEF FileSound, Backed
<1> QED BY <1>3, <1>7, <1>9, <1>10, NoCampaignTyped DEF CampaignInv, Keeps

\* A process that loads the state, with or without a run to follow.
LEMMA LoadInv ==
    ASSUME CampaignInv, NEW p \in Runners,
           MarkLoad(p) \/ \E resume \in BOOLEAN : Load(p, resume)
    PROVE  CampaignInv' /\ Keeps(disk, disk')
<1>1. PICK r \in Runner, n \in Copy : Moves(p, r, n) /\ r.at \in {"loaded", "marking"}
  BY LoadMoves, MarkLoadMoves
<1>2. UNCHANGED leaseVars /\ p \in alive /\ run[p].at = "idle"
  BY DEF Load, MarkLoad, At, Active
<1>3. (run'[p] = r /\ \A q \in Runners \ {p} : run'[q] = run[q]) => Leased'
  BY <1>1, <1>2, LeasedKept DEF PhaseAt
<1> QED BY <1>1, <1>3, MovesInv

\* A death leaves the lease to lapse.
LEMMA CrashInv ==
    ASSUME CampaignInv, NEW p \in Runners, Crash(p)
    PROVE  CampaignInv' /\ Keeps(disk, disk')
<1>1. Moves(p, NoRun, NoCampaign) BY CrashMoves
<1>2. (run'[p] = NoRun /\ \A q \in Runners \ {p} : run'[q] = run[q]) => Leased'
  BY LeasedTaken DEF Crash, NoRun
<1> QED BY <1>1, <1>2, MovesInv

\* Every step keeps the invariant and undoes no command.
LEMMA CampaignStep ==
    ASSUME CampaignInv, [Next]_vars PROVE CampaignInv' /\ Keeps(disk, disk')
<1>1. CASE UNCHANGED <<leaseVars, disk, mem, run, log>>
  BY <1>1, FileInv DEF CampaignInv, Copies, FileSound, Keeps
<1>2. CASE Operate
  <2>1. CASE Expire BY <1>1, <2>1 DEF Expire
  <2> QED BY <1>2, <2>1, StartInv, PauseInv, CancelInv, ReviseInv, LoadInv DEF Operate
<1>3. CASE Supervise
  <2>1. CASE CleanupContainer BY <1>1, <2>1 DEF CleanupContainer, WorktreeKept
  <2>2. CASE \E p \in Supervising : MarkLoad(p) \/ Load(p, TRUE)
    <3>1. PICK p \in Supervising : MarkLoad(p) \/ Load(p, TRUE) BY <2>2
    <3> QED BY <3>1, LoadInv, CampaignAssumption DEF Runners
  <2> QED BY <1>3, <2>1, <2>2, PruneInv DEF Supervise
<1>4. CASE WorkerWrites BY <1>1, <1>4 DEF WorkerWrites
<1>5. CASE \E p \in Runners : RunnerStep(p) \/ BeatState(p)
  BY <1>5, RunnerStepInv, BeatStateInv
<1>6. CASE \E p \in Runners : Crash(p)
  BY <1>6, CrashInv
<1>7. CASE UNCHANGED vars
  BY <1>1, <1>7 DEF vars, campaignVars
<1> QED BY <1>2, <1>3, <1>4, <1>5, <1>6, <1>7 DEF Next

\* No campaign, no lease, no commit at first.
LEMMA CampaignInit == Init => CampaignInv
<1> SUFFICES ASSUME Init PROVE CampaignInv
  OBVIOUS
<1>1. LeaseInv BY LeaseInitInv DEF Init
<1>2. Copies BY NoRunTyped, NoCampaignTyped DEF Init, Copies
<1>3. Leased BY <1>1 DEF Init, LeaseInit, Leased, NoRun, NoJob, PhaseAt, Runners
<1>4. FileSound BY NoCampaignTyped DEF Init, FileSound, Backed
<1>5. RunnersSound BY DEF Init, RunnersSound, NoRun
<1> QED BY <1>2, <1>3, <1>4, <1>5 DEF CampaignInv

-----------------------------------------------------------------------------
(* Theorems *)

\* The invariant the others follow from.
THEOREM CampaignInvariant == Spec => []CampaignInv
<1>1. CampaignInv /\ [Next]_vars => CampaignInv'
  BY CampaignStep
<1> QED BY <1>1, CampaignInit, PTL DEF Spec

\* One runner advances the campaign at a time and its heartbeats succeed
\* (CampaignRunner::run_with_lease under CampaignLeaseStore).
THEOREM CampaignLeased == Spec => []RunnerHoldsLease
<1>1. CampaignInv => RunnerHoldsLease
  <2> SUFFICES ASSUME CampaignInv, NEW p \in Runners,
                      run[p].at \notin {"idle", "marking", "loaded", "leasing", "clear"}
               PROVE  p \in Holding /\ HeartbeatOK(p)
    BY DEF RunnerHoldsLease
  <2>1. PhaseAt(run[p].at) = "held" BY DEF PhaseAt
  <2> QED BY <2>1, RunnerHolds
<1> QED BY <1>1, CampaignInvariant, PTL

\* A step recorded as accepted is committed, and the recorded HEAD is never
\* ahead of the branch, whichever stale copies are merged over the file.
THEOREM CampaignBacked == Spec => []AcceptedBacked
<1>1. CampaignInv => AcceptedBacked
  BY DEF CampaignInv, FileSound, Backed, AcceptedBacked
<1> QED BY <1>1, CampaignInvariant, PTL

\* No save of a stale copy undoes a cancellation or drops a revision's step
\* (merge_runner_state_unlocked).
THEOREM CampaignCommandsKept == Spec => CommandsKept
<1>1. CampaignInv /\ [Next]_vars =>
        [disk'.state # "Absent" =>
           /\ disk.cancel /\ disk.state = "Cancelled" => disk'.cancel /\ disk'.state = "Cancelled"
           /\ disk.steps[Revision] # "absent" => disk'.steps[Revision] # "absent"]_vars
  BY CampaignStep DEF Keeps
<1> QED BY <1>1, CampaignInvariant, PTL DEF Spec, CommandsKept
=============================================================================
