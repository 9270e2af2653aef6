----------------------------- MODULE MediaProofs -----------------------------
(* The media GPU beside the runtime, and the receiver alone: proofs about    *)
(* MediaBridge.                                                              *)
EXTENDS MediaBridge, TLAPS

-----------------------------------------------------------------------------
(* Types.                                                                    *)

\* An empty record is a record.
LEMMA EmptyTyped == NoService \in Service /\ Start0 \in Control
<1>1. 0 \in Act /\ 0 \in 0 .. MaxStarts BY BackendAssumption DEF Act
<1>2. NoService \in Service BY <1>1 DEF NoService, Service, Phases, Modes, NoAct
<1>3. "sleep" \in Places BY DEF Places
<1> QED BY <1>2, <1>3 DEF Start0, Control

\* A process goes to a place; what it forgets.
LEMMA GotoSet ==
    ASSUME TypeOK, NEW p \in Proc, NEW x \in Places, Goto(p, x)
    PROVE  /\ at' \in [Proc -> Control] /\ at'[p].pc = x
           /\ \A q \in Proc \ {p} : at'[q] = at[q]
           /\ IF x \in Settled \cup {"failed", "verify"} THEN at'[p].snap = NoService
              ELSE at'[p].snap = at[p].snap /\ at'[p].job = at[p].job /\ at'[p].res = at[p].res
<1> DEFINE c == IF x \in Settled THEN [Start0 EXCEPT !.pc = x]
                ELSE IF x \in {"failed", "verify"} THEN [Start0 EXCEPT !.pc = x, !.res = IF p = "rt" THEN at[p].res ELSE "none"]
                ELSE [at[p] EXCEPT !.pc = x]
<1>1. at[p] \in Control /\ Start0 \in Control BY EmptyTyped DEF TypeOK
<1>2. c \in Control BY <1>1 DEF Control
<1>3. /\ c.pc = x
      /\ IF x \in Settled \cup {"failed", "verify"} THEN c.snap = NoService
         ELSE c.snap = at[p].snap /\ c.job = at[p].job /\ c.res = at[p].res
  BY <1>1 DEF Control, Start0
<1>4. at' = [at EXCEPT ![p] = c] BY DEF Goto
<1> HIDE DEF c
<1> QED BY <1>2, <1>3, <1>4 DEF TypeOK

\* The same with a copy.
LEMMA GotoWithSet ==
    ASSUME TypeOK, NEW p \in Proc, NEW x \in Places, NEW s \in Service, GotoWith(p, x, s)
    PROVE  /\ at' \in [Proc -> Control] /\ at'[p].pc = x /\ at'[p].snap = s
           /\ \A q \in Proc \ {p} : at'[q] = at[q]
           /\ at'[p].job = at[p].job /\ at'[p].res = at[p].res
<1> DEFINE c == [at[p] EXCEPT !.pc = x, !.snap = s]
<1>1. at[p] \in Control BY DEF TypeOK
<1>2. c \in Control /\ c.pc = x /\ c.snap = s /\ c.job = at[p].job /\ c.res = at[p].res BY <1>1 DEF Control
<1>3. at' = [at EXCEPT ![p] = c] BY <1>1 DEF GotoWith, TypeOK, Control
<1> HIDE DEF c
<1> QED BY <1>2, <1>3 DEF TypeOK

\* The fields of a record.
LEMMA Fields ==
    ASSUME NEW s \in Service
    PROVE  /\ s.act \in Act /\ s.lease \in Act /\ s.inv \in 0 .. MaxStarts /\ s.phase \in Phases /\ s.mode \in Modes
           /\ s.session \in Session \cup {NoSession} /\ s.target \in 0 .. MaxStarts /\ s.prev \in 0 .. MaxStarts
           /\ \A x \in {"stopped", "waiting", "reserving", "starting", "ready", "restarting", "draining", "stopping", "recovery"} :
                 [s EXCEPT !.state = x] \in Service
           /\ \A x \in 0 .. MaxStarts : [s EXCEPT !.inv = x] \in Service /\ [s EXCEPT !.target = x] \in Service
           /\ \A x \in Phases : [s EXCEPT !.phase = x] \in Service
BY DEF Service

\* One process moves, not to the places that issue an activation.
Moved(p) ==
    /\ at' \in [Proc -> Control] /\ at'[p].pc \notin {"begin", "create"}
    /\ \A q \in Proc \ {p} : at'[q] = at[q]

\* Going to a place is such a move.
LEMMA GotoMoves ==
    ASSUME TypeOK, NEW p \in Proc, NEW x \in Places \ {"begin", "create"}, Goto(p, x)
    PROVE  Moved(p)
BY GotoSet DEF Moved

\* A move with a copy.
LEMMA GotoWithMoves ==
    ASSUME TypeOK, NEW p \in Proc, NEW x \in Places \ {"begin", "create"}, NEW s \in Service, GotoWith(p, x, s)
    PROVE  Moved(p)
BY GotoWithSet DEF Moved

\* What a process may change.
LEMMA StepTyped ==
    ASSUME TypeOK, NEW p \in Proc, Moved(p), BackendTypeOK',
           svc' \in Service, jobs' \in [Job -> JobRecord], sess' \in [Session -> SessionRecord],
           oplock' \in {"free", "sup", "rt"}, acts' = acts, faults' \in 0 .. MaxFaults, grants' = grants
    PROVE  TypeOK'
BY DEF TypeOK, Moved, Proc, sup

\* The parts of the backend.
LEMMA BackendSame ==
    ASSUME BackendTypeOK, UNCHANGED backendVars PROVE BackendTypeOK'
BY DEF BackendTypeOK, backendVars, workVars, holdVars

\* Only the authority file is written.
LEMMA AuthTyped ==
    ASSUME BackendTypeOK, auth' \in [act : Act, mode : Modes],
           UNCHANGED <<unit, starts, idled, dirty, workVars, holdVars>>
    PROVE  BackendTypeOK'
BY DEF BackendTypeOK, workVars, holdVars

\* An authority names the activation of a record.
LEMMA GateTyped ==
    ASSUME NEW s \in Service
    PROVE  [act |-> s.act, mode |-> s.mode] \in [act : Act, mode : Modes]
           /\ [act |-> s.act, mode |-> "closed"] \in [act : Act, mode : Modes]
BY Fields DEF Modes

\* A step of the lifecycle, by either process.
LEMMA LifecycleTyped ==
    ASSUME TypeOK, NEW p \in Proc, Lifecycle(p), grants' = grants
    PROVE  TypeOK'
<1>0. /\ at[p] \in Control /\ at[p].snap \in Service /\ svc \in Service
      /\ BackendTypeOK /\ jobs \in [Job -> JobRecord] /\ sess \in [Session -> SessionRecord]
      /\ oplock \in {"free", "sup", "rt"} /\ faults \in 0 .. MaxFaults
  BY DEF TypeOK, Control
<1>p. After(p) \in Places \ {"begin", "create"} BY DEF Places, After
<1>1. CASE Observe(p)
  <2>1. Moved(p)
    <3>1. "adopt" \in Places \ {"begin", "create"} BY DEF Places
    <3> QED BY <1>0, <1>1, <3>1, GotoWithMoves DEF Observe
  <2>2. BackendTypeOK' BY <1>0, <1>1, GateTyped, AuthTyped DEF Observe, Close, Authority
  <2> QED BY <1>0, <1>1, <2>1, <2>2, StepTyped DEF Observe
<1>2. CASE Adopt(p)
  <2>1. Moved(p)
    <3>1. {"verify", "failed"} \subseteq Places \ {"begin", "create"} BY DEF Places
    <3> QED BY <1>2, <3>1, GotoMoves DEF Adopt
  <2>2. svc' \in Service
    <3>1. unit.inv \in 0 .. MaxStarts BY <1>0 DEF BackendTypeOK
    <3> QED BY <1>0, <1>2, <3>1, Fields DEF Adopt
  <2> QED BY <1>0, <1>2, <2>1, <2>2, StepTyped, BackendSame DEF Adopt
<1>3. CASE StartupVerify(p)
  <2>1. Moved(p)
    <3>1. {"open", "stopreq"} \subseteq Places \ {"begin", "create"} BY DEF Places
    <3> QED BY <1>0, <1>3, <1>p, <3>1, GotoMoves, GotoWithMoves DEF StartupVerify
  <2>2. svc' \in Service BY <1>0, <1>3, Fields DEF StartupVerify
  <2> QED BY <1>0, <1>3, <2>1, <2>2, StepTyped, BackendSame DEF StartupVerify
<1>4. CASE OpenGate(p)
  <2>1. Moved(p)
    <3>1. "failed" \in Places \ {"begin", "create"} BY DEF Places
    <3> QED BY <1>4, <1>p, <3>1, GotoMoves DEF OpenGate
  <2>2. svc' \in Service BY <1>0, <1>4, Fields DEF OpenGate
  <2>3. BackendTypeOK' BY <1>0, <1>4, GateTyped, AuthTyped DEF OpenGate, Authorise, Authority
  <2> QED BY <1>0, <1>4, <2>1, <2>2, <2>3, StepTyped DEF OpenGate
<1>5. CASE Drain(p)
  <2>1. Moved(p)
    <3>1. "halt" \in Places \ {"begin", "create"} BY DEF Places
    <3> QED BY <1>5, <1>p, <3>1, GotoMoves DEF Drain
  <2>2. BackendTypeOK' BY <1>0, <1>5, GateTyped, AuthTyped DEF Drain, Close, Authority
  <2> QED BY <1>0, <1>5, <2>1, <2>2, StepTyped DEF Drain
<1>6. CASE Halt(p)
  <2>1. Moved(p)
    <3>1. "stopreq" \in Places \ {"begin", "create"} BY DEF Places
    <3> QED BY <1>6, <3>1, GotoMoves DEF Halt
  <2>2. svc' \in Service BY <1>0, <1>6, Fields DEF Halt
  <2> QED BY <1>0, <1>6, <2>1, <2>2, StepTyped, BackendSame DEF Halt
<1>7. CASE StopRequest(p)
  <2>1. Moved(p)
    <3>1. "failed" \in Places \ {"begin", "create"} BY DEF Places
    <3> QED BY <1>7, <1>p, <3>1, GotoMoves DEF StopRequest
  <2>2. BackendTypeOK' BY <1>0, <1>7 DEF StopRequest, StopUnit, BackendTypeOK, workVars, holdVars
  <2> QED BY <1>0, <1>7, <2>1, <2>2, StepTyped DEF StopRequest
<1>8. CASE Stopping(p)
  <2>1. Moved(p)
    <3>1. "reset" \in Places \ {"begin", "create"} BY DEF Places
    <3> QED BY <1>8, <1>p, <3>1, GotoMoves DEF Stopping
  <2>2. BackendTypeOK'
    <3>1. at[p].snap.lease \in Act /\ NoAct \in Act BY <1>0, Fields, EmptyTyped DEF NoService
    <3>2. lease' \in Act \cup {Other} /\ receipts' \subseteq Act /\ grant' = grant /\ dirty' \in BOOLEAN
      BY <1>0, <1>8, <3>1 DEF Stopping, Release, BackendTypeOK, holdVars
    <3> QED BY <1>0, <1>8, <3>2 DEF Stopping, BackendTypeOK, workVars
  <2> QED BY <1>0, <1>8, <2>1, <2>2, StepTyped DEF Stopping
<1>9. CASE Reset(p)
  <2>1. Moved(p)
    <3> QED BY <1>9, <1>p, GotoMoves DEF Reset
  <2>2. sess' \in [Session -> SessionRecord] BY <1>0, <1>9 DEF Reset, SessionRecord
  <2>3. jobs' \in [Job -> JobRecord] BY <1>0, <1>9 DEF Reset, Interrupted, JobRecord
  <2> QED BY <1>0, <1>9, <2>1, <2>2, <2>3, EmptyTyped, StepTyped, BackendSame DEF Reset
<1>10. CASE Start(p)
  <2>1. Moved(p)
    <3>1. {"await", "exec", "failed"} \subseteq Places \ {"begin", "create"} BY DEF Places
    <3> QED BY <1>10, <3>1, GotoMoves DEF Start
  <2>2. auth' \in [act : Act, mode : Modes] BY <1>0, <1>10, GateTyped DEF Start, Close, Authority
  <2>3. unit' \in [st : {"gone", "pending", "up", "stopping"}, inv : 0..MaxStarts, act : Act, for : Act]
    BY <1>0, <1>10, Fields DEF Start, StartUnit, BackendTypeOK
  <2>4. BackendTypeOK' BY <1>0, <1>10, <2>2, <2>3 DEF Start, BackendTypeOK, workVars, holdVars
  <2> QED BY <1>0, <1>10, <2>1, <2>4, StepTyped DEF Start
<1>11. CASE ProbeFails(p)
  <2>1. Moved(p)
    <3>1. "failed" \in Places \ {"begin", "create"} BY DEF Places
    <3> QED BY <1>11, <3>1, GotoMoves DEF ProbeFails
  <2>2. faults' \in 0 .. MaxFaults BY <1>0, <1>11, ServiceAssumption DEF ProbeFails, Fault
  <2> QED BY <1>0, <1>11, <2>1, <2>2, StepTyped, BackendSame DEF ProbeFails
<1> QED BY <1>1, <1>2, <1>3, <1>4, <1>5, <1>6, <1>7, <1>8, <1>9, <1>10, <1>11 DEF Lifecycle

\* The fields of a job.
LEMMA JobFields ==
    ASSUME NEW r \in JobRecord
    PROVE  /\ \A x \in {"absent", "waiting", "starting", "dispatching", "running", "uncertain",
                        "completed", "failed", "cancelled", "interrupted"} : [r EXCEPT !.st = x] \in JobRecord
           /\ [r EXCEPT !.cleanup = FALSE] \in JobRecord /\ [r EXCEPT !.late = TRUE] \in JobRecord
           /\ [r EXCEPT !.cancel = TRUE, !.st = "cancelled"] \in JobRecord
           /\ r.st \in {"absent", "waiting", "starting", "dispatching", "running", "uncertain",
                        "completed", "failed", "cancelled", "interrupted"}
BY DEF JobRecord

\* Interrupting a job keeps it a job.
LEMMA InterruptedTyped ==
    ASSUME jobs \in [Job -> JobRecord], NEW j \in Job
    PROVE  Interrupted(j) \in JobRecord /\ [Interrupted(j) EXCEPT !.cleanup = TRUE] \in JobRecord
BY DEF JobRecord, Interrupted

\* The supervisor's round and the dedicated activation.
LEMMA RoundTyped ==
    ASSUME TypeOK, grants' = grants,
           Sweep \/ Tick \/ Quarantine \/ EndRound \/ BeginProbe \/ Create \/ Acquire \/ Persist
           \/ Ready \/ Idle \/ IdleSaved \/ Finish
    PROVE  TypeOK'
<1>0. /\ sup \in Control /\ sup.snap \in Service /\ svc \in Service /\ sup = at["sup"]
      /\ BackendTypeOK /\ jobs \in [Job -> JobRecord] /\ sess \in [Session -> SessionRecord]
      /\ oplock \in {"free", "sup", "rt"} /\ faults \in 0 .. MaxFaults
      /\ acts \in Act /\ grants \subseteq Act
  BY DEF TypeOK, Control, sup, Proc
<1>p. "sup" \in Proc BY DEF Proc
<1>1. CASE Sweep
  <2>1. Moved("sup")
    <3>1. "tick" \in Places \ {"begin", "create"} BY DEF Places
    <3> QED BY <1>p, <1>1, <3>1, GotoMoves DEF Sweep, SupGoto
  <2>2. jobs' \in [Job -> JobRecord]
    <3> DEFINE g(j) == IF ~Pending(j) \/ jobs[j].cleanup THEN jobs[j]
          ELSE [jobs[j] EXCEPT !.st = IF jobs[j].late THEN "failed"
                                      ELSE IF svc.mode = "managed" /\ svc.state = "starting" THEN "starting"
                                      ELSE @]
    <3>1. \A j \in Job : g(j) \in JobRecord BY <1>0 DEF JobRecord
    <3>2. jobs' = [j \in Job |-> g(j)] BY <1>1 DEF Sweep
    <3> HIDE DEF g
    <3> QED BY <3>1, <3>2
  <2> QED BY <1>0, <1>1, <1>p, <2>1, <2>2, StepTyped, BackendSame DEF Sweep
<1>2. CASE Tick
  <2>1. PICK v \in Verdicts : at' = [at EXCEPT !["sup"] =
          [Start0 EXCEPT !.pc = Route, !.res = v,
                         !.snap = CASE Route = "begin" ->
                                          [NoService EXCEPT !.mode = IF Wanted THEN "interactive" ELSE "managed"]
                                    [] Route \in {"exec", "failed", "observe"} -> NoService
                                    [] OTHER -> svc]]
    BY <1>2 DEF Tick
  <2>2. v \in {"none", "keep", "finish", "expired"} BY DEF Verdicts
  <2>3. Route \in Places /\ Route # "create" /\ (Route = "begin" => acts < MaxAct)
    <3>1. svc.state \in {"stopped", "waiting", "reserving", "starting", "ready", "restarting",
                         "draining", "stopping", "recovery"} BY <1>0 DEF Service
    <3> QED BY <3>1 DEF Route, Places
  <2> DEFINE s == CASE Route = "begin" -> [NoService EXCEPT !.mode = IF Wanted THEN "interactive" ELSE "managed"]
                    [] Route \in {"exec", "failed", "observe"} -> NoService
                    [] OTHER -> svc
             c == [Start0 EXCEPT !.pc = Route, !.res = v, !.snap = s]
  <2>4. s \in Service
    <3>1. [NoService EXCEPT !.mode = IF Wanted THEN "interactive" ELSE "managed"] \in Service
      BY EmptyTyped DEF Service, Modes
    <3> QED BY <1>0, <3>1, EmptyTyped
  <2> HIDE DEF s
  <2>5. c \in Control /\ c.pc = Route BY <2>2, <2>3, <2>4, EmptyTyped DEF Control
  <2>6. at' = [at EXCEPT !["sup"] = c] BY <2>1 DEF s
  <2> HIDE DEF c
  <2>7. at' \in [Proc -> Control] /\ at'["sup"].pc = Route BY <1>p, <2>5, <2>6 DEF TypeOK
  <2>8. BackendTypeOK' BY <1>0, <1>2, BackendSame DEF Tick
  <2>9. sup'.pc \in {"begin", "create"} => acts' <= MaxAct 
    <3>1. acts \in Int /\ MaxAct \in Nat BY <1>0, BackendAssumption DEF Act
    <3>2. acts' = acts BY <1>2 DEF Tick
    <3> QED BY <2>3, <2>7, <3>1, <3>2 DEF sup
  <2> QED BY <1>0, <1>2, <2>7, <2>8, <2>9 DEF Tick, TypeOK
<1>3. CASE Quarantine
  <2>1. Moved("sup")
    <3>1. "sweep" \in Places \ {"begin", "create"} BY DEF Places
    <3> QED BY <1>p, <1>3, <3>1, GotoMoves DEF Quarantine, SupGoto
  <2>2. jobs' \in [Job -> JobRecord]
    <3>1. \A j \in Job : (IF jobs[j].cleanup THEN [Interrupted(j) EXCEPT !.cleanup = TRUE] ELSE jobs[j]) \in JobRecord
      BY <1>0, InterruptedTyped
    <3> QED BY <1>3, <3>1 DEF Quarantine
  <2>3. BackendTypeOK' BY <1>0, <1>3, GateTyped, AuthTyped DEF Quarantine, Close, Authority
  <2>4. svc' \in Service BY <1>0, <1>3, Fields DEF Quarantine
  <2> QED BY <1>0, <1>3, <1>p, <2>1, <2>2, <2>3, <2>4, StepTyped DEF Quarantine, Unlocked
<1>4. CASE EndRound
  <2>1. Moved("sup")
    <3>1. "sweep" \in Places \ {"begin", "create"} BY DEF Places
    <3> QED BY <1>p, <1>4, <3>1, GotoMoves DEF EndRound, SupGoto
  <2> QED BY <1>0, <1>4, <1>p, <2>1, StepTyped, BackendSame DEF EndRound, Unlocked
<1>5. CASE BeginProbe
  <2>1. {"create", "exec", "failed"} \subseteq Places BY DEF Places
  <2>2. at' \in [Proc -> Control] BY <1>p, <1>5, <2>1, GotoSet DEF BeginProbe, Waits, SupGoto
  <2>3. svc' \in Service BY <1>0, <1>5, Fields DEF BeginProbe, Waits
  <2>4. acts' <= MaxAct BY <1>5 DEF BeginProbe, TypeOK
  <2>5. BackendTypeOK' BY <1>0, <1>5, BackendSame DEF BeginProbe
  <2> QED BY <1>0, <1>5, <2>2, <2>3, <2>4, <2>5 DEF BeginProbe, TypeOK
<1>6. CASE Create
  <2>1. acts' \in Act
    <3>1. acts <= MaxAct /\ acts' = acts + 1 BY <1>6 DEF Create, TypeOK
    <3> QED BY <1>0, <3>1, BackendAssumption DEF Act
  <2>2. svc' \in Service
    <3>1. PICK s \in Session \cup {NoSession} : svc' = [NoService EXCEPT !.state = "reserving", !.mode = sup.snap.mode, !.act = acts', !.session = s]
      BY <1>6 DEF Create
    <3>2. sup.snap.mode \in Modes BY <1>0, Fields
    <3> QED BY <2>1, <3>1, <3>2, EmptyTyped DEF Service, NoService
  <2>3. Moved("sup")
    <3>1. "acquire" \in Places \ {"begin", "create"} BY DEF Places
    <3> QED BY <1>p, <1>6, <2>2, <3>1, GotoWithMoves DEF Create
  <2>4. BackendTypeOK' BY <1>0, <1>6, BackendSame DEF Create
  <2> QED BY <1>0, <1>6, <2>1, <2>2, <2>3, <2>4 DEF Create, TypeOK, Moved, sup
<1>7. CASE Acquire
  <2>1. Moved("sup")
    <3>1. {"persist", "exec"} \subseteq Places \ {"begin", "create"} BY DEF Places
    <3> QED BY <1>p, <1>7, <3>1, GotoMoves DEF Acquire, Waits, SupGoto
  <2>2. svc' \in Service BY <1>0, <1>7, Fields DEF Acquire, Waits
  <2>3. sup.snap.act \in Act BY <1>0, Fields
  <2>4. BackendTypeOK' BY <1>0, <1>7, <2>3 DEF Acquire, BackendTypeOK, workVars
  <2> QED BY <1>0, <1>7, <1>p, <2>1, <2>2, <2>4, StepTyped DEF Acquire
<1>8. CASE Persist
  <2>1. Moved("sup")
    <3>1. "start" \in Places \ {"begin", "create"} BY DEF Places
    <3> QED BY <1>p, <1>8, <3>1, GotoMoves DEF Persist, SupGoto
  <2>2. svc' \in Service
    <3>1. sup.snap.act \in Act BY <1>0, Fields
    <3> QED BY <1>0, <1>8, <3>1 DEF Persist, Service
  <2> QED BY <1>0, <1>8, <1>p, <2>1, <2>2, StepTyped, BackendSame DEF Persist
<1>9. CASE Ready
  <2>1. Moved("sup")
    <3>1. {"finish", "idle"} \subseteq Places \ {"begin", "create"} BY DEF Places
    <3> QED BY <1>p, <1>9, <3>1, GotoMoves DEF Ready, SupGoto
  <2>2. BackendTypeOK' BY <1>0, <1>9, GateTyped, AuthTyped DEF Ready, Authorise, Authority
  <2> QED BY <1>0, <1>9, <1>p, <2>1, <2>2, StepTyped DEF Ready
<1>10. CASE Idle
  <2>1. Moved("sup")
    <3>1. "idled" \in Places \ {"begin", "create"} BY DEF Places
    <3> QED BY <1>p, <1>10, <3>1, GotoMoves DEF Idle, SupGoto
  <2>2. BackendTypeOK' BY <1>0, <1>10 DEF Idle, BackendTypeOK, workVars, holdVars
  <2> QED BY <1>0, <1>10, <1>p, <2>1, <2>2, StepTyped DEF Idle
<1>11. CASE IdleSaved
  <2>1. Moved("sup")
    <3>1. {"failed", "exec", "finish"} \subseteq Places \ {"begin", "create"} BY DEF Places
    <3> QED BY <1>p, <1>11, <3>1, GotoMoves DEF IdleSaved, SupGoto
  <2>2. svc' \in Service BY <1>0, <1>11, Fields DEF IdleSaved
  <2>3. sess' \in [Session -> SessionRecord]
    <3>1. \A s \in Session : [sess[s] EXCEPT !.rel = @ \/ s = sup.snap.session] \in SessionRecord
      BY <1>0 DEF SessionRecord
    <3>2. sess' = sess \/ sess' = [s \in Session |-> [sess[s] EXCEPT !.rel = @ \/ s = sup.snap.session]]
      BY <1>11 DEF IdleSaved
    <3> QED BY <1>0, <3>1, <3>2
  <2> QED BY <1>0, <1>11, <1>p, <2>1, <2>2, <2>3, StepTyped, BackendSame DEF IdleSaved
<1>12. CASE Finish
  <2>1. Moved("sup")
    <3>1. "exec" \in Places \ {"begin", "create"} BY DEF Places
    <3> QED BY <1>p, <1>12, <3>1, GotoMoves DEF Finish, SupGoto
  <2>2. svc' \in Service
    <3>1. svc' = svc \/ svc' = [svc EXCEPT !.state = "draining"] BY <1>12 DEF Finish
    <3> QED BY <1>0, <3>1, Fields
  <2> QED BY <1>0, <1>12, <1>p, <2>1, <2>2, StepTyped, BackendSame DEF Finish
<1> QED BY <1>1, <1>2, <1>3, <1>4, <1>5, <1>6, <1>7, <1>8, <1>9, <1>10, <1>11, <1>12

\* The phases of a restart.
LEMMA PhaseNames == {"stopping", "finishing", "pending", "starting"} \subseteq Phases
BY DEF Phases

\* A supervised restart.
LEMMA RestartTyped ==
    ASSUME TypeOK, grants' = grants,
           Restart \/ RestartDrain \/ RestartHalt \/ RestartObserve \/ RestartPending \/ RestartStart
           \/ RestartAwait \/ RestartTarget \/ RestartFinish \/ RestartOpen
    PROVE  TypeOK'
<1>0. /\ sup \in Control /\ sup.snap \in Service /\ svc \in Service /\ sup = at["sup"]
      /\ BackendTypeOK /\ jobs \in [Job -> JobRecord] /\ sess \in [Session -> SessionRecord]
      /\ oplock \in {"free", "sup", "rt"} /\ faults \in 0 .. MaxFaults
  BY DEF TypeOK, Control, sup, Proc
<1>p. "sup" \in Proc BY DEF Proc
<1>1. CASE Restart
  <2>0. RestartPcs[sup.snap.phase] \in {"rdrain", "robserve", "rpending", "rstarting", "failed"}
    <3>1. \A x \in {"none", "draining", "stopping", "finishing", "pending", "starting", "completed"} :
             RestartPcs[x] \in {"rdrain", "robserve", "rpending", "rstarting", "failed"}
      BY DEF RestartPcs
    <3> QED BY <1>0, <3>1, Fields DEF Phases
  <2>1. Moved("sup")
    <3>1. {"rdrain", "robserve", "rpending", "rstarting", "failed"} \subseteq Places \ {"begin", "create"} BY DEF Places
    <3> QED BY <1>0, <1>p, <1>1, <2>0, <3>1, GotoMoves DEF Restart, SupGoto
  <2>2. BackendTypeOK' BY <1>0, <1>1, GateTyped, AuthTyped DEF Restart, Close, Authority
  <2> QED BY <1>0, <1>1, <1>p, <2>1, <2>2, StepTyped DEF Restart
<1>2. CASE RestartDrain
  <2>1. Moved("sup")
    <3>1. {"rhalt", "exec"} \subseteq Places \ {"begin", "create"} BY DEF Places
    <3> QED BY <1>0, <1>p, <1>2, <3>1, GotoMoves DEF RestartDrain, SupGoto
  <2> QED BY <1>0, <1>2, <1>p, <2>1, StepTyped, BackendSame DEF RestartDrain
<1>3. CASE RestartHalt
  <2>1. Moved("sup")
    <3>1. {"stopreq", "failed"} \subseteq Places \ {"begin", "create"} BY DEF Places
    <3> QED BY <1>0, <1>p, <1>3, <3>1, GotoMoves DEF RestartHalt, Phase, SupGoto
  <2>2. svc' \in Service BY <1>0, <1>3, Fields, PhaseNames DEF RestartHalt, Phase
  <2> QED BY <1>0, <1>3, <1>p, <2>1, <2>2, StepTyped, BackendSame DEF RestartHalt
<1>4. CASE RestartObserve
  <2>1. Moved("sup")
    <3>1. {"failed", "stopping", "exec"} \subseteq Places \ {"begin", "create"} BY DEF Places
    <3> QED BY <1>0, <1>p, <1>4, <3>1, GotoMoves DEF RestartObserve, Phase, SupGoto
  <2>2. svc' \in Service BY <1>0, <1>4, Fields, PhaseNames DEF RestartObserve, Phase
  <2> QED BY <1>0, <1>4, <1>p, <2>1, <2>2, StepTyped, BackendSame DEF RestartObserve
<1>5. CASE RestartPending
  <2>1. Moved("sup")
    <3>1. {"stopping", "failed", "rstart"} \subseteq Places \ {"begin", "create"} BY DEF Places
    <3> QED BY <1>0, <1>p, <1>5, <3>1, GotoMoves DEF RestartPending, Phase, SupGoto
  <2>2. svc' \in Service BY <1>0, <1>5, Fields, PhaseNames DEF RestartPending, Phase
  <2> QED BY <1>0, <1>5, <1>p, <2>1, <2>2, StepTyped, BackendSame DEF RestartPending
<1>6. CASE RestartStart
  <2>1. Moved("sup")
    <3>1. {"exec", "failed"} \subseteq Places \ {"begin", "create"} BY DEF Places
    <3> QED BY <1>0, <1>p, <1>6, <3>1, GotoMoves DEF RestartStart, SupGoto
  <2>2. unit' \in [st : {"gone", "pending", "up", "stopping"}, inv : 0..MaxStarts, act : Act, for : Act]
    BY <1>0, <1>6, Fields DEF RestartStart, StartUnit, BackendTypeOK
  <2>3. BackendTypeOK' BY <1>0, <1>6, <2>2 DEF RestartStart, BackendTypeOK, workVars, holdVars
  <2> QED BY <1>0, <1>6, <1>p, <2>1, <2>3, StepTyped DEF RestartStart
<1>7. CASE RestartAwait
  <2>1. Moved("sup")
    <3>1. {"exec", "stopping", "rfinish"} \subseteq Places \ {"begin", "create"} BY DEF Places
    <3> QED BY <1>0, <1>p, <1>7, <3>1, GotoMoves DEF RestartAwait, SupGoto
  <2>2. BackendTypeOK' BY <1>0, <1>7 DEF RestartAwait, BackendTypeOK, workVars, holdVars
  <2> QED BY <1>0, <1>7, <1>p, <2>1, <2>2, StepTyped DEF RestartAwait
<1>8. CASE RestartTarget
  <2>0. unit.inv \in 0 .. MaxStarts BY <1>0 DEF BackendTypeOK
  <2>1. Moved("sup")
    <3>1. {"failed", "rstop", "exec", "ropen"} \subseteq Places \ {"begin", "create"} BY DEF Places
    <3>2. [sup.snap EXCEPT !.inv = unit.inv] \in Service BY <1>0, <2>0, Fields
    <3> QED BY <1>p, <1>8, <3>1, <3>2, GotoMoves, GotoWithMoves DEF RestartTarget, SupGoto
  <2>2. svc' \in Service BY <1>0, <1>8, <2>0, Fields DEF RestartTarget
  <2> QED BY <1>0, <1>8, <1>p, <2>1, <2>2, StepTyped, BackendSame DEF RestartTarget
<1>9. CASE RestartFinish
  <2>1. Moved("sup")
    <3>1. {"stopreq", "failed", "exec"} \subseteq Places \ {"begin", "create"} BY DEF Places
    <3> QED BY <1>0, <1>p, <1>9, <3>1, GotoMoves DEF RestartFinish, Phase, SupGoto
  <2>2. svc' \in Service BY <1>0, <1>9, Fields, PhaseNames DEF RestartFinish, Phase
  <2> QED BY <1>0, <1>9, <1>p, <2>1, <2>2, StepTyped, BackendSame DEF RestartFinish
<1>10. CASE RestartOpen
  <2>1. Moved("sup")
    <3>1. {"exec", "failed"} \subseteq Places \ {"begin", "create"} BY DEF Places
    <3> QED BY <1>0, <1>p, <1>10, <3>1, GotoMoves DEF RestartOpen, SupGoto
  <2>2. svc' \in Service
    <3>1. sup.snap.inv \in 0 .. MaxStarts BY <1>0, Fields
    <3>2. [svc EXCEPT !.inv = sup.snap.inv, !.phase = "completed", !.state = "ready"] \in Service
      BY <1>0, <3>1 DEF Service, Phases
    <3> QED BY <1>0, <1>10, <3>2 DEF RestartOpen
  <2>3. BackendTypeOK' BY <1>0, <1>10, GateTyped, AuthTyped DEF RestartOpen, Authorise, Authority
  <2> QED BY <1>0, <1>10, <1>p, <2>1, <2>2, <2>3, StepTyped DEF RestartOpen
<1> QED BY <1>1, <1>2, <1>3, <1>4, <1>5, <1>6, <1>7, <1>8, <1>9, <1>10

\* One job changes, to a job.
LEMMA SetJobTyped ==
    ASSUME jobs \in [Job -> JobRecord], NEW j \in Job, NEW r \in JobRecord, SetJob(j, r)
    PROVE  jobs' \in [Job -> JobRecord]
BY DEF SetJob

\* The job at hand.
AtJob ==
    sup.pc \in {"prepare", "submit", "post", "acked", "poll", "publish", "cancel", "cancelling", "cleaned"}
      => sup.job \in Job
AtResult == sup.pc = "publish" => sup.res \in {"completed", "failed", "interrupted"}

\* Jobs.
LEMMA JobsTyped ==
    ASSUME TypeOK, AtJob, AtResult, grants' = grants,
           Exec \/ Prepare \/ Submit \/ PostJob \/ Acked \/ Poll \/ Publish \/ Cancellation \/ CancelPosted \/ Cleaned
    PROVE  TypeOK'
<1>0. /\ sup \in Control /\ sup.snap \in Service /\ svc \in Service /\ sup = at["sup"]
      /\ BackendTypeOK /\ jobs \in [Job -> JobRecord] /\ sess \in [Session -> SessionRecord]
      /\ oplock \in {"free", "sup", "rt"} /\ faults \in 0 .. MaxFaults
  BY DEF TypeOK, Control, sup, Proc
<1>p. "sup" \in Proc BY DEF Proc
<1>t. at \in [Proc -> Control] BY DEF TypeOK
<1>w. \A x \in Places \ {"begin", "create"} : \A j \in Job : WithJob(x, j) => Moved("sup")
  <2> SUFFICES ASSUME NEW x \in Places \ {"begin", "create"}, NEW j \in Job, WithJob(x, j) PROVE Moved("sup")
    OBVIOUS
  <2>1. [at["sup"] EXCEPT !.pc = x, !.job = j] \in Control BY <1>0 DEF Control
  <2>2. at' = [at EXCEPT !["sup"] = [at["sup"] EXCEPT !.pc = x, !.job = j]] BY <1>t DEF WithJob
  <2>3. [at["sup"] EXCEPT !.pc = x, !.job = j].pc = x BY <1>0 DEF Control
  <2> QED BY <1>p, <1>t, <2>1, <2>2, <2>3 DEF Moved
<1>r. \A x \in Places \ {"begin", "create"} : \A r \in {"ok", "error", "completed", "failed", "interrupted"} :
         Result(x, r) => Moved("sup")
  <2> SUFFICES ASSUME NEW x \in Places \ {"begin", "create"}, NEW r \in {"ok", "error", "completed", "failed", "interrupted"},
                      Result(x, r)
               PROVE  Moved("sup")
    OBVIOUS
  <2>1. [at["sup"] EXCEPT !.pc = x, !.res = r] \in Control BY <1>0 DEF Control
  <2>2. at' = [at EXCEPT !["sup"] = [at["sup"] EXCEPT !.pc = x, !.res = r]] BY <1>t DEF Result
  <2>3. [at["sup"] EXCEPT !.pc = x, !.res = r].pc = x BY <1>0 DEF Control
  <2> QED BY <1>p, <1>t, <2>1, <2>2, <2>3 DEF Moved
<1>1. CASE Exec
  <2>1. Moved("sup")
    <3>1. {"end", "failed", "cancel", "poll", "prepare"} \subseteq Places \ {"begin", "create"} BY DEF Places
    <3> QED BY <1>0, <1>p, <1>1, <1>w, <3>1, GotoMoves DEF Exec, SupGoto
  <2> QED BY <1>0, <1>1, <1>p, <2>1, StepTyped, BackendSame DEF Exec
<1>2. CASE Prepare
  <2>1. Moved("sup")
    <3>1. {"end", "submit"} \subseteq Places \ {"begin", "create"} BY DEF Places
    <3> QED BY <1>0, <1>p, <1>2, <3>1, GotoMoves DEF Prepare, SupGoto
  <2>2. jobs' \in [Job -> JobRecord]
    <3>1. sup.job \in Job BY <1>2 DEF Prepare, AtJob
    <3>2. svc.act \in Act BY <1>0, Fields
    <3>3. [jobs[sup.job] EXCEPT !.st = "dispatching", !.cleanup = TRUE, !.act = svc.act] \in JobRecord
      <4>1. jobs[sup.job] \in JobRecord BY <1>0, <3>1
      <4> QED BY <3>2, <4>1 DEF JobRecord
    <3>4. [jobs[sup.job] EXCEPT !.st = "failed"] \in JobRecord BY <1>0, <3>1, JobFields
    <3> QED BY <1>0, <1>2, <3>1, <3>3, <3>4, SetJobTyped DEF Prepare
  <2> QED BY <1>0, <1>2, <1>p, <2>1, <2>2, StepTyped, BackendSame DEF Prepare
<1>3. CASE Submit
  <2>1. Moved("sup")
    <3>1. {"post"} \subseteq Places \ {"begin", "create"} BY DEF Places
    <3> QED BY <1>0, <1>p, <1>3, <3>1, GotoMoves DEF Submit, SupGoto
  <2> QED BY <1>0, <1>3, <1>p, <2>1, StepTyped, BackendSame DEF Submit
<1>4. CASE PostJob
  <2>1. Moved("sup")
    <3>1. {"acked"} \subseteq Places \ {"begin", "create"} BY DEF Places
    <3> QED BY <1>0, <1>p, <1>4, <1>r, <3>1 DEF PostJob
  <2>2. queue' \subseteq Job /\ posts' \in [Job -> Nat]
    BY <1>0, <1>4 DEF PostJob, Post, AtJob, BackendTypeOK
  <2>3. BackendTypeOK' BY <1>0, <1>4, <2>2 DEF PostJob, BackendTypeOK, holdVars
  <2> QED BY <1>0, <1>4, <1>p, <2>1, <2>3, StepTyped DEF PostJob
<1>5. CASE Acked
  <2>1. Moved("sup")
    <3>1. {"end"} \subseteq Places \ {"begin", "create"} BY DEF Places
    <3> QED BY <1>0, <1>p, <1>5, <3>1, GotoMoves DEF Acked, SupGoto
  <2>2. jobs' \in [Job -> JobRecord]
    <3>1. sup.job \in Job BY <1>5 DEF Acked, AtJob
    <3>2. [jobs[sup.job] EXCEPT !.st = IF jobs[sup.job].cancel THEN @ ELSE IF sup.res = "ok" THEN "running" ELSE "uncertain"] \in JobRecord
      BY <1>0, <3>1 DEF JobRecord
    <3> QED BY <1>0, <1>5, <3>1, <3>2, SetJobTyped DEF Acked
  <2> QED BY <1>0, <1>5, <1>p, <2>1, <2>2, StepTyped, BackendSame DEF Acked
<1>6. CASE Poll
  <2>1. Moved("sup")
    <3>1. {"end", "failed", "publish"} \subseteq Places \ {"begin", "create"} BY DEF Places
    <3> QED BY <1>0, <1>p, <1>6, <1>r, <3>1, GotoMoves DEF Poll, SupGoto, Collected
  <2> QED BY <1>0, <1>6, <1>p, <2>1, StepTyped, BackendSame DEF Poll
<1>7. CASE Publish
  <2>1. Moved("sup")
    <3>1. {"end"} \subseteq Places \ {"begin", "create"} BY DEF Places
    <3> QED BY <1>0, <1>p, <1>7, <3>1, GotoMoves DEF Publish, SupGoto
  <2>2. jobs' \in [Job -> JobRecord]
    <3>1. sup.job \in Job BY <1>7 DEF Publish, AtJob
    <3>2. sup.res \in {"completed", "failed", "interrupted"} BY <1>7 DEF Publish, AtResult
    <3>3. [jobs[sup.job] EXCEPT !.cleanup = FALSE, !.st = IF jobs[sup.job].cancel THEN @ ELSE sup.res] \in JobRecord
      <4>1. jobs[sup.job] \in JobRecord BY <1>0, <3>1
      <4> QED BY <3>2, <4>1 DEF JobRecord
    <3> QED BY <1>0, <1>7, <3>1, <3>3, SetJobTyped DEF Publish
  <2> QED BY <1>0, <1>7, <1>p, <2>1, <2>2, StepTyped, BackendSame DEF Publish
<1>8. CASE Cancellation
  <2>1. Moved("sup")
    <3>1. {"cancelling"} \subseteq Places \ {"begin", "create"} BY DEF Places
    <3> QED BY <1>0, <1>p, <1>8, <3>1, GotoMoves DEF Cancellation, SupGoto
  <2>2. jobs' \in [Job -> JobRecord]
    <3>1. sup.job \in Job BY <1>8 DEF Cancellation, AtJob
    <3>2. [jobs[sup.job] EXCEPT !.st = IF jobs[sup.job].cancel THEN @ ELSE "failed"] \in JobRecord
      BY <1>0, <3>1 DEF JobRecord
    <3> QED BY <1>0, <1>8, <3>1, <3>2, SetJobTyped DEF Cancellation
  <2> QED BY <1>0, <1>8, <1>p, <2>1, <2>2, StepTyped, BackendSame DEF Cancellation
<1>9. CASE CancelPosted
  <2>1. Moved("sup")
    <3>1. {"end", "cleaned", "failed"} \subseteq Places \ {"begin", "create"} BY DEF Places
    <3> QED BY <1>0, <1>p, <1>9, <3>1, GotoMoves DEF CancelPosted, SupGoto
  <2>2. BackendTypeOK' BY <1>0, <1>9 DEF CancelPosted, BackendTypeOK, holdVars
  <2> QED BY <1>0, <1>9, <1>p, <2>1, <2>2, StepTyped DEF CancelPosted
<1>10. CASE Cleaned
  <2>1. Moved("sup")
    <3>1. {"end"} \subseteq Places \ {"begin", "create"} BY DEF Places
    <3> QED BY <1>0, <1>p, <1>10, <3>1, GotoMoves DEF Cleaned, SupGoto
  <2>2. jobs' \in [Job -> JobRecord]
    <3>1. sup.job \in Job BY <1>10 DEF Cleaned, AtJob
    <3>2. [jobs[sup.job] EXCEPT !.cleanup = FALSE] \in JobRecord BY <1>0, <3>1, JobFields
    <3> QED BY <1>0, <1>10, <3>1, <3>2, SetJobTyped DEF Cleaned
  <2> QED BY <1>0, <1>10, <1>p, <2>1, <2>2, StepTyped, BackendSame DEF Cleaned
<1> QED BY <1>1, <1>2, <1>3, <1>4, <1>5, <1>6, <1>7, <1>8, <1>9, <1>10

\* The receiver restarts.
LEMMA RecoveryTyped ==
    ASSUME TypeOK, grants' = grants, Crash \/ RecoverStopped \/ RecoverActive \/ Recovered
    PROVE  TypeOK'
<1>0. /\ sup \in Control /\ sup.snap \in Service /\ svc \in Service /\ sup = at["sup"]
      /\ BackendTypeOK /\ jobs \in [Job -> JobRecord] /\ sess \in [Session -> SessionRecord]
      /\ oplock \in {"free", "sup", "rt"} /\ faults \in 0 .. MaxFaults
  BY DEF TypeOK, Control, sup, Proc
<1>p. "sup" \in Proc BY DEF Proc
<1>1. CASE Crash
  <2>1. Moved("sup")
    <3>1. {"recover"} \subseteq Places \ {"begin", "create"} BY DEF Places
    <3> QED BY <1>0, <1>p, <1>1, <3>1, GotoMoves DEF Crash, SupGoto
  <2>2. BackendTypeOK' BY <1>0, <1>1 DEF Crash, BackendTypeOK, holdVars
  <2>3. faults' \in 0 .. MaxFaults BY <1>0, <1>1, ServiceAssumption DEF Crash, Fault
  <2> QED BY <1>0, <1>1, <1>p, <2>1, <2>2, <2>3, StepTyped DEF Crash, Unlocked
<1>2. CASE RecoverStopped
  <2>1. Moved("sup")
    <3>1. {"sweep", "failed"} \subseteq Places \ {"begin", "create"} BY DEF Places
    <3> QED BY <1>0, <1>p, <1>2, <3>1, GotoMoves DEF RecoverStopped, SupGoto
  <2> QED BY <1>0, <1>2, <1>p, <2>1, StepTyped, BackendSame DEF RecoverStopped
<1>3. CASE RecoverActive
  <2>1. Moved("sup")
    <3>1. {"sweep", "failed", "recovered"} \subseteq Places \ {"begin", "create"} BY DEF Places
    <3> QED BY <1>0, <1>p, <1>3, <3>1, GotoMoves DEF RecoverActive, SupGoto
  <2>2. auth' \in [act : Act, mode : Modes] BY <1>0, <1>3, GateTyped DEF RecoverActive, Close, Authority
  <2>3. svc.lease \in Act /\ NoAct \in Act BY <1>0, Fields, EmptyTyped DEF NoService
  <2>4. lease' \in Act \cup {Other} /\ receipts' \subseteq Act /\ grant' = grant /\ dirty' \in BOOLEAN
    BY <1>0, <1>3, <2>3 DEF RecoverActive, Release, BackendTypeOK, holdVars
  <2>5. BackendTypeOK' BY <1>0, <1>3, <2>2, <2>4 DEF RecoverActive, BackendTypeOK, workVars
  <2> QED BY <1>0, <1>3, <1>p, <2>1, <2>5, StepTyped DEF RecoverActive
<1>4. CASE Recovered
  <2>1. Moved("sup")
    <3>1. {"sweep"} \subseteq Places \ {"begin", "create"} BY DEF Places
    <3> QED BY <1>0, <1>p, <1>4, <3>1, GotoMoves DEF Recovered, SupGoto
  <2>2. jobs' \in [Job -> JobRecord]
    <3>1. \A j \in Job : (IF jobs[j].cleanup THEN Interrupted(j) ELSE jobs[j]) \in JobRecord BY <1>0, InterruptedTyped
    <3> QED BY <1>4, <3>1 DEF Recovered
  <2>3. sess' \in [Session -> SessionRecord] BY <1>0, <1>4 DEF Recovered, SessionRecord
  <2> QED BY <1>0, <1>4, <1>p, <2>1, <2>2, <2>3, EmptyTyped, StepTyped, BackendSame DEF Recovered
<1> QED BY <1>1, <1>2, <1>3, <1>4

\* The HTTP interface, deadlines and the surroundings leave the processes alone.
LEMMA StillTyped ==
    ASSUME TypeOK, at' = at, BackendTypeOK',
           svc' \in Service, jobs' \in [Job -> JobRecord], sess' \in [Session -> SessionRecord],
           oplock' = oplock, acts' = acts, faults' \in 0 .. MaxFaults, grants' = grants
    PROVE  TypeOK'
BY DEF TypeOK, sup

\* Those steps.
LEMMA ServeTyped ==
    ASSUME TypeOK, grants' = grants, Serve \/ Deadline \/ Surroundings
    PROVE  TypeOK'
<1>0. /\ sup \in Control /\ sup.snap \in Service /\ svc \in Service /\ sup = at["sup"]
      /\ BackendTypeOK /\ jobs \in [Job -> JobRecord] /\ sess \in [Session -> SessionRecord]
      /\ oplock \in {"free", "sup", "rt"} /\ faults \in 0 .. MaxFaults
  BY DEF TypeOK, Control, sup, Proc
<1>p. "sup" \in Proc BY DEF Proc
<1>1. ASSUME NEW j \in Job, SubmitJob(j) PROVE TypeOK'
  <2>1. NoAct \in Act BY EmptyTyped DEF NoService, Service
  <2>2. [NoJob EXCEPT !.st = "waiting"] \in JobRecord /\ [NoJob EXCEPT !.st = "waiting", !.bind = svc.lease] \in JobRecord
    BY <1>0, <2>1, Fields DEF NoJob, JobRecord
  <2>3. jobs' \in [Job -> JobRecord] BY <1>0, <1>1, <2>2, SetJobTyped DEF SubmitJob
  <2> QED BY <1>0, <1>1, <1>p, <2>3, StillTyped, BackendSame DEF SubmitJob
<1>2. ASSUME NEW j \in Job, CancelJob(j) PROVE TypeOK'
  <2>1. jobs' \in [Job -> JobRecord] BY <1>0, <1>2, JobFields, SetJobTyped DEF CancelJob
  <2> QED BY <1>0, <1>2, <1>p, <2>1, StillTyped, BackendSame DEF CancelJob
<1>3. ASSUME NEW s \in Session, SubmitSession(s) PROVE TypeOK'
  <2>1. [NoOne EXCEPT !.st = "open"] \in SessionRecord BY EmptyTyped DEF NoOne, SessionRecord, NoService, Service
  <2>2. sess' \in [Session -> SessionRecord] BY <1>0, <1>3, <2>1 DEF SubmitSession
  <2> QED BY <1>0, <1>3, <1>p, <2>2, StillTyped, BackendSame DEF SubmitSession
<1>4. ASSUME NEW s \in Session, ReleaseSession(s) PROVE TypeOK'
  <2>1. [sess[s] EXCEPT !.rel = TRUE, !.stopped = sess[s].stopped \/ svc.session # s] \in SessionRecord
    BY <1>0 DEF SessionRecord
  <2>2. sess' = [sess EXCEPT ![s] = [sess[s] EXCEPT !.rel = TRUE, !.stopped = sess[s].stopped \/ svc.session # s]]
    BY <1>0, <1>4 DEF ReleaseSession, SessionRecord
  <2>3. sess' \in [Session -> SessionRecord] BY <1>0, <2>1, <2>2
  <2>4. svc' \in Service BY <1>0, <1>4, Fields DEF ReleaseSession
  <2> QED BY <1>0, <1>4, <1>p, <2>3, <2>4, StillTyped, BackendSame DEF ReleaseSession
<1>5. CASE RequestRestart
  <2>1. unit.inv \in 0 .. MaxStarts BY <1>0 DEF BackendTypeOK
  <2>2. 0 \in 0 .. MaxStarts BY BackendAssumption
  <2>3. [svc EXCEPT !.state = "restarting", !.phase = "draining", !.prev = unit.inv, !.target = 0] \in Service
    BY <1>0, <2>1, <2>2 DEF Service, Phases
  <2> QED BY <1>0, <1>5, <1>p, <2>3, StillTyped, BackendSame DEF RequestRestart
<1>6. CASE NativeSubmit \/ NativeForward \/ NativeArrives
  <2>1. BackendTypeOK' BY <1>0, <1>6 DEF NativeSubmit, NativeForward, NativeArrives, BackendTypeOK, holdVars
  <2> QED BY <1>0, <1>6, <1>p, <2>1, StillTyped DEF NativeSubmit, NativeForward, NativeArrives, serviceVars
<1>7. CASE Deadline
  <2>1. jobs' \in [Job -> JobRecord] /\ sess' \in [Session -> SessionRecord]
    <3>1. CASE \E j \in Job : jobs' = [jobs EXCEPT ![j].late = TRUE] /\ UNCHANGED sess
      BY <1>0, <3>1 DEF JobRecord
    <3>2. CASE \E s \in Session : sess' = [sess EXCEPT ![s].over = TRUE] /\ UNCHANGED jobs
      BY <1>0, <3>2 DEF SessionRecord
    <3> QED BY <1>7, <3>1, <3>2 DEF Deadline
  <2>2. faults' \in 0 .. MaxFaults BY <1>0, <1>7, ServiceAssumption DEF Deadline, Fault
  <2> QED BY <1>0, <1>7, <1>p, <2>1, <2>2, StillTyped, BackendSame DEF Deadline
<1>8. CASE UnitStarts /\ UNCHANGED serviceVars
  <2>1. starts' \in 0 .. MaxStarts BY <1>0, <1>8, BackendAssumption DEF UnitStarts, BackendTypeOK
  <2>2. auth.act \in Act BY <1>0 DEF BackendTypeOK
  <2>3. unit' \in [st : {"gone", "pending", "up", "stopping"}, inv : 0..MaxStarts, act : Act, for : Act]
    BY <1>0, <1>8, <2>1, <2>2 DEF UnitStarts, BackendTypeOK
  <2>4. BackendTypeOK' BY <1>0, <1>8, <2>1, <2>3 DEF UnitStarts, BackendTypeOK, workVars, holdVars
  <2> QED BY <1>0, <1>8, <1>p, <2>4, StillTyped DEF UnitStarts, serviceVars
<1>9. CASE UnitEnds /\ UNCHANGED serviceVars
  <2>1. NoUnit \in [st : {"gone", "pending", "up", "stopping"}, inv : 0..MaxStarts, act : Act, for : Act]
    BY EmptyTyped DEF NoUnit, NoService, Service
  <2>2. BackendTypeOK' BY <1>0, <1>9, <2>1 DEF UnitEnds, BackendTypeOK, holdVars
  <2> QED BY <1>0, <1>9, <1>p, <2>2, StillTyped DEF UnitEnds, serviceVars
<1>10. CASE AuthorityExpires /\ UNCHANGED serviceVars
  <2>1. auth' \in [act : Act, mode : Modes] BY <1>0, <1>10 DEF AuthorityExpires, BackendTypeOK, Modes
  <2> QED BY <1>0, <1>10, <1>p, <2>1, AuthTyped, StillTyped DEF AuthorityExpires, serviceVars
<1>11. CASE Render /\ UNCHANGED serviceVars
  <2>1. BackendTypeOK' BY <1>0, <1>11 DEF Render, BackendTypeOK, holdVars
  <2> QED BY <1>0, <1>11, <1>p, <2>1, StillTyped DEF Render, serviceVars
<1>12. CASE OtherHolds /\ UNCHANGED serviceVars
  <2>1. NoAct \in Act BY EmptyTyped DEF NoService, Service
  <2>2. BackendTypeOK' BY <1>0, <1>12, <2>1 DEF OtherHolds, BackendTypeOK, workVars
  <2> QED BY <1>0, <1>12, <1>p, <2>2, StillTyped DEF OtherHolds, serviceVars
<1> QED BY <1>1, <1>2, <1>3, <1>4, <1>5, <1>6, <1>7, <1>8, <1>9, <1>10, <1>11, <1>12 DEF Serve, Surroundings

\* The runtime moves.
Driven == at' \in [Proc -> Control] /\ at'["sup"] = at["sup"]

\* A step of the runtime keeps the types when its parts do.
LEMMA DrivenTyped ==
    ASSUME TypeOK, Driven, BackendTypeOK',
           svc' \in Service, jobs' \in [Job -> JobRecord], sess' \in [Session -> SessionRecord],
           oplock' \in {"free", "sup", "rt"}, acts' = acts, faults' \in 0 .. MaxFaults, grants' = grants
    PROVE  TypeOK'
BY DEF TypeOK, Driven, sup

\* What it may do of the backend's state: the grant, the claim, the authority.
Grants == [act : Act, mode : Modes,
           st : {"none", "preparing", "started", "ready", "releasing", "recovery"}, proc : BOOLEAN]
\* Such a step keeps the types of the backend.
LEMMA GrantTyped ==
    ASSUME BackendTypeOK, grant' \in Grants, lease' \in {lease, NoAct},
           auth' \in [act : Act, mode : Modes], idled' \in Act,
           UNCHANGED <<unit, starts, dirty, workVars, receipts>>
    PROVE  BackendTypeOK'
<1>1. lease' \in Act \cup {Other} BY EmptyTyped DEF BackendTypeOK, NoService, Service
<1> QED BY <1>1 DEF BackendTypeOK, Grants, workVars

\* The fields of a grant.
LEMMA GrantFields ==
    ASSUME BackendTypeOK
    PROVE  /\ grant \in Grants /\ NoGrant \in Grants /\ grant.act \in Act /\ grant.mode \in Modes
           /\ \A x \in {"preparing", "started", "ready", "releasing", "recovery"} :
                 [grant EXCEPT !.st = x] \in Grants /\ [grant EXCEPT !.st = x, !.proc = TRUE] \in Grants
           /\ [grant EXCEPT !.proc = TRUE] \in Grants /\ [grant EXCEPT !.st = @] \in Grants
           /\ grant.st \in {"none", "preparing", "started", "ready", "releasing", "recovery"}
<1>1. NoAct \in Act BY EmptyTyped DEF NoService, Service
<1> QED BY <1>1 DEF BackendTypeOK, NoGrant, Grants, Modes

\* Where it goes.
LEMMA RtGotoDriven ==
    ASSUME TypeOK, NEW x \in Places, RtGoto(x) PROVE Driven
BY GotoSet DEF Driven, RtGoto, Proc

\* A turn of its monitor is such a move.
LEMMA TurnDriven ==
    ASSUME TypeOK, NEW x \in Places, NEW r \in {"watch", "stop"}, Turn(x, r) PROVE Driven
<1> DEFINE c == [Start0 EXCEPT !.pc = x, !.snap = IF x \in {"failed", "observe"} THEN Start0.snap ELSE svc, !.res = r]
<1>1. c \in Control BY EmptyTyped DEF Control, TypeOK
<1>2. at' = [at EXCEPT !["rt"] = c] BY DEF Turn
<1> HIDE DEF c
<1> QED BY <1>1, <1>2 DEF TypeOK, Driven, Proc

\* The reservations of the runtime.
LEMMA BridgeTyped ==
    ASSUME TypeOK, Bridge PROVE TypeOK'
<1>0. /\ at \in [Proc -> Control] /\ rt \in Control /\ rt.snap \in Service /\ svc \in Service /\ rt = at["rt"]
      /\ BackendTypeOK /\ jobs \in [Job -> JobRecord] /\ sess \in [Session -> SessionRecord]
      /\ oplock \in {"free", "sup", "rt"} /\ faults \in 0 .. MaxFaults /\ acts \in Act /\ grants \subseteq Act
      /\ auth \in [act : Act, mode : Modes] /\ idled \in Act
  BY DEF TypeOK, Control, rt, Proc, BackendTypeOK
<1>g. /\ grant \in Grants /\ NoGrant \in Grants /\ grant.act \in Act /\ grant.mode \in Modes
      /\ grant.st \in {"none", "preparing", "started", "ready", "releasing", "recovery"}
  BY <1>0, GrantFields
<1>n. NoAct \in Act BY EmptyTyped DEF NoService, Service
<1>1. ASSUME NEW m \in {"interactive", "managed"}, Grant(m) PROVE TypeOK'
  <2>1. at' \in [Proc -> Control] /\ at'["sup"] = at["sup"]
    <3>1. "begin" \in Places BY DEF Places
    <3> QED BY <1>1, <3>1, RtGotoDriven DEF Grant, Driven
  <2>2. acts' \in Act /\ acts' <= MaxAct
    <3>1. acts < MaxAct /\ acts' = acts + 1 BY <1>1 DEF Grant
    <3> QED BY <1>0, <3>1, BackendAssumption DEF Act
  <2>3. grant' \in Grants
    <3>1. grant' = [NoGrant EXCEPT !.act = acts', !.mode = m, !.st = "preparing"] BY <1>1 DEF Grant
    <3> QED BY <1>g, <2>2, <3>1 DEF Grants, Modes
  <2>4. BackendTypeOK' BY <1>0, <1>1, <2>2, <2>3 DEF Grant, BackendTypeOK, workVars, Grants
  <2>5. grants' \subseteq Act BY <1>0, <1>1, <2>2 DEF Grant
  <2> QED BY <1>0, <1>1, <2>1, <2>2, <2>4, <2>5 DEF Grant, TypeOK, sup
<1>2. CASE EffectStarts
  <2>1. Driven
    <3>1. {"shared", "sleep"} \subseteq Places BY DEF Places
    <3> QED BY <1>2, <3>1, RtGotoDriven DEF EffectStarts
  <2>2. grant' \in Grants BY <1>0, <1>g, <1>2, GrantFields DEF EffectStarts
  <2>3. BackendTypeOK' BY <1>0, <1>2, <2>2, GrantTyped DEF EffectStarts
  <2> QED BY <1>0, <1>2, <2>1, <2>3, DrivenTyped DEF EffectStarts
<1>3. CASE SharedBegin
  <2>1. Driven
    <3>1. "start" \in Places BY DEF Places
    <3> QED BY <1>3, <3>1, RtGotoDriven DEF SharedBegin
  <2>2. PICK s \in Session \cup {NoSession} :
          /\ svc' = [NoService EXCEPT !.state = "starting", !.mode = grant.mode, !.act = grant.act,
                                      !.lease = grant.act, !.session = s]
          /\ sess' = [t \in Session |-> IF t = s THEN [NoOne EXCEPT !.st = "open", !.of = grant.act] ELSE sess[t]]
    BY <1>3 DEF SharedBegin
  <2>3. svc' \in Service BY <1>g, <2>2, EmptyTyped DEF Service
  <2>4. [NoOne EXCEPT !.st = "open", !.of = grant.act] \in SessionRecord BY <1>g, <1>n DEF NoOne, SessionRecord
  <2>5. sess' \in [Session -> SessionRecord] BY <1>0, <2>2, <2>4
  <2> QED BY <1>0, <1>3, <2>1, <2>3, <2>5, DrivenTyped, BackendSame DEF SharedBegin
<1>4. CASE SharedRefused
  <2>1. Driven
    <3>1. {"failed"} \subseteq Places BY DEF Places
    <3> QED BY <1>4, <3>1, RtGotoDriven DEF SharedRefused
  <2> QED BY <1>0, <1>4, <2>1, DrivenTyped, BackendSame DEF SharedRefused
<1>5. CASE Started
  <2>1. Driven
    <3>1. {"again", "failed"} \subseteq Places BY DEF Places
    <3> QED BY <1>5, <3>1, RtGotoDriven DEF Started
  <2>2. grant' \in Grants
    <3>1. [grant EXCEPT !.st = IF @ = "preparing" THEN "started" ELSE @, !.proc = TRUE] \in Grants BY <1>g DEF Grants
    <3> QED BY <1>g, <1>5, <3>1 DEF Started
  <2>3. BackendTypeOK' BY <1>0, <1>5, <2>2, GrantTyped DEF Started
  <2> QED BY <1>0, <1>5, <2>1, <2>3, DrivenTyped DEF Started
<1>6. CASE Monitor
  <2>1. Driven
    <3>1. {"failed", "observe", "check"} \subseteq Places BY DEF Places
    <3> QED BY <1>6, <3>1, TurnDriven DEF Monitor
  <2> QED BY <1>0, <1>6, <2>1, DrivenTyped, BackendSame DEF Monitor
<1>7. CASE ReadyCommit
  <2>1. Driven
    <3>1. {"again", "failed"} \subseteq Places BY DEF Places
    <3> QED BY <1>7, <3>1, RtGotoDriven DEF ReadyCommit
  <2>2. grant' \in Grants
    <3>1. [grant EXCEPT !.st = IF @ = "started" THEN "ready" ELSE @] \in Grants BY <1>g DEF Grants
    <3> QED BY <1>g, <1>7, <3>1 DEF ReadyCommit
  <2>3. auth' \in [act : Act, mode : Modes] BY <1>0, <1>7, GateTyped DEF ReadyCommit, Authorise, Authority
  <2>4. BackendTypeOK' BY <1>0, <1>7, <2>2, <2>3, GrantTyped DEF ReadyCommit
  <2> QED BY <1>0, <1>7, <2>1, <2>4, DrivenTyped DEF ReadyCommit
<1>8. CASE RestartSeen
  <2>1. Driven
    <3>1. {"again"} \subseteq Places BY DEF Places
    <3> QED BY <1>8, <3>1, RtGotoDriven DEF RestartSeen
  <2>2. grant' \in Grants BY <1>0, <1>g, <1>8, GrantFields DEF RestartSeen
  <2>3. BackendTypeOK' BY <1>0, <1>8, <2>2, GrantTyped DEF RestartSeen
  <2> QED BY <1>0, <1>8, <2>1, <2>3, DrivenTyped DEF RestartSeen
<1>9. CASE ReleaseGrant
  <2>1. grant' \in Grants BY <1>g, <1>0, <1>9, GrantFields DEF ReleaseGrant
  <2>2. idled' \in Act BY <1>0, <1>g, <1>9 DEF ReleaseGrant
  <2>3. BackendTypeOK' BY <1>0, <1>9, <2>1, <2>2, GrantTyped DEF ReleaseGrant
  <2> QED BY <1>0, <1>9, <2>3, StillTyped DEF ReleaseGrant, serviceVars
<1>10. CASE Stop
  <2>1. Driven
    <3>1. {"sleep", "failed", "stopping", "drain"} \subseteq Places BY DEF Places
    <3> QED BY <1>10, <3>1, RtGotoDriven, TurnDriven DEF Stop
  <2>2. grant' \in Grants BY <1>g, <1>10 DEF Stop
  <2>3. BackendTypeOK' BY <1>0, <1>10, <2>2, GrantTyped DEF Stop
  <2> QED BY <1>0, <1>10, <2>1, <2>3, DrivenTyped DEF Stop
<1>11. CASE GiveUp
  <2>1. Driven
    <3>1. {"again"} \subseteq Places BY DEF Places
    <3> QED BY <1>11, <3>1, RtGotoDriven DEF GiveUp
  <2>2. grant' \in Grants BY <1>0, <1>g, <1>11, GrantFields DEF GiveUp
  <2>3. BackendTypeOK' BY <1>0, <1>11, <2>2, GrantTyped DEF GiveUp
  <2> QED BY <1>0, <1>11, <2>1, <2>3, DrivenTyped DEF GiveUp
<1>12. CASE RetireStopped
  <2>1. Driven
    <3>1. {"sleep", "stopping"} \subseteq Places BY DEF Places
    <3> QED BY <1>12, <3>1, RtGotoDriven, TurnDriven DEF RetireStopped
  <2>2. grant' \in Grants BY <1>g, <1>12 DEF RetireStopped
  <2>3. BackendTypeOK' BY <1>0, <1>12, <2>2, GrantTyped DEF RetireStopped
  <2> QED BY <1>0, <1>12, <2>1, <2>3, DrivenTyped DEF RetireStopped
<1>13. CASE ReconcileAbsent
  <2>1. Driven
    <3>1. {"sleep"} \subseteq Places BY DEF Places
    <3> QED BY <1>13, <3>1, RtGotoDriven DEF ReconcileAbsent
  <2>2. grant' \in Grants BY <1>0, <1>g, <1>13, GrantFields DEF ReconcileAbsent
  <2>3. BackendTypeOK' BY <1>0, <1>13, <2>2, GrantTyped DEF ReconcileAbsent
  <2> QED BY <1>0, <1>13, <2>1, <2>3, DrivenTyped DEF ReconcileAbsent
<1>14. CASE Advance
  <2>1. Driven
    <3>1. {"stopreq", "again"} \subseteq Places BY DEF Places
    <3> QED BY <1>14, <3>1, RtGotoDriven, TurnDriven DEF Advance
  <2>2. grant' \in Grants BY <1>0, <1>14, GrantFields DEF Advance
  <2>3. auth' \in [act : Act, mode : Modes] BY <1>0, <1>14, GateTyped DEF Advance, Close, Authority
  <2>4. BackendTypeOK' BY <1>0, <1>14, <2>2, <2>3, GrantTyped DEF Advance
  <2>5. svc' \in Service BY <1>0, <1>14, Fields DEF Advance
  <2> QED BY <1>0, <1>14, <2>1, <2>4, <2>5, DrivenTyped DEF Advance
<1>15. CASE RtUnlock
  <2> QED BY <1>0, <1>15, DrivenTyped, BackendSame DEF RtUnlock, Driven
<1>16. CASE Cleanup
  <2>i. unit.inv \in 0 .. MaxStarts BY <1>0 DEF BackendTypeOK
  <2>1. Driven
    <3> DEFINE c == [at["rt"] EXCEPT !.pc = "cstop", !.snap = [svc EXCEPT !.inv = unit.inv]]
    <3>1. "cstop" \in Places BY DEF Places
    <3>2. [svc EXCEPT !.inv = unit.inv] \in Service BY <1>0, <2>i, Fields
    <3>3. c \in Control BY <1>0, <3>1, <3>2 DEF Control
    <3>4. at' = [at EXCEPT !["rt"] = c] BY <1>0, <1>16 DEF Cleanup, Proc
    <3> HIDE DEF c
    <3> QED BY <1>0, <3>3, <3>4 DEF Driven, Proc
  <2>2. svc' \in Service
    <3>1. [svc EXCEPT !.mode = "closed", !.state = "recovery", !.phase = "none"] \in Service
      BY <1>0 DEF Service, Modes, Phases
    <3> QED BY <1>16, <3>1 DEF Cleanup
  <2>3. auth' \in [act : Act, mode : Modes] BY <1>0, <1>16, GateTyped DEF Cleanup, Close, Authority
  <2>4. BackendTypeOK' BY <1>0, <1>g, <1>16, <2>3, GrantTyped DEF Cleanup, holdVars
  <2>5. sess' \in [Session -> SessionRecord]
    <3>1. \A s \in Session : [sess[s] EXCEPT !.rel = sess[s].rel \/ (sess[s].st = "open" /\ ~sess[s].stopped)] \in SessionRecord
      BY <1>0 DEF SessionRecord
    <3>2. sess' = [s \in Session |-> [sess[s] EXCEPT !.rel = sess[s].rel \/ (sess[s].st = "open" /\ ~sess[s].stopped)]]
      BY <1>16 DEF Cleanup
    <3> QED BY <3>1, <3>2
  <2> QED BY <1>0, <1>16, <2>1, <2>2, <2>4, <2>5, DrivenTyped DEF Cleanup
<1>17. CASE CleanupStop
  <2>1. Driven
    <3>1. {"again", "cwait"} \subseteq Places BY DEF Places
    <3> QED BY <1>17, <3>1, RtGotoDriven DEF CleanupStop
  <2>2. BackendTypeOK' BY <1>0, <1>17 DEF CleanupStop, StopUnit, BackendTypeOK, workVars, holdVars
  <2> QED BY <1>0, <1>17, <2>1, <2>2, DrivenTyped DEF CleanupStop
<1>18. CASE CleanupPurge
  <2>1. Driven
    <3>1. {"again", "cdone"} \subseteq Places BY DEF Places
    <3> QED BY <1>18, <3>1, RtGotoDriven DEF CleanupPurge
  <2>2. BackendTypeOK' BY <1>0, <1>18 DEF CleanupPurge, BackendTypeOK, workVars, holdVars
  <2> QED BY <1>0, <1>18, <2>1, <2>2, DrivenTyped DEF CleanupPurge
<1>19. CASE CleanupDone
  <2>1. Driven
    <3>1. {"again", "cfree"} \subseteq Places BY DEF Places
    <3> QED BY <1>19, <3>1, RtGotoDriven DEF CleanupDone
  <2>2. svc' \in Service BY <1>0, <1>19, EmptyTyped DEF CleanupDone
  <2>3. sess' \in [Session -> SessionRecord]
    <3> DEFINE g(s) == [sess[s] EXCEPT !.stopped = sess[s].stopped \/ sess[s].st = "open",
                                      !.rel = sess[s].rel \/ (sess[s].st = "open" /\ ~sess[s].stopped)]
    <3>1. \A s \in Session : g(s) \in SessionRecord BY <1>0 DEF SessionRecord
    <3>2. sess' = sess \/ sess' = [s \in Session |-> g(s)] BY <1>19 DEF CleanupDone
    <3> HIDE DEF g
    <3> QED BY <1>0, <3>1, <3>2
  <2>4. jobs' \in [Job -> JobRecord]
    <3> DEFINE h(j) == IF ~(Pending(j) \/ jobs[j].cleanup) THEN jobs[j]
                       ELSE IF jobs[j].act = NoAct THEN [jobs[j] EXCEPT !.st = "cancelled"] ELSE Interrupted(j)
    <3>1. \A j \in Job : h(j) \in JobRecord BY <1>0, JobFields, InterruptedTyped
    <3>2. jobs' = jobs \/ jobs' = [j \in Job |-> h(j)] BY <1>19 DEF CleanupDone
    <3> HIDE DEF h
    <3> QED BY <1>0, <3>1, <3>2
  <2> QED BY <1>0, <1>19, <2>1, <2>2, <2>3, <2>4, DrivenTyped, BackendSame DEF CleanupDone
<1>20. CASE Reconciled
  <2>1. Driven
    <3>1. "sleep" \in Places BY DEF Places
    <3> QED BY <1>20, <3>1, RtGotoDriven DEF Reconciled
  <2>2. BackendTypeOK' BY <1>0, <1>g, <1>20, GrantTyped DEF Reconciled
  <2> QED BY <1>0, <1>20, <2>1, <2>2, DrivenTyped DEF Reconciled
<1>21. CASE RtCrash
  <2>1. Driven
    <3>1. {"begin", "again"} \subseteq Places BY DEF Places
    <3> QED BY <1>21, <3>1, RtGotoDriven DEF RtCrash
  <2>2. grant' \in Grants
    <3>1. [grant EXCEPT !.st = IF rt.pc # "begin" /\ ~grant.proc THEN "recovery" ELSE @] \in Grants BY <1>g DEF Grants
    <3> QED BY <1>21, <3>1 DEF RtCrash
  <2>3. BackendTypeOK' BY <1>0, <1>21, <2>2, GrantTyped DEF RtCrash
  <2>4. faults' \in 0 .. MaxFaults BY <1>0, <1>21, ServiceAssumption DEF RtCrash, Fault
  <2> QED BY <1>0, <1>21, <2>1, <2>3, <2>4, DrivenTyped DEF RtCrash
<1>22. CASE Lifecycle("rt") /\ UNCHANGED grants
  <2> QED BY <1>22, LifecycleTyped DEF Proc
<1> QED BY <1>1, <1>2, <1>3, <1>4, <1>5, <1>6, <1>7, <1>8, <1>9, <1>10, <1>11, <1>12, <1>13, <1>14, <1>15, <1>16, <1>17, <1>18, <1>19, <1>20, <1>21, <1>22 DEF Bridge

-----------------------------------------------------------------------------
(* Whose lease it is.                                                        *)

\* The runtime sleeps while nothing is granted, and holds the claim otherwise.
Asleep ==
    /\ grants \subseteq 1 .. acts
    /\ rt.pc = "sleep" <=> grant.st = "none"
    /\ grant.st # "none" => lease = grant.act /\ grant.act \in grants

\* A lease of the media service itself; nothing of its own runs.
Mine(a) == a \notin grants \cup {NoAct, Other}
Foreign == Gone \/ unit.for \in grants

\* From the look at a restart to the start of its unit.
Chain == {"rdrain", "rhalt", "robserve", "rpending", "rstart", "rstarting"}

\* A record names activations that were issued, and a granted lease with its
\* own activation.
Known(s) ==
    /\ s.lease \in 0 .. acts /\ s.act \in 0 .. acts
    /\ s.lease \in grants => s.act \in grants

\* The unit of the media service runs under its lease. Before it starts, and
\* after it is gone, the steps rely on what they saw.
OwnInv ==
    /\ ~Foreign => lease = svc.lease /\ Mine(lease)
    /\ sup.pc \in {"create", "acquire", "persist", "start", "reset", "recovered"} => Foreign
    /\ sup.pc \in {"acquire", "persist"} => Mine(sup.snap.act)
    /\ sup.pc = "persist" => lease = sup.snap.act
    /\ sup.pc = "start" => svc.lease = lease /\ Mine(lease)
    /\ Known(svc) /\ Known(sup.snap)
    /\ sup.pc \in {"restarting"} \cup Chain => (lease = sup.snap.lease /\ Mine(lease) => svc.lease = lease)
    /\ sup.pc \in Chain /\ sup.snap.act \notin grants => lease = sup.snap.lease /\ Mine(lease)

\* A step of the service that leaves the lease alone.
Frame ==
    /\ lease' = lease /\ grants' = grants /\ acts' = acts /\ grant' = grant
    /\ svc'.lease = svc.lease /\ svc'.act = svc.act
    /\ Foreign => Foreign'
    /\ at'["rt"] = at["rt"]

\* The supervisor goes on: it relies on nothing, or on what it relied on.
Special == {"create", "acquire", "persist", "start", "reset", "recovered", "restarting"} \cup Chain
Copy(s) == at'["sup"].snap.lease = s.lease /\ at'["sup"].snap.act = s.act
Walks == at'["sup"].pc \notin Special /\ (Copy(sup.snap) \/ Copy(NoService) \/ Copy(svc))
Chained == sup.pc \in Chain /\ at'["sup"].pc \in Chain /\ at'["sup"].snap = sup.snap

\* The empty record names nothing.
LEMMA EmptyKnown == ASSUME Asleep, acts \in Act PROVE Known(NoService)
<1>1. acts \in Nat BY BackendAssumption DEF Act
<1> QED BY <1>1 DEF Asleep, Known, NoService, NoAct

\* Then whose lease it is stays as it was.
LEMMA FrameOwn ==
    ASSUME TypeOK, Asleep, OwnInv, Frame, at'["sup"] = at["sup"] \/ Walks \/ Chained
    PROVE  Asleep' /\ OwnInv'
<1>1. Asleep' BY DEF Asleep, Frame, rt
<1>2. Known(svc)' BY DEF OwnInv, Known, Frame
<1>3. Known(sup.snap)'
  <2>1. Known(NoService) BY EmptyKnown DEF TypeOK
  <2> QED BY <2>1 DEF OwnInv, Known, Frame, Walks, Copy, Chained, sup
<1>4. (~Foreign => lease = svc.lease /\ Mine(lease))' BY DEF OwnInv, Frame, Mine
<1>5. CASE at'["sup"] = at["sup"]
  BY <1>1, <1>2, <1>3, <1>4, <1>5 DEF OwnInv, Frame, Mine, sup
<1>6. CASE Walks
  BY <1>1, <1>2, <1>3, <1>4, <1>6 DEF OwnInv, Walks, Special, sup
<1>7. CASE Chained
  <2>1. at'["sup"].pc \notin {"create", "acquire", "persist", "start", "reset", "recovered"} BY <1>7 DEF Chained, Chain
  <2> QED BY <1>1, <1>2, <1>3, <1>4, <1>7, <2>1 DEF OwnInv, Frame, Mine, Chained, sup
<1> QED BY <1>1, <1>5, <1>6, <1>7

\* Where the supervisor goes.
LEMMA SupWalks ==
    ASSUME TypeOK, NEW x \in Places \ Special, SupGoto(x) PROVE Walks /\ at'["rt"] = at["rt"]
<1>1. at'["sup"].pc = x /\ at'["rt"] = at["rt"] BY GotoSet DEF SupGoto, Proc
<1>2. at'["sup"].snap \in {sup.snap, NoService} BY GotoSet DEF SupGoto, Proc, sup
<1> QED BY <1>1, <1>2 DEF Walks, Copy

\* The same with a copy of one of the two records.
LEMMA SupWalksWith ==
    ASSUME TypeOK, NEW x \in Places \ Special, NEW s \in Service, GotoWith("sup", x, s),
           \/ s.lease = svc.lease /\ s.act = svc.act
           \/ s.lease = sup.snap.lease /\ s.act = sup.snap.act
    PROVE  Walks /\ at'["rt"] = at["rt"]
<1>1. at'["sup"].pc = x /\ at'["rt"] = at["rt"] /\ at'["sup"].snap = s BY GotoWithSet DEF Proc
<1> QED BY <1>1 DEF Walks, Copy

\* What is proved together.
JobPlaces == {"prepare", "submit", "post", "acked", "poll", "publish", "cancel", "cancelling", "cleaned"}
Plain == Places \ (Special \cup JobPlaces)
Rest == AtJob /\ AtResult /\ Asleep /\ OwnInv

\* At a place without a job nothing is claimed of one.
LEMMA NoJobRest ==
    ASSUME at'["sup"].pc \notin JobPlaces, Asleep', OwnInv' PROVE Rest' /\ at'["sup"].pc \notin JobPlaces
BY DEF Rest, AtJob, AtResult, JobPlaces, sup

\* A walk to such a place, with the lease left alone.
LEMMA FrameRest ==
    ASSUME TypeOK, Rest, Frame, Walks, at'["sup"].pc \notin JobPlaces PROVE Rest' /\ at'["sup"].pc \notin JobPlaces
BY FrameOwn, NoJobRest DEF Rest

\* Going to a plain place is such a walk.
LEMMA PlainWalks ==
    ASSUME TypeOK, NEW x \in Plain, SupGoto(x)
    PROVE  Walks /\ at'["rt"] = at["rt"] /\ at'["sup"].pc \notin JobPlaces
<1>1. at'["sup"].pc = x BY GotoSet DEF SupGoto, Proc, Plain
<1> QED BY <1>1, SupWalks DEF Plain

\* A walk with a copy.
LEMMA PlainWalksWith ==
    ASSUME TypeOK, NEW x \in Plain, NEW s \in Service, GotoWith("sup", x, s),
           \/ s.lease = svc.lease /\ s.act = svc.act
           \/ s.lease = sup.snap.lease /\ s.act = sup.snap.act
    PROVE  Walks /\ at'["rt"] = at["rt"] /\ at'["sup"].pc \notin JobPlaces
<1>1. at'["sup"].pc = x BY GotoWithSet DEF Proc, Plain
<1> QED BY <1>1, SupWalksWith DEF Plain

\* Steps of the supervisor that leave the lease alone.
LEMMA PlainStep ==
    ASSUME TypeOK, Rest, grants' = grants,
           \/ Observe("sup") \/ Adopt("sup") \/ StartupVerify("sup") \/ OpenGate("sup") \/ Drain("sup")
           \/ Halt("sup") \/ StopRequest("sup") \/ ProbeFails("sup")
           \/ Sweep \/ Quarantine \/ EndRound \/ Ready \/ Idle \/ IdleSaved \/ Finish
           \/ RestartHalt \/ RestartObserve \/ RestartAwait \/ RestartTarget \/ RestartFinish \/ RestartOpen
           \/ Crash \/ RecoverStopped
    PROVE  Rest' /\ at'["sup"].pc \notin JobPlaces
<1>0. svc \in Service /\ sup = at["sup"] /\ sup.snap \in Service /\ BackendTypeOK
  BY DEF TypeOK, Control, sup, Proc
<1>1. CASE Observe("sup")
  <2>1. {"adopt"} \subseteq Plain BY DEF Plain, Places, Special, Chain, JobPlaces
  <2>2. Walks /\ at'["rt"] = at["rt"] /\ at'["sup"].pc \notin JobPlaces
    BY <1>0, <1>1, <2>1, PlainWalks, PlainWalksWith DEF Observe, SupGoto
  <2>3. Frame BY <1>0, <1>1, <2>2 DEF Observe, Frame, Foreign, Gone, holdVars
  <2> QED BY <2>2, <2>3, FrameRest
<1>2. CASE Adopt("sup")
  <2>1. {"verify", "failed"} \subseteq Plain BY DEF Plain, Places, Special, Chain, JobPlaces
  <2>2. Walks /\ at'["rt"] = at["rt"] /\ at'["sup"].pc \notin JobPlaces
    BY <1>0, <1>2, <2>1, PlainWalks DEF Adopt, SupGoto
  <2>3. Frame BY <1>0, <1>2, <2>2 DEF Adopt, Frame, Foreign, Gone, holdVars, backendVars, Service
  <2> QED BY <2>2, <2>3, FrameRest
<1>3. CASE StartupVerify("sup")
  <2>1. {"exec", "open", "stopreq"} \subseteq Plain BY DEF Plain, Places, Special, Chain, JobPlaces
  <2>2. Walks /\ at'["rt"] = at["rt"] /\ at'["sup"].pc \notin JobPlaces
    BY <1>0, <1>3, <2>1, PlainWalks, PlainWalksWith DEF StartupVerify, SupGoto, After
  <2>3. Frame BY <1>0, <1>3, <2>2 DEF StartupVerify, Frame, Foreign, Gone, holdVars, backendVars, Service
  <2> QED BY <2>2, <2>3, FrameRest
<1>4. CASE OpenGate("sup")
  <2>1. {"exec", "failed"} \subseteq Plain BY DEF Plain, Places, Special, Chain, JobPlaces
  <2>2. Walks /\ at'["rt"] = at["rt"] /\ at'["sup"].pc \notin JobPlaces
    BY <1>0, <1>4, <2>1, PlainWalks DEF OpenGate, SupGoto, After
  <2>3. Frame BY <1>0, <1>4, <2>2 DEF OpenGate, Frame, Foreign, Gone, holdVars, Service
  <2> QED BY <2>2, <2>3, FrameRest
<1>5. CASE Drain("sup")
  <2>1. {"halt", "exec"} \subseteq Plain BY DEF Plain, Places, Special, Chain, JobPlaces
  <2>2. Walks /\ at'["rt"] = at["rt"] /\ at'["sup"].pc \notin JobPlaces
    BY <1>0, <1>5, <2>1, PlainWalks DEF Drain, SupGoto, After
  <2>3. Frame BY <1>0, <1>5, <2>2 DEF Drain, Frame, Foreign, Gone, holdVars
  <2> QED BY <2>2, <2>3, FrameRest
<1>6. CASE Halt("sup")
  <2>1. {"stopreq"} \subseteq Plain BY DEF Plain, Places, Special, Chain, JobPlaces
  <2>2. Walks /\ at'["rt"] = at["rt"] /\ at'["sup"].pc \notin JobPlaces
    BY <1>0, <1>6, <2>1, PlainWalks DEF Halt, SupGoto
  <2>3. Frame BY <1>0, <1>6, <2>2 DEF Halt, Frame, Foreign, Gone, holdVars, backendVars, Service
  <2> QED BY <2>2, <2>3, FrameRest
<1>7. CASE StopRequest("sup")
  <2>1. {"failed", "exec"} \subseteq Plain BY DEF Plain, Places, Special, Chain, JobPlaces
  <2>2. Walks /\ at'["rt"] = at["rt"] /\ at'["sup"].pc \notin JobPlaces
    BY <1>0, <1>7, <2>1, PlainWalks DEF StopRequest, SupGoto, After
  <2>3. Frame BY <1>0, <1>7, <2>2 DEF StopRequest, Frame, Foreign, Gone, holdVars, StopUnit, BackendTypeOK
  <2> QED BY <2>2, <2>3, FrameRest
<1>8. CASE ProbeFails("sup")
  <2>1. {"failed"} \subseteq Plain BY DEF Plain, Places, Special, Chain, JobPlaces
  <2>2. Walks /\ at'["rt"] = at["rt"] /\ at'["sup"].pc \notin JobPlaces
    BY <1>0, <1>8, <2>1, PlainWalks DEF ProbeFails, SupGoto
  <2>3. Frame BY <1>0, <1>8, <2>2 DEF ProbeFails, Frame, Foreign, Gone, holdVars, backendVars
  <2> QED BY <2>2, <2>3, FrameRest
<1>9. CASE Sweep
  <2>1. {"tick"} \subseteq Plain BY DEF Plain, Places, Special, Chain, JobPlaces
  <2>2. Walks /\ at'["rt"] = at["rt"] /\ at'["sup"].pc \notin JobPlaces
    BY <1>0, <1>9, <2>1, PlainWalks DEF Sweep, SupGoto
  <2>3. Frame BY <1>0, <1>9, <2>2 DEF Sweep, Frame, Foreign, Gone, holdVars, backendVars
  <2> QED BY <2>2, <2>3, FrameRest
<1>10. CASE Quarantine
  <2>1. {"sweep"} \subseteq Plain BY DEF Plain, Places, Special, Chain, JobPlaces
  <2>2. Walks /\ at'["rt"] = at["rt"] /\ at'["sup"].pc \notin JobPlaces
    BY <1>0, <1>10, <2>1, PlainWalks DEF Quarantine, SupGoto
  <2>3. Frame BY <1>0, <1>10, <2>2 DEF Quarantine, Frame, Foreign, Gone, holdVars, Service
  <2> QED BY <2>2, <2>3, FrameRest
<1>11. CASE EndRound
  <2>1. {"sweep"} \subseteq Plain BY DEF Plain, Places, Special, Chain, JobPlaces
  <2>2. Walks /\ at'["rt"] = at["rt"] /\ at'["sup"].pc \notin JobPlaces
    BY <1>0, <1>11, <2>1, PlainWalks DEF EndRound, SupGoto
  <2>3. Frame BY <1>0, <1>11, <2>2 DEF EndRound, Frame, Foreign, Gone, holdVars, backendVars
  <2> QED BY <2>2, <2>3, FrameRest
<1>12. CASE Ready
  <2>1. {"finish", "idle"} \subseteq Plain BY DEF Plain, Places, Special, Chain, JobPlaces
  <2>2. Walks /\ at'["rt"] = at["rt"] /\ at'["sup"].pc \notin JobPlaces
    BY <1>0, <1>12, <2>1, PlainWalks DEF Ready, SupGoto
  <2>3. Frame BY <1>0, <1>12, <2>2 DEF Ready, Frame, Foreign, Gone, holdVars
  <2> QED BY <2>2, <2>3, FrameRest
<1>13. CASE Idle
  <2>1. {"idled"} \subseteq Plain BY DEF Plain, Places, Special, Chain, JobPlaces
  <2>2. Walks /\ at'["rt"] = at["rt"] /\ at'["sup"].pc \notin JobPlaces
    BY <1>0, <1>13, <2>1, PlainWalks DEF Idle, SupGoto
  <2>3. Frame BY <1>0, <1>13, <2>2 DEF Idle, Frame, Foreign, Gone, holdVars
  <2> QED BY <2>2, <2>3, FrameRest
<1>14. CASE IdleSaved
  <2>1. {"failed", "exec", "finish"} \subseteq Plain BY DEF Plain, Places, Special, Chain, JobPlaces
  <2>2. Walks /\ at'["rt"] = at["rt"] /\ at'["sup"].pc \notin JobPlaces
    BY <1>0, <1>14, <2>1, PlainWalks DEF IdleSaved, SupGoto
  <2>3. Frame BY <1>0, <1>14, <2>2 DEF IdleSaved, Frame, Foreign, Gone, holdVars, backendVars, Service
  <2> QED BY <2>2, <2>3, FrameRest
<1>15. CASE Finish
  <2>1. {"exec"} \subseteq Plain BY DEF Plain, Places, Special, Chain, JobPlaces
  <2>2. Walks /\ at'["rt"] = at["rt"] /\ at'["sup"].pc \notin JobPlaces
    BY <1>0, <1>15, <2>1, PlainWalks DEF Finish, SupGoto
  <2>3. Frame BY <1>0, <1>15, <2>2 DEF Finish, Frame, Foreign, Gone, holdVars, backendVars, Service
  <2> QED BY <2>2, <2>3, FrameRest
<1>16. CASE RestartHalt
  <2>1. {"stopreq", "failed"} \subseteq Plain BY DEF Plain, Places, Special, Chain, JobPlaces
  <2>2. Walks /\ at'["rt"] = at["rt"] /\ at'["sup"].pc \notin JobPlaces
    BY <1>0, <1>16, <2>1, PlainWalks DEF RestartHalt, SupGoto, Phase
  <2>3. Frame BY <1>0, <1>16, <2>2 DEF RestartHalt, Frame, Foreign, Gone, holdVars, Phase, backendVars, Service
  <2> QED BY <2>2, <2>3, FrameRest
<1>17. CASE RestartObserve
  <2>1. {"failed", "stopping", "exec"} \subseteq Plain BY DEF Plain, Places, Special, Chain, JobPlaces
  <2>2. Walks /\ at'["rt"] = at["rt"] /\ at'["sup"].pc \notin JobPlaces
    BY <1>0, <1>17, <2>1, PlainWalks DEF RestartObserve, SupGoto, Phase
  <2>3. Frame BY <1>0, <1>17, <2>2 DEF RestartObserve, Frame, Foreign, Gone, holdVars, Phase, backendVars, Service
  <2> QED BY <2>2, <2>3, FrameRest
<1>18. CASE RestartAwait
  <2>1. {"exec", "stopping", "rfinish"} \subseteq Plain BY DEF Plain, Places, Special, Chain, JobPlaces
  <2>2. Walks /\ at'["rt"] = at["rt"] /\ at'["sup"].pc \notin JobPlaces
    BY <1>0, <1>18, <2>1, PlainWalks DEF RestartAwait, SupGoto
  <2>3. Frame BY <1>0, <1>18, <2>2 DEF RestartAwait, Frame, Foreign, Gone, holdVars, BackendTypeOK
  <2> QED BY <2>2, <2>3, FrameRest
<1>19. CASE RestartTarget
  <2>1. {"failed", "exec", "rstop", "ropen"} \subseteq Plain BY DEF Plain, Places, Special, Chain, JobPlaces
  <2>2. [sup.snap EXCEPT !.inv = unit.inv] \in Service BY <1>0, Fields DEF BackendTypeOK
  <2>3. [sup.snap EXCEPT !.inv = unit.inv].lease = sup.snap.lease /\ [sup.snap EXCEPT !.inv = unit.inv].act = sup.snap.act
    BY <1>0 DEF Service
  <2>4. Walks /\ at'["rt"] = at["rt"] /\ at'["sup"].pc \notin JobPlaces
    BY <1>19, <2>1, <2>2, <2>3, PlainWalks, PlainWalksWith DEF RestartTarget, SupGoto
  <2>5. Frame BY <1>0, <1>19, <2>4 DEF RestartTarget, Frame, Foreign, Gone, backendVars, Service
  <2> QED BY <2>4, <2>5, FrameRest
<1>20. CASE RestartFinish
  <2>1. {"stopreq", "failed", "exec"} \subseteq Plain BY DEF Plain, Places, Special, Chain, JobPlaces
  <2>2. Walks /\ at'["rt"] = at["rt"] /\ at'["sup"].pc \notin JobPlaces
    BY <1>0, <1>20, <2>1, PlainWalks DEF RestartFinish, SupGoto, Phase
  <2>3. Frame BY <1>0, <1>20, <2>2 DEF RestartFinish, Frame, Foreign, Gone, holdVars, Phase, backendVars, Service
  <2> QED BY <2>2, <2>3, FrameRest
<1>21. CASE RestartOpen
  <2>1. {"exec", "failed"} \subseteq Plain BY DEF Plain, Places, Special, Chain, JobPlaces
  <2>2. Walks /\ at'["rt"] = at["rt"] /\ at'["sup"].pc \notin JobPlaces
    BY <1>0, <1>21, <2>1, PlainWalks DEF RestartOpen, SupGoto
  <2>3. Frame BY <1>0, <1>21, <2>2 DEF RestartOpen, Frame, Foreign, Gone, holdVars, Service
  <2> QED BY <2>2, <2>3, FrameRest
<1>22. CASE Crash
  <2>1. {"recover"} \subseteq Plain BY DEF Plain, Places, Special, Chain, JobPlaces
  <2>2. Walks /\ at'["rt"] = at["rt"] /\ at'["sup"].pc \notin JobPlaces
    BY <1>0, <1>22, <2>1, PlainWalks DEF Crash, SupGoto
  <2>3. Frame BY <1>0, <1>22, <2>2 DEF Crash, Frame, Foreign, Gone, holdVars
  <2> QED BY <2>2, <2>3, FrameRest
<1>23. CASE RecoverStopped
  <2>1. {"sweep", "failed"} \subseteq Plain BY DEF Plain, Places, Special, Chain, JobPlaces
  <2>2. Walks /\ at'["rt"] = at["rt"] /\ at'["sup"].pc \notin JobPlaces
    BY <1>0, <1>23, <2>1, PlainWalks DEF RecoverStopped, SupGoto
  <2>3. Frame BY <1>0, <1>23, <2>2 DEF RecoverStopped, Frame, Foreign, Gone, holdVars, backendVars
  <2> QED BY <2>2, <2>3, FrameRest
<1> QED BY <1>1, <1>2, <1>3, <1>4, <1>5, <1>6, <1>7, <1>8, <1>9, <1>10, <1>11, <1>12, <1>13, <1>14, <1>15, <1>16, <1>17, <1>18, <1>19, <1>20, <1>21, <1>22, <1>23

\* Once nothing of its own runs, the supervisor may rely on that.
LEMMA ForeignOwn ==
    ASSUME Asleep', Foreign', Known(svc)', Known(sup.snap)', at'["sup"].pc \notin JobPlaces,
           at'["sup"].pc \notin {"acquire", "persist", "start", "restarting"} \cup Chain
    PROVE  Rest' /\ at'["sup"].pc \notin JobPlaces
<1>1. OwnInv' BY DEF OwnInv, sup
<1> QED BY <1>1, NoJobRest

\* A unit is started under the lease of the record.
LEMMA StartsOwn ==
    ASSUME TypeOK, Rest, lease = svc.lease, Mine(lease), Walks, at'["sup"].pc \notin JobPlaces,
           at'["rt"] = at["rt"], lease' = lease, grants' = grants, acts' = acts, grant' = grant, svc' = svc
    PROVE  Rest' /\ at'["sup"].pc \notin JobPlaces
<1>1. Asleep' BY DEF Asleep, Rest, rt
<1>2. Known(svc)' BY DEF Rest, OwnInv, Known
<1>3. Known(sup.snap)'
  <2>1. Known(NoService) BY EmptyKnown DEF TypeOK, Rest
  <2> QED BY <2>1 DEF Rest, OwnInv, Known, Walks, Copy, sup
<1>4. (~Foreign => lease = svc.lease /\ Mine(lease))' BY DEF Mine
<1>5. OwnInv' BY <1>2, <1>3, <1>4 DEF OwnInv, Walks, Special, sup
<1> QED BY <1>1, <1>5, NoJobRest

\* A lease is released, unless the runtime holds the claim.
LEMMA ReleaseSleeps ==
    ASSUME TypeOK, Asleep, NEW h \in Act, Release(h), at'["rt"] = at["rt"], grants' = grants, acts' = acts
    PROVE  Asleep' /\ grant' = grant
<1>1. NoAct \notin grants
  <2>1. acts \in Nat BY BackendAssumption DEF TypeOK, Act
  <2> QED BY <2>1 DEF Asleep, NoAct
<1> QED BY <1>1 DEF Asleep, Release, Managed, holdVars, rt

\* Steps that take, use or give up the lease.
LEMMA SpecialStep ==
    ASSUME TypeOK, Rest, grants' = grants,
           \/ Stopping("sup") \/ Reset("sup") \/ Start("sup") \/ Tick \/ BeginProbe \/ Create \/ Acquire \/ Persist
           \/ Restart \/ RestartDrain \/ RestartPending \/ RestartStart \/ RecoverActive \/ Recovered
    PROVE  Rest' /\ at'["sup"].pc \notin JobPlaces
<1>0. /\ svc \in Service /\ sup = at["sup"] /\ sup.snap \in Service /\ BackendTypeOK
      /\ Asleep /\ OwnInv /\ "sup" \in Proc /\ at \in [Proc -> Control]
  BY DEF TypeOK, Control, sup, Proc, Rest
<1>a. acts \in Nat /\ NoAct \notin grants /\ Other \notin grants
  <2>1. acts \in Nat BY BackendAssumption DEF TypeOK, Act
  <2> QED BY <1>0, <2>1 DEF Asleep, NoAct, Other
<1>e. Known(NoService) BY <1>0, EmptyKnown DEF TypeOK
<1>1. CASE Stopping("sup")
  <2>1. CASE ~Gone
    <3>1. {"exec"} \subseteq Plain BY DEF Plain, Places, Special, Chain, JobPlaces
    <3>2. Walks /\ at'["rt"] = at["rt"] /\ at'["sup"].pc \notin JobPlaces
      BY <1>1, <2>1, <3>1, PlainWalks DEF Stopping, SupGoto, After
    <3>3. Frame BY <1>1, <2>1, <3>2 DEF Stopping, Frame, Foreign, Gone, holdVars
    <3> QED BY <3>2, <3>3, FrameRest
  <2>2. CASE Gone
    <3>1. "reset" \in Places /\ "reset" \notin Settled \cup {"failed", "verify"} BY DEF Places, Settled
    <3>2. at'["sup"].pc = "reset" /\ at'["rt"] = at["rt"] /\ at'["sup"].snap = sup.snap
      BY <1>0, <1>1, <2>2, <3>1, GotoSet DEF Stopping, Proc
    <3>3. sup.snap.lease \in Act BY <1>0, Fields
    <3>4. Asleep' BY <1>0, <1>1, <2>2, <3>2, <3>3, ReleaseSleeps DEF Stopping
    <3>5. Foreign' BY <1>1, <2>2 DEF Stopping, Foreign, Gone
    <3>6. Known(svc)' /\ Known(sup.snap)' BY <1>0, <1>1, <3>2 DEF Stopping, OwnInv, Known, sup
    <3> QED BY <3>2, <3>4, <3>5, <3>6, ForeignOwn DEF JobPlaces, Chain
  <2> QED BY <2>1, <2>2
<1>2. CASE Reset("sup")
  <2>1. {"exec"} \subseteq Plain BY DEF Plain, Places, Special, Chain, JobPlaces
  <2>2. Walks /\ at'["rt"] = at["rt"] /\ at'["sup"].pc \notin JobPlaces
    BY <1>2, <2>1, PlainWalks DEF Reset, SupGoto, After
  <2>3. Asleep' BY <1>0, <1>2, <2>2 DEF Reset, Asleep, backendVars, holdVars, rt
  <2>4. Foreign' BY <1>0, <1>2 DEF Reset, OwnInv, Foreign, Gone, backendVars
  <2>5. Known(svc)' BY <1>e, <1>2 DEF Reset, Known
  <2>6. Known(sup.snap)' BY <1>0, <1>2, <1>e, <2>2 DEF Reset, OwnInv, Known, Walks, Copy, sup
  <2> QED BY <2>2, <2>3, <2>4, <2>5, <2>6, ForeignOwn DEF Walks, Special
<1>3. CASE Start("sup")
  <2>1. {"exec", "failed"} \subseteq Plain BY DEF Plain, Places, Special, Chain, JobPlaces
  <2>2. Walks /\ at'["rt"] = at["rt"] /\ at'["sup"].pc \notin JobPlaces
    BY <1>3, <2>1, PlainWalks DEF Start, SupGoto
  <2>3. lease = svc.lease /\ Mine(lease) BY <1>0, <1>3 DEF Start, OwnInv
  <2> QED BY <1>3, <2>2, <2>3, StartsOwn DEF Start, holdVars
<1>4. CASE Tick
  <2> DEFINE s == CASE Route = "begin" -> [NoService EXCEPT !.mode = IF Wanted THEN "interactive" ELSE "managed"]
                    [] Route \in {"exec", "failed", "observe"} -> NoService
                    [] OTHER -> svc
  <2>1. at'["sup"].pc = Route /\ at'["sup"].snap = s /\ at'["rt"] = at["rt"]
    <3>1. PICK v \in Verdicts : at' = [at EXCEPT !["sup"] =
            [Start0 EXCEPT !.pc = Route, !.res = v,
                           !.snap = CASE Route = "begin" ->
                                            [NoService EXCEPT !.mode = IF Wanted THEN "interactive" ELSE "managed"]
                                      [] Route \in {"exec", "failed", "observe"} -> NoService
                                      [] OTHER -> svc]]
      BY <1>4 DEF Tick
    <3> DEFINE c == [Start0 EXCEPT !.pc = Route, !.res = v, !.snap = s]
    <3> HIDE DEF s
    <3>2. c.pc = Route /\ c.snap = s BY DEF Start0
    <3>3. at' = [at EXCEPT !["sup"] = c] BY <3>1 DEF s
    <3> HIDE DEF c
    <3> QED BY <1>0, <3>2, <3>3 DEF Proc
  <2>2. Route \in {"begin", "exec", "failed", "observe", "drain", "ready", "restarting", "stopping"}
    <3>1. svc.state \in {"stopped", "waiting", "reserving", "starting", "ready", "restarting",
                         "draining", "stopping", "recovery"} BY <1>0 DEF Service
    <3> QED BY <3>1 DEF Route
  <2>3. \/ s.lease = NoService.lease /\ s.act = NoService.act
        \/ s.lease = svc.lease /\ s.act = svc.act
    <3>1. [NoService EXCEPT !.mode = IF Wanted THEN "interactive" ELSE "managed"].lease = NoService.lease
          /\ [NoService EXCEPT !.mode = IF Wanted THEN "interactive" ELSE "managed"].act = NoService.act
      BY EmptyTyped DEF Service
    <3> QED BY <3>1
  <2>4. Route = "restarting" => s = svc OBVIOUS
  <2> HIDE DEF s
  <2>5. Frame BY <1>4, <2>1 DEF Tick, Frame, backendVars, holdVars, Foreign, Gone
  <2>6. at'["sup"].pc \notin JobPlaces BY <2>1, <2>2 DEF JobPlaces
  <2>7. CASE Route # "restarting"
    <3>1. Walks BY <2>1, <2>2, <2>3, <2>7 DEF Walks, Special, Chain, Copy
    <3> QED BY <2>5, <2>6, <3>1, FrameRest
  <2>8. CASE Route = "restarting"
    <3>1. Asleep' BY <1>0, <2>5, <2>1 DEF Asleep, Frame, rt
    <3>2. Known(svc)' /\ Known(sup.snap)' BY <1>0, <2>1, <2>4, <2>5, <2>8 DEF Frame, OwnInv, Known, sup
    <3>3. (~Foreign => lease = svc.lease /\ Mine(lease))' BY <1>0, <2>5 DEF Frame, OwnInv, Mine
    <3>4. at'["sup"].pc \notin Chain BY <2>1, <2>8 DEF Chain
    <3>5. at'["sup"].snap.lease = svc'.lease BY <2>1, <2>4, <2>8, <1>4 DEF Tick
    <3>6. OwnInv' BY <2>1, <2>8, <3>2, <3>3, <3>4, <3>5 DEF OwnInv, sup
    <3> QED BY <2>6, <3>1, <3>6, NoJobRest
  <2> QED BY <2>7, <2>8
<1>5. CASE BeginProbe
  <2>1. CASE SupGoto("create") /\ Gone
    <3>1. "create" \in Places /\ "create" \notin Settled \cup {"failed", "verify"} BY DEF Places, Settled
    <3>2. at'["sup"].pc = "create" /\ at'["rt"] = at["rt"] /\ at'["sup"].snap = sup.snap
      BY <1>0, <2>1, <3>1, GotoSet DEF SupGoto, Proc
    <3>3. Asleep' BY <1>0, <1>5, <3>2 DEF BeginProbe, Asleep, backendVars, holdVars, rt
    <3>4. Foreign' BY <1>5, <2>1 DEF BeginProbe, Foreign, Gone, backendVars
    <3>5. svc'.lease = svc.lease /\ svc'.act = svc.act BY <1>0, <1>5 DEF BeginProbe, Waits, Service
    <3>6. Known(svc)' /\ Known(sup.snap)' BY <1>0, <1>5, <3>2, <3>5 DEF BeginProbe, OwnInv, Known, sup
    <3> QED BY <3>2, <3>3, <3>4, <3>6, ForeignOwn DEF JobPlaces, Chain
  <2>2. CASE SupGoto("exec") \/ SupGoto("failed")
    <3>1. {"exec", "failed"} \subseteq Plain BY DEF Plain, Places, Special, Chain, JobPlaces
    <3>2. Walks /\ at'["rt"] = at["rt"] /\ at'["sup"].pc \notin JobPlaces BY <2>2, <3>1, PlainWalks
    <3>3. Frame BY <1>0, <1>5, <3>2 DEF BeginProbe, Waits, Frame, Foreign, Gone, backendVars, holdVars, Service
    <3> QED BY <3>2, <3>3, FrameRest
  <2> QED BY <1>5, <2>1, <2>2 DEF BeginProbe, Waits
<1>6. CASE Create
  <2>1. PICK s \in Session \cup {NoSession} :
          svc' = [NoService EXCEPT !.state = "reserving", !.mode = sup.snap.mode, !.act = acts', !.session = s]
    BY <1>6 DEF Create
  <2>2. svc'.act = acts + 1 /\ svc'.lease = NoAct BY <1>6, <2>1 DEF Create, NoService
  <2>3. at'["sup"].pc = "acquire" /\ at'["sup"].snap = svc' /\ at'["rt"] = at["rt"]
    BY <1>0, <1>6 DEF Create, GotoWith, Control, Proc
  <2>4. Foreign' BY <1>0, <1>6 DEF Create, OwnInv, Foreign, Gone, backendVars
  <2>n. acts' = acts + 1 /\ grants' = grants /\ lease' = lease /\ grant' = grant
    BY <1>6 DEF Create, backendVars, holdVars
  <2>g. grants' \subseteq 1 .. acts'
    <3>1. \A x \in 1 .. acts : x \in 1 .. (acts + 1) BY <1>a
    <3> QED BY <1>0, <2>n, <3>1 DEF Asleep
  <2>5. Asleep' BY <1>0, <2>3, <2>n, <2>g DEF Asleep, rt
  <2>6. acts + 1 \notin grants /\ acts + 1 # NoAct /\ acts + 1 # Other BY <1>0, <1>a DEF Asleep, NoAct, Other
  <2>7. Known(svc)'
    <3>1. 0 \in 0 .. (acts + 1) /\ acts + 1 \in 0 .. (acts + 1) BY <1>a
    <3>2. NoAct \notin grants' BY <1>a, <2>n
    <3> QED BY <2>2, <2>n, <3>1, <3>2 DEF Known, NoAct
  <2>8. OwnInv' BY <2>2, <2>3, <2>4, <2>6, <2>7 DEF OwnInv, Mine, Chain, sup
  <2> QED BY <2>3, <2>5, <2>8, NoJobRest DEF JobPlaces
<1>7. CASE Acquire
  <2>1. CASE lease = NoAct /\ lease' = sup.snap.act /\ SupGoto("persist") /\ UNCHANGED svc
    <3>1. "persist" \in Places /\ "persist" \notin Settled \cup {"failed", "verify"} BY DEF Places, Settled
    <3>2. at'["sup"].pc = "persist" /\ at'["rt"] = at["rt"] /\ at'["sup"].snap = sup.snap
      BY <1>0, <2>1, <3>1, GotoSet DEF SupGoto, Proc
    <3>3. Asleep' BY <1>0, <1>7, <1>a, <2>1, <3>2 DEF Acquire, Asleep, rt
    <3>4. Foreign' BY <1>0, <1>7 DEF Acquire, OwnInv, Foreign, Gone
    <3>5. Known(svc)' /\ Known(sup.snap)' BY <1>0, <1>7, <2>1, <3>2 DEF Acquire, OwnInv, Known, sup
    <3>6. Mine(sup.snap.act) BY <1>0, <1>7 DEF Acquire, OwnInv
    <3>7. OwnInv' BY <1>7, <2>1, <3>2, <3>4, <3>5, <3>6 DEF Acquire, OwnInv, Mine, Chain, sup
    <3> QED BY <3>2, <3>3, <3>7, NoJobRest DEF JobPlaces
  <2>2. CASE Waits /\ UNCHANGED lease
    <3>1. {"exec"} \subseteq Plain BY DEF Plain, Places, Special, Chain, JobPlaces
    <3>2. Walks /\ at'["rt"] = at["rt"] /\ at'["sup"].pc \notin JobPlaces BY <2>2, <3>1, PlainWalks DEF Waits
    <3>3. Frame BY <1>0, <1>7, <2>2, <3>2 DEF Acquire, Waits, Frame, Foreign, Gone, Service
    <3> QED BY <3>2, <3>3, FrameRest
  <2> QED BY <1>7, <2>1, <2>2 DEF Acquire
<1>8. CASE Persist
  <2>1. "start" \in Places /\ "start" \notin Settled \cup {"failed", "verify"} BY DEF Places, Settled
  <2>2. at'["sup"].pc = "start" /\ at'["rt"] = at["rt"] /\ at'["sup"].snap = sup.snap
    BY <1>0, <1>8, <2>1, GotoSet DEF Persist, SupGoto, Proc
  <2>3. Asleep' BY <1>0, <1>8, <2>2 DEF Persist, Asleep, backendVars, holdVars, rt
  <2>4. Foreign' BY <1>0, <1>8 DEF Persist, OwnInv, Foreign, Gone, backendVars
  <2>5. svc'.lease = sup.snap.act /\ svc'.act = svc.act BY <1>0, <1>8 DEF Persist, Service
  <2>6. lease' = lease /\ grants' = grants /\ acts' = acts BY <1>8 DEF Persist, backendVars, holdVars
  <2>7. lease = sup.snap.act /\ Mine(lease) BY <1>0, <1>8 DEF Persist, OwnInv
  <2>8. Known(svc)' /\ Known(sup.snap)' BY <1>0, <2>2, <2>5, <2>6, <2>7 DEF OwnInv, Known, Mine, sup
  <2>9. OwnInv' BY <2>2, <2>4, <2>5, <2>6, <2>7, <2>8 DEF OwnInv, Mine, Chain, sup
  <2> QED BY <2>2, <2>3, <2>9, NoJobRest DEF JobPlaces
<1>9. CASE Restart
  <2>1. RestartPcs[sup.snap.phase] \in {"rdrain", "robserve", "rpending", "rstarting", "failed"}
    <3>1. \A x \in {"none", "draining", "stopping", "finishing", "pending", "starting", "completed"} :
             RestartPcs[x] \in {"rdrain", "robserve", "rpending", "rstarting", "failed"}
      BY DEF RestartPcs
    <3> QED BY <1>0, <3>1, Fields DEF Phases
  <2>2. PICK x \in {"rdrain", "robserve", "rpending", "rstarting", "failed"} : SupGoto(x) BY <1>9, <2>1 DEF Restart
  <2>3. lease = sup.snap.lease /\ lease # NoAct BY <1>0, <1>9 DEF Restart, Holds, Verified
  <2>4. CASE x = "failed"
    <3>1. {"failed"} \subseteq Plain BY DEF Plain, Places, Special, Chain, JobPlaces
    <3>2. Walks /\ at'["rt"] = at["rt"] /\ at'["sup"].pc \notin JobPlaces BY <2>2, <2>4, <3>1, PlainWalks
    <3>3. Frame BY <1>9, <3>2 DEF Restart, Frame, Foreign, Gone, holdVars
    <3> QED BY <3>2, <3>3, FrameRest
  <2>5. CASE x # "failed"
    <3>1. x \in Places /\ x \notin Settled \cup {"failed", "verify"} /\ x \in Chain
      BY <2>5 DEF Places, Settled, Chain
    <3>2. at'["sup"].pc = x /\ at'["rt"] = at["rt"] /\ at'["sup"].snap = sup.snap
      BY <1>0, <2>2, <3>1, GotoSet DEF SupGoto, Proc
    <3>3. Frame BY <1>9, <3>2 DEF Restart, Frame, Foreign, Gone, holdVars
    <3>4. Asleep' BY <1>0, <3>3 DEF Asleep, Frame, rt
    <3>5. Known(svc)' /\ Known(sup.snap)' BY <1>0, <3>2, <3>3 DEF OwnInv, Known, Frame, sup
    <3>6. (~Foreign => lease = svc.lease /\ Mine(lease))' BY <1>0, <3>3 DEF Frame, OwnInv, Mine
    <3>7. lease = sup.snap.lease /\ Mine(lease) => svc.lease = lease BY <1>0, <1>9 DEF Restart, OwnInv
    <3>8. sup.snap.act \notin grants => lease = sup.snap.lease /\ Mine(lease)
      <4>1. sup.snap.lease \in 0 .. acts /\ (sup.snap.lease \in grants => sup.snap.act \in grants)
        BY <1>0 DEF OwnInv, Known
      <4> QED BY <1>a, <2>3, <4>1 DEF Mine, Other
    <3>9. at'["sup"].pc \notin {"create", "acquire", "persist", "start", "reset", "recovered"}
      BY <3>1, <3>2 DEF Chain
    <3>10. OwnInv' BY <3>2, <3>3, <3>5, <3>6, <3>7, <3>8, <3>9 DEF OwnInv, Frame, Mine, sup
    <3>11. at'["sup"].pc \notin JobPlaces BY <3>1, <3>2 DEF Chain, JobPlaces
    <3> QED BY <3>4, <3>10, <3>11, NoJobRest
  <2> QED BY <2>4, <2>5
<1>10. CASE RestartDrain \/ RestartPending
  <2>1. PICK x \in {"rhalt", "rstart", "exec", "failed", "stopping"} : SupGoto(x)
    BY <1>10 DEF RestartDrain, RestartPending, Phase
  <2>2. at'["rt"] = at["rt"]
    <3>1. {"rhalt", "rstart", "exec", "failed", "stopping"} \subseteq Places BY DEF Places
    <3> QED BY <2>1, <3>1, GotoSet DEF SupGoto, Proc
  <2>3. Frame
    BY <1>0, <1>10, <2>2 DEF RestartDrain, RestartPending, Phase, Frame, Foreign, Gone, backendVars, holdVars, Service
  <2>4. CASE x \in {"exec", "failed", "stopping"}
    <3>1. {"exec", "failed", "stopping"} \subseteq Plain BY DEF Plain, Places, Special, Chain, JobPlaces
    <3>2. Walks /\ at'["sup"].pc \notin JobPlaces BY <2>1, <2>4, <3>1, PlainWalks
    <3> QED BY <2>3, <3>2, FrameRest
  <2>5. CASE x \in {"rhalt", "rstart"}
    <3>1. x \in Places /\ x \notin Settled \cup {"failed", "verify"} /\ x \in Chain
      BY <2>5 DEF Places, Settled, Chain
    <3>2. at'["sup"].pc = x /\ at'["sup"].snap = sup.snap
      BY <1>0, <2>1, <3>1, GotoSet DEF SupGoto, Proc
    <3>3. sup.pc \in Chain BY <1>10 DEF RestartDrain, RestartPending, Chain
    <3>4. Chained BY <3>1, <3>2, <3>3 DEF Chained
    <3>5. at'["sup"].pc \notin JobPlaces BY <2>5, <3>2 DEF JobPlaces
    <3> QED BY <1>0, <2>3, <3>4, <3>5, FrameOwn, NoJobRest
  <2> QED BY <2>1, <2>4, <2>5
<1>11. CASE RestartStart
  <2>1. {"exec", "failed"} \subseteq Plain BY DEF Plain, Places, Special, Chain, JobPlaces
  <2>2. Walks /\ at'["rt"] = at["rt"] /\ at'["sup"].pc \notin JobPlaces
    BY <1>11, <2>1, PlainWalks DEF RestartStart
  <2>3. CASE sup.snap.act \in grants \/ ~CanStart
    <3>1. Frame BY <1>0, <1>11, <2>2, <2>3
      DEF RestartStart, StartUnit, CanStart, Frame, Foreign, Gone, holdVars, BackendTypeOK
    <3> QED BY <2>2, <3>1, FrameRest
  <2>4. CASE sup.snap.act \notin grants
    <3>1. sup.pc \in Chain BY <1>11 DEF RestartStart, Chain
    <3>2. lease = svc.lease /\ Mine(lease) BY <1>0, <2>4, <3>1 DEF OwnInv
    <3> QED BY <1>11, <2>2, <3>2, StartsOwn DEF RestartStart, holdVars
  <2> QED BY <2>3, <2>4
<1>12. CASE RecoverActive
  <2>1. PICK x \in {"sweep", "failed", "recovered"} : SupGoto(x) BY <1>12 DEF RecoverActive
  <2>2. CASE x # "recovered" /\ UNCHANGED holdVars
    <3>1. {"sweep", "failed"} \subseteq Plain BY DEF Plain, Places, Special, Chain, JobPlaces
    <3>2. Walks /\ at'["rt"] = at["rt"] /\ at'["sup"].pc \notin JobPlaces BY <2>1, <2>2, <3>1, PlainWalks
    <3>3. Frame BY <1>12, <2>2, <3>2 DEF RecoverActive, Frame, Foreign, Gone, holdVars
    <3> QED BY <3>2, <3>3, FrameRest
  <2>3. CASE Gone /\ Release(svc.lease) /\ SupGoto("recovered")
    <3>1. "recovered" \in Places /\ "recovered" \notin Settled \cup {"failed", "verify"} BY DEF Places, Settled
    <3>2. at'["sup"].pc = "recovered" /\ at'["rt"] = at["rt"] /\ at'["sup"].snap = sup.snap
      BY <1>0, <2>3, <3>1, GotoSet DEF SupGoto, Proc
    <3>3. svc.lease \in Act BY <1>0, Fields
    <3>4. Asleep' BY <1>0, <1>12, <2>3, <3>2, <3>3, ReleaseSleeps DEF RecoverActive
    <3>5. Foreign' BY <1>12, <2>3 DEF RecoverActive, Foreign, Gone
    <3>6. Known(svc)' /\ Known(sup.snap)' BY <1>0, <1>12, <3>2 DEF RecoverActive, OwnInv, Known, sup
    <3> QED BY <3>2, <3>4, <3>5, <3>6, ForeignOwn DEF JobPlaces, Chain
  <2> QED
    <3>1. \/ UNCHANGED holdVars /\ (SupGoto("sweep") \/ SupGoto("failed"))
          \/ Gone /\ Release(svc.lease) /\ SupGoto("recovered")
      BY <1>12 DEF RecoverActive
    <3>2. SupGoto("sweep") => x # "recovered"
      <4>1. {"sweep", "failed", "recovered"} \subseteq Places BY DEF Places
      <4> QED BY <2>1, <4>1, GotoSet DEF SupGoto, Proc
    <3>3. SupGoto("failed") => x # "recovered"
      <4>1. {"sweep", "failed", "recovered"} \subseteq Places BY DEF Places
      <4> QED BY <2>1, <4>1, GotoSet DEF SupGoto, Proc
    <3> QED BY <2>2, <2>3, <3>1, <3>2, <3>3
<1>13. CASE Recovered
  <2>1. {"sweep"} \subseteq Plain BY DEF Plain, Places, Special, Chain, JobPlaces
  <2>2. Walks /\ at'["rt"] = at["rt"] /\ at'["sup"].pc \notin JobPlaces
    BY <1>13, <2>1, PlainWalks DEF Recovered
  <2>3. Asleep' BY <1>0, <1>13, <2>2 DEF Recovered, Asleep, backendVars, holdVars, rt
  <2>4. Foreign' BY <1>0, <1>13 DEF Recovered, OwnInv, Foreign, Gone, backendVars
  <2>5. Known(svc)' BY <1>e, <1>13 DEF Recovered, Known
  <2>6. Known(sup.snap)' BY <1>0, <1>13, <1>e, <2>2 DEF Recovered, OwnInv, Known, Walks, Copy, sup
  <2> QED BY <2>2, <2>3, <2>4, <2>5, <2>6, ForeignOwn DEF Walks, Special
<1> QED BY <1>1, <1>2, <1>3, <1>4, <1>5, <1>6, <1>7, <1>8, <1>9, <1>10, <1>11, <1>12, <1>13

\* A step of a job: the job stays at hand.
LEMMA JobRest ==
    ASSUME TypeOK, Rest, Frame, Walks,
           at'["sup"].pc \in JobPlaces => at'["sup"].job \in Job,
           at'["sup"].pc = "publish" => at'["sup"].res \in {"completed", "failed", "interrupted"}
    PROVE  Rest'
<1>1. AtJob' /\ AtResult' BY DEF AtJob, AtResult, JobPlaces, sup
<1> QED BY <1>1, FrameOwn DEF Rest

\* The steps of jobs.
LEMMA JobStep ==
    ASSUME TypeOK, Rest, grants' = grants,
           Exec \/ Prepare \/ Submit \/ PostJob \/ Acked \/ Poll \/ Publish \/ Cancellation \/ CancelPosted \/ Cleaned
    PROVE  Rest'
<1>0. /\ svc \in Service /\ sup = at["sup"] /\ sup \in Control /\ BackendTypeOK
      /\ at \in [Proc -> Control] /\ "sup" \in Proc
  BY DEF TypeOK, sup, Proc
<1>w. \A x \in JobPlaces \cup {"failed"} : \A j \in Job : WithJob(x, j) =>
         at'["sup"].pc = x /\ at'["sup"].job = j /\ Walks /\ at'["rt"] = at["rt"]
  <2> SUFFICES ASSUME NEW x \in JobPlaces \cup {"failed"}, NEW j \in Job, WithJob(x, j)
               PROVE  at'["sup"].pc = x /\ at'["sup"].job = j /\ Walks /\ at'["rt"] = at["rt"]
    OBVIOUS
  <2> DEFINE c == [at["sup"] EXCEPT !.pc = x, !.job = j]
  <2>1. c.pc = x /\ c.job = j /\ c.snap = sup.snap BY <1>0 DEF Control
  <2>2. at' = [at EXCEPT !["sup"] = c] BY <1>0 DEF WithJob
  <2>3. x \notin Special BY DEF Special, Chain, JobPlaces
  <2> HIDE DEF c
  <2> QED BY <1>0, <2>1, <2>2, <2>3 DEF Walks, Copy, Proc
<1>r. \A x \in JobPlaces : \A r : Result(x, r) =>
         /\ at'["sup"].pc = x /\ at'["sup"].job = sup.job /\ at'["sup"].res = r /\ Walks
         /\ at'["rt"] = at["rt"]
  <2> SUFFICES ASSUME NEW x \in JobPlaces, NEW r, Result(x, r)
               PROVE  /\ at'["sup"].pc = x /\ at'["sup"].job = sup.job /\ at'["sup"].res = r /\ Walks
                      /\ at'["rt"] = at["rt"]
    OBVIOUS
  <2> DEFINE c == [at["sup"] EXCEPT !.pc = x, !.res = r]
  <2>1. c.pc = x /\ c.job = sup.job /\ c.res = r /\ c.snap = sup.snap BY <1>0 DEF Control
  <2>2. at' = [at EXCEPT !["sup"] = c] BY <1>0 DEF Result
  <2>3. x \notin Special BY DEF Special, Chain, JobPlaces
  <2> HIDE DEF c
  <2> QED BY <1>0, <2>1, <2>2, <2>3 DEF Walks, Copy, Proc
<1>g. \A x \in {"submit", "post", "cancelling", "cleaned"} : SupGoto(x) =>
         at'["sup"].pc = x /\ at'["sup"].job = sup.job /\ Walks /\ at'["rt"] = at["rt"]
  <2> SUFFICES ASSUME NEW x \in {"submit", "post", "cancelling", "cleaned"}, SupGoto(x)
               PROVE  at'["sup"].pc = x /\ at'["sup"].job = sup.job /\ Walks /\ at'["rt"] = at["rt"]
    OBVIOUS
  <2>1. x \in Places /\ x \notin Settled \cup {"failed", "verify"} BY DEF Places, Settled
  <2>2. x \notin Special BY DEF Special, Chain
  <2> QED BY <1>0, <2>1, <2>2, GotoSet, SupWalks DEF SupGoto, Proc
<1>p. \A x \in {"end", "failed"} : SupGoto(x) =>
         at'["sup"].pc \notin JobPlaces /\ Walks /\ at'["rt"] = at["rt"]
  <2>1. {"end", "failed"} \subseteq Plain BY DEF Plain, Places, Special, Chain, JobPlaces
  <2> QED BY <2>1, PlainWalks
<1>j. sup.pc \in JobPlaces => sup.job \in Job BY DEF Rest, AtJob, JobPlaces
<1>s. {"prepare", "submit", "post", "acked", "poll", "publish", "cancel", "cancelling", "cleaned"} = JobPlaces BY DEF JobPlaces
<1>1. CASE Exec
  <2>1. /\ Walks /\ at'["rt"] = at["rt"] /\ at'["sup"].pc # "publish"
        /\ at'["sup"].pc \in JobPlaces => at'["sup"].job \in Job
    BY <1>0, <1>1, <1>w, <1>p, <1>s DEF Exec
  <2>2. Frame BY <1>0, <1>1, <2>1 DEF Exec, Frame, Foreign, Gone, backendVars, holdVars
  <2> QED BY <2>1, <2>2, JobRest
<1>2. CASE Prepare
  <2>1. /\ Walks /\ at'["rt"] = at["rt"] /\ at'["sup"].pc # "publish"
        /\ at'["sup"].pc \in JobPlaces => at'["sup"].job \in Job
    <3>1. sup.job \in Job BY <1>2, <1>j, <1>s DEF Prepare
    <3> QED BY <1>0, <1>2, <1>r, <1>g, <1>p, <1>s, <3>1 DEF Prepare, JobPlaces
  <2>2. Frame BY <1>0, <1>2, <2>1 DEF Prepare, Frame, Foreign, Gone, backendVars, holdVars
  <2> QED BY <2>1, <2>2, JobRest
<1>3. CASE Submit
  <2>1. /\ Walks /\ at'["rt"] = at["rt"] /\ at'["sup"].pc # "publish"
        /\ at'["sup"].pc \in JobPlaces => at'["sup"].job \in Job
    <3>1. sup.job \in Job BY <1>3, <1>j, <1>s DEF Submit
    <3> QED BY <1>0, <1>3, <1>r, <1>g, <1>p, <1>s, <3>1 DEF Submit, JobPlaces
  <2>2. Frame BY <1>0, <1>3, <2>1 DEF Submit, Frame, Foreign, Gone, backendVars, holdVars
  <2> QED BY <2>1, <2>2, JobRest
<1>4. CASE PostJob
  <2>1. /\ Walks /\ at'["rt"] = at["rt"] /\ at'["sup"].pc # "publish"
        /\ at'["sup"].pc \in JobPlaces => at'["sup"].job \in Job
    <3>1. sup.job \in Job BY <1>4, <1>j, <1>s DEF PostJob
    <3> QED BY <1>0, <1>4, <1>r, <1>g, <1>p, <1>s, <3>1 DEF PostJob, JobPlaces
  <2>2. Frame BY <1>0, <1>4, <2>1 DEF PostJob, Frame, Foreign, Gone, backendVars, holdVars
  <2> QED BY <2>1, <2>2, JobRest
<1>5. CASE Acked
  <2>1. /\ Walks /\ at'["rt"] = at["rt"] /\ at'["sup"].pc # "publish"
        /\ at'["sup"].pc \in JobPlaces => at'["sup"].job \in Job
    <3>1. sup.job \in Job BY <1>5, <1>j, <1>s DEF Acked
    <3> QED BY <1>0, <1>5, <1>r, <1>g, <1>p, <1>s, <3>1 DEF Acked, JobPlaces
  <2>2. Frame BY <1>0, <1>5, <2>1 DEF Acked, Frame, Foreign, Gone, backendVars, holdVars
  <2> QED BY <2>1, <2>2, JobRest
<1>6. CASE Poll
  <2>1. /\ Walks /\ at'["rt"] = at["rt"]
        /\ at'["sup"].pc = "publish" => at'["sup"].res \in {"completed", "failed", "interrupted"}
        /\ at'["sup"].pc \in JobPlaces => at'["sup"].job \in Job
    <3>1. sup.job \in Job BY <1>6, <1>j, <1>s DEF Poll
    <3> QED BY <1>0, <1>6, <1>r, <1>p, <1>s, <3>1 DEF Poll, Collected, JobPlaces
  <2>2. Frame BY <1>0, <1>6, <2>1 DEF Poll, Frame, Foreign, Gone, backendVars, holdVars
  <2> QED BY <2>1, <2>2, JobRest
<1>7. CASE Publish
  <2>1. /\ Walks /\ at'["rt"] = at["rt"] /\ at'["sup"].pc # "publish"
        /\ at'["sup"].pc \in JobPlaces => at'["sup"].job \in Job
    <3>1. sup.job \in Job BY <1>7, <1>j, <1>s DEF Publish
    <3> QED BY <1>0, <1>7, <1>r, <1>g, <1>p, <1>s, <3>1 DEF Publish, JobPlaces
  <2>2. Frame BY <1>0, <1>7, <2>1 DEF Publish, Frame, Foreign, Gone, backendVars, holdVars
  <2> QED BY <2>1, <2>2, JobRest
<1>8. CASE Cancellation
  <2>1. /\ Walks /\ at'["rt"] = at["rt"] /\ at'["sup"].pc # "publish"
        /\ at'["sup"].pc \in JobPlaces => at'["sup"].job \in Job
    <3>1. sup.job \in Job BY <1>8, <1>j, <1>s DEF Cancellation
    <3> QED BY <1>0, <1>8, <1>r, <1>g, <1>p, <1>s, <3>1 DEF Cancellation, JobPlaces
  <2>2. Frame BY <1>0, <1>8, <2>1 DEF Cancellation, Frame, Foreign, Gone, backendVars, holdVars
  <2> QED BY <2>1, <2>2, JobRest
<1>9. CASE CancelPosted
  <2>1. /\ Walks /\ at'["rt"] = at["rt"] /\ at'["sup"].pc # "publish"
        /\ at'["sup"].pc \in JobPlaces => at'["sup"].job \in Job
    <3>1. sup.job \in Job BY <1>9, <1>j, <1>s DEF CancelPosted
    <3> QED BY <1>0, <1>9, <1>r, <1>g, <1>p, <1>s, <3>1 DEF CancelPosted, JobPlaces
  <2>2. Frame BY <1>0, <1>9, <2>1 DEF CancelPosted, Frame, Foreign, Gone, backendVars, holdVars
  <2> QED BY <2>1, <2>2, JobRest
<1>10. CASE Cleaned
  <2>1. /\ Walks /\ at'["rt"] = at["rt"] /\ at'["sup"].pc # "publish"
        /\ at'["sup"].pc \in JobPlaces => at'["sup"].job \in Job
    <3>1. sup.job \in Job BY <1>10, <1>j, <1>s DEF Cleaned
    <3> QED BY <1>0, <1>10, <1>r, <1>g, <1>p, <1>s, <3>1 DEF Cleaned, JobPlaces
  <2>2. Frame BY <1>0, <1>10, <2>1 DEF Cleaned, Frame, Foreign, Gone, backendVars, holdVars
  <2> QED BY <2>1, <2>2, JobRest
<1> QED BY <1>1, <1>2, <1>3, <1>4, <1>5, <1>6, <1>7, <1>8, <1>9, <1>10

\* Whatever leaves both processes where they are.
LEMMA StillRest == ASSUME TypeOK, Rest, Frame, at' = at PROVE Rest'
<1>1. AtJob' /\ AtResult' BY DEF Rest, AtJob, AtResult, sup
<1> QED BY <1>1, FrameOwn DEF Rest

\* Those are the steps of clients, deadlines and surroundings.
LEMMA ServeRest ==
    ASSUME TypeOK, Rest, grants' = grants, Serve \/ Deadline \/ Surroundings
    PROVE  Rest'
<1>0. svc \in Service /\ BackendTypeOK /\ Asleep /\ OwnInv BY DEF TypeOK, Rest
<1>1. ASSUME NEW j \in Job, SubmitJob(j) \/ CancelJob(j) PROVE Rest'
  <2>1. Frame /\ at' = at BY <1>1 DEF SubmitJob, CancelJob, Frame, Foreign, Gone, backendVars, holdVars
  <2> QED BY <2>1, StillRest
<1>2. ASSUME NEW s \in Session, SubmitSession(s) \/ ReleaseSession(s) PROVE Rest'
  <2>1. Frame /\ at' = at
    BY <1>0, <1>2 DEF SubmitSession, ReleaseSession, Frame, Foreign, Gone, backendVars, holdVars, Service
  <2> QED BY <2>1, StillRest
<1>3. CASE RequestRestart
  <2>1. Frame /\ at' = at BY <1>0, <1>3 DEF RequestRestart, Frame, Foreign, Gone, backendVars, holdVars, Service
  <2> QED BY <2>1, StillRest
<1>4. CASE NativeSubmit \/ NativeForward \/ NativeArrives
  <2>1. Frame /\ at' = at
    BY <1>4 DEF NativeSubmit, NativeForward, NativeArrives, Frame, Foreign, Gone, holdVars, serviceVars
  <2> QED BY <2>1, StillRest
<1>5. CASE Deadline
  <2>1. Frame /\ at' = at BY <1>5 DEF Deadline, Frame, Foreign, Gone, backendVars, holdVars
  <2> QED BY <2>1, StillRest
<1>6. CASE (UnitStarts \/ UnitEnds \/ AuthorityExpires \/ Render) /\ UNCHANGED serviceVars
  <2>1. Foreign => Foreign'
    <3>1. CASE UnitStarts
      <4>1. unit'.for = unit.for /\ ~Gone BY <1>0, <3>1 DEF UnitStarts, BackendTypeOK, Gone
      <4> QED BY <4>1 DEF Foreign
    <3>2. CASE UnitEnds
      <4> QED BY <3>2 DEF UnitEnds, Foreign, Gone, NoUnit
    <3>3. CASE AuthorityExpires \/ Render
      <4> QED BY <3>3 DEF AuthorityExpires, Render, Foreign, Gone
    <3> QED BY <1>6, <3>1, <3>2, <3>3
  <2>2. Frame /\ at' = at
    BY <1>6, <2>1 DEF UnitStarts, UnitEnds, AuthorityExpires, Render, Frame, holdVars, serviceVars
  <2> QED BY <2>2, StillRest
<1>7. CASE OtherHolds /\ UNCHANGED serviceVars
  <2>1. lease \in {NoAct, Other} /\ lease' \in {NoAct, Other} BY <1>7 DEF OtherHolds
  <2>2. ~Mine(lease) /\ ~Mine(lease)' BY <2>1 DEF Mine
  <2>3. NoAct \notin grants /\ Other \notin grants
    <3>1. acts \in Nat BY BackendAssumption DEF TypeOK, Act
    <3> QED BY <1>0, <3>1 DEF Asleep, NoAct, Other
  <2>4. grant.st = "none" BY <1>0, <2>1, <2>3 DEF Asleep
  <2>5. Asleep' BY <1>0, <1>7, <2>4 DEF OtherHolds, Asleep, serviceVars, rt
  <2>6. Foreign /\ sup.pc # "persist" /\ sup.pc # "start" BY <1>0, <2>2 DEF OwnInv
  <2>7. sup.pc \in Chain => sup.snap.act \in grants BY <1>0, <2>2 DEF OwnInv
  <2>8. Foreign' /\ sup' = sup /\ svc' = svc /\ acts' = acts
    BY <1>7, <2>6 DEF OtherHolds, Foreign, Gone, serviceVars, sup
  <2>9. OwnInv' BY <1>0, <2>2, <2>6, <2>7, <2>8 DEF OwnInv, Known, Mine
  <2>10. AtJob' /\ AtResult' BY <2>8 DEF Rest, AtJob, AtResult
  <2> QED BY <2>5, <2>9, <2>10 DEF Rest
<1> QED BY <1>1, <1>2, <1>3, <1>4, <1>5, <1>6, <1>7 DEF Serve, Surroundings

\* A reservation of the runtime owns the GPU: nothing of the service's own runs.
LEMMA GrantedForeign ==
    ASSUME TypeOK, Rest, rt.pc # "sleep"
    PROVE  /\ grant.st # "none" /\ lease = grant.act /\ grant.act \in grants /\ ~Mine(lease) /\ Foreign
           /\ sup.pc \notin {"persist", "start"} /\ (sup.pc \in Chain => sup.snap.act \in grants)
BY DEF Rest, Asleep, OwnInv, Mine

\* The runtime's step: it keeps the claim, or gives it up and sleeps.
LEMMA RtRest ==
    ASSUME TypeOK, Rest, rt.pc # "sleep", at'["sup"] = at["sup"], grants' = grants, acts' = acts,
           Foreign', Known(svc)',
           \/ lease' = lease /\ grant'.act = grant.act /\ grant'.st # "none" /\ at'["rt"].pc # "sleep"
           \/ lease' = NoAct /\ grant' = NoGrant /\ at'["rt"].pc = "sleep"
    PROVE  Rest'
<1>1. /\ lease = grant.act /\ grant.act \in grants /\ ~Mine(lease) /\ sup.pc \notin {"persist", "start"}
      /\ sup.pc \in Chain => sup.snap.act \in grants
  BY GrantedForeign
<1>2. Asleep /\ OwnInv /\ sup' = sup BY DEF Rest, sup
<1>3. Asleep' BY <1>1, <1>2 DEF Asleep, NoGrant, rt
<1>4. ~Mine(lease)' BY <1>1 DEF Mine
<1>5. Known(sup.snap)' BY <1>2 DEF OwnInv, Known
<1>6. OwnInv' BY <1>1, <1>2, <1>4, <1>5 DEF OwnInv, Mine
<1>7. AtJob' /\ AtResult' BY <1>2 DEF Rest, AtJob, AtResult
<1> QED BY <1>3, <1>6, <1>7 DEF Rest

\* Where the runtime goes.
LEMMA RtGotoAt ==
    ASSUME TypeOK, NEW x \in Places, Goto("rt", x) PROVE at'["sup"] = at["sup"] /\ at'["rt"].pc = x
BY GotoSet DEF Proc
\* The same with a copy.
LEMMA RtGotoWithAt ==
    ASSUME TypeOK, NEW x \in Places, NEW s \in Service, GotoWith("rt", x, s)
    PROVE  at'["sup"] = at["sup"] /\ at'["rt"].pc = x
BY GotoWithSet DEF Proc
\* A turn of the monitor.
LEMMA TurnAt ==
    ASSUME TypeOK, NEW x \in Places, NEW r, Turn(x, r) PROVE at'["sup"] = at["sup"] /\ at'["rt"].pc = x
BY DEF Turn, TypeOK, Proc, Start0

\* A record that keeps its lease and activation.
LEMMA SameKnown ==
    ASSUME Rest, svc'.lease = svc.lease, svc'.act = svc.act, grants' = grants, acts' = acts PROVE Known(svc)'
BY DEF Rest, OwnInv, Known
\* A record that was emptied.
LEMMA EmptyKnownNext ==
    ASSUME TypeOK, Rest, svc' = NoService, grants' = grants, acts' = acts PROVE Known(svc)'
BY EmptyKnown DEF TypeOK, Rest, Known

\* Every step of the runtime beside the receiver.
LEMMA BridgeRest ==
    ASSUME TypeOK, Rest, Bridge PROVE Rest'
<1>0. /\ svc \in Service /\ BackendTypeOK /\ rt = at["rt"] /\ at \in [Proc -> Control] /\ Proc = {"sup", "rt"}
      /\ Asleep /\ OwnInv /\ acts \in Nat
  <2>1. acts \in Nat BY BackendAssumption DEF TypeOK, Act
  <2> QED BY <2>1 DEF TypeOK, rt, Proc, Rest
<1>g. grant \in Grants BY <1>0, GrantFields
<1>n. NoGrant.st = "none" BY DEF NoGrant
<1>m. ASSUME NEW m \in {"interactive", "managed"}, Grant(m) PROVE Rest'
  <2>1. lease = NoAct /\ acts' = acts + 1 /\ grants' = grants \cup {acts + 1} /\ lease' = acts + 1
    BY <1>m DEF Grant
  <2>2. /\ grant'.act = acts + 1 /\ grant'.st # "none" /\ svc' = svc /\ unit' = unit
    BY <1>m, <2>1 DEF Grant, NoGrant
  <2>3. at'["sup"] = at["sup"] /\ at'["rt"].pc = "begin"
    <3>1. "begin" \in Places BY DEF Places
    <3> QED BY <1>m, <3>1, RtGotoAt DEF Grant, RtGoto
  <2>4. grants' \subseteq 1 .. acts'
    <3>1. \A x \in 1 .. acts : x \in 1 .. (acts + 1) BY <1>0
    <3>2. acts + 1 \in 1 .. (acts + 1) BY <1>0
    <3> QED BY <1>0, <2>1, <3>1, <3>2 DEF Asleep
  <2>5. Asleep' BY <2>1, <2>2, <2>3, <2>4 DEF Asleep, rt
  <2>6. ~Mine(lease) /\ ~Mine(lease)' BY <2>1 DEF Mine
  <2>7. Foreign /\ sup.pc \notin {"persist", "start"} /\ (sup.pc \in Chain => sup.snap.act \in grants)
    BY <1>0, <2>6 DEF OwnInv
  <2>8. Foreign' /\ sup' = sup BY <2>1, <2>2, <2>3, <2>7 DEF Foreign, Gone, sup
  <2>9. \A x \in 0 .. acts : x \in 0 .. (acts + 1) /\ x # acts + 1 BY <1>0
  <2>10. Known(svc)' /\ Known(sup.snap)'
    BY <1>0, <2>1, <2>2, <2>8, <2>9 DEF OwnInv, Known
  <2>11. Mine(sup.snap.act) => Mine(sup.snap.act)'
    BY <1>0, <2>1, <2>8, <2>9 DEF OwnInv, Known, Mine
  <2>12. OwnInv' BY <1>0, <2>1, <2>6, <2>7, <2>8, <2>10, <2>11 DEF OwnInv
  <2>13. AtJob' /\ AtResult' BY <2>8 DEF Rest, AtJob, AtResult
  <2> QED BY <2>5, <2>12, <2>13 DEF Rest
<1>1. CASE EffectStarts
  <2>1. rt.pc # "sleep" BY <1>0, <1>1 DEF EffectStarts
  <2>2. /\ grant.st # "none" /\ lease = grant.act /\ grant.act \in grants /\ Foreign BY <2>1, GrantedForeign
  <2>3. at'["sup"] = at["sup"] /\ at'["rt"].pc \in {"shared", "sleep"}
    <3>1. {"shared", "sleep"} \subseteq Places BY DEF Places
    <3> QED BY <1>0, <1>1, <3>1, RtGotoAt DEF EffectStarts, RtGoto
  <2>4. \/ lease' = lease /\ grant'.act = grant.act /\ grant'.st # "none" /\ at'["rt"].pc # "sleep"
        \/ lease' = NoAct /\ grant' = NoGrant /\ at'["rt"].pc = "sleep"
    <3>1. CASE RtGoto("shared") /\ UNCHANGED <<lease, grant>>
      <4>1. "shared" \in Places BY DEF Places
      <4> QED BY <2>2, <3>1, <4>1, RtGotoAt DEF RtGoto
    <3>2. CASE RtGoto("sleep") /\ lease' = NoAct /\ grant' = NoGrant
      <4>1. "sleep" \in Places BY DEF Places
      <4> QED BY <3>2, <4>1, RtGotoAt DEF RtGoto
    <3> QED BY <1>1, <3>1, <3>2 DEF EffectStarts
  <2>5. Foreign' /\ grants' = grants /\ acts' = acts BY <1>0, <1>1, <2>2 DEF EffectStarts, Foreign, Gone
  <2>6. Known(svc)'
    <3>1. svc'.lease = svc.lease /\ svc'.act = svc.act BY <1>0, <1>1 DEF EffectStarts
    <3> QED BY <2>5, <3>1, SameKnown
  <2> QED BY <2>1, <2>3, <2>4, <2>5, <2>6, RtRest
<1>2. CASE SharedBegin
  <2>1. rt.pc # "sleep" BY <1>0, <1>2 DEF SharedBegin
  <2>2. /\ grant.st # "none" /\ lease = grant.act /\ grant.act \in grants /\ Foreign BY <2>1, GrantedForeign
  <2>3. at'["sup"] = at["sup"] /\ at'["rt"].pc \in {"start"}
    <3>1. {"start"} \subseteq Places BY DEF Places
    <3> QED BY <1>0, <1>2, <3>1, RtGotoAt DEF SharedBegin, RtGoto
  <2>4. lease' = lease /\ grant'.act = grant.act /\ grant'.st # "none" /\ at'["rt"].pc # "sleep"
    BY <1>0, <1>g, <1>2, <2>2, <2>3 DEF SharedBegin, Grants, backendVars, holdVars
  <2>5. Foreign' /\ grants' = grants /\ acts' = acts BY <1>0, <1>2, <2>2 DEF SharedBegin, Foreign, Gone, backendVars, holdVars
  <2>6. Known(svc)'
    <3>1. svc'.lease = grant.act /\ svc'.act = grant.act
      <4>1. PICK s \in Session \cup {NoSession} :
               svc' = [NoService EXCEPT !.state = "starting", !.mode = grant.mode, !.act = grant.act,
                                        !.lease = grant.act, !.session = s]
        BY <1>2 DEF SharedBegin
      <4> QED BY <4>1 DEF NoService
    <3>2. \A x \in 1 .. acts : x \in 0 .. acts BY <1>0
    <3>3. grant.act \in 0 .. acts BY <1>0, <2>2, <3>2 DEF Asleep
    <3> QED BY <2>2, <2>5, <3>1, <3>3 DEF Known
  <2> QED BY <2>1, <2>3, <2>4, <2>5, <2>6, RtRest
<1>3. CASE SharedRefused
  <2>1. rt.pc # "sleep" BY <1>0, <1>3 DEF SharedRefused
  <2>2. /\ grant.st # "none" /\ lease = grant.act /\ grant.act \in grants /\ Foreign BY <2>1, GrantedForeign
  <2>3. at'["sup"] = at["sup"] /\ at'["rt"].pc \in {"failed"}
    <3>1. {"failed"} \subseteq Places BY DEF Places
    <3> QED BY <1>0, <1>3, <3>1, RtGotoAt DEF SharedRefused, RtGoto
  <2>4. lease' = lease /\ grant'.act = grant.act /\ grant'.st # "none" /\ at'["rt"].pc # "sleep"
    BY <1>0, <1>g, <1>3, <2>2, <2>3 DEF SharedRefused, Grants, backendVars, holdVars
  <2>5. Foreign' /\ grants' = grants /\ acts' = acts BY <1>0, <1>3, <2>2 DEF SharedRefused, Foreign, Gone, backendVars
  <2>6. Known(svc)'
    <3>1. svc'.lease = svc.lease /\ svc'.act = svc.act BY <1>0, <1>3 DEF SharedRefused
    <3> QED BY <2>5, <3>1, SameKnown
  <2> QED BY <2>1, <2>3, <2>4, <2>5, <2>6, RtRest
<1>4. CASE Started
  <2>1. rt.pc # "sleep" BY <1>0, <1>4 DEF Started
  <2>2. /\ grant.st # "none" /\ lease = grant.act /\ grant.act \in grants /\ Foreign BY <2>1, GrantedForeign
  <2>3. at'["sup"] = at["sup"] /\ at'["rt"].pc \in {"again", "failed"}
    <3>1. {"again", "failed"} \subseteq Places BY DEF Places
    <3> QED BY <1>0, <1>4, <3>1, RtGotoAt DEF Started, RtGoto
  <2>4. lease' = lease /\ grant'.act = grant.act /\ grant'.st # "none" /\ at'["rt"].pc # "sleep"
    BY <1>0, <1>g, <1>4, <2>2, <2>3 DEF Started, Grants
  <2>5. Foreign' /\ grants' = grants /\ acts' = acts BY <1>0, <1>4, <2>2 DEF Started, Foreign, Gone
  <2>6. Known(svc)'
    <3>1. svc'.lease = svc.lease /\ svc'.act = svc.act BY <1>0, <1>4 DEF Started
    <3> QED BY <2>5, <3>1, SameKnown
  <2> QED BY <2>1, <2>3, <2>4, <2>5, <2>6, RtRest
<1>5. CASE Monitor
  <2>1. rt.pc # "sleep" BY <1>0, <1>5 DEF Monitor
  <2>2. /\ grant.st # "none" /\ lease = grant.act /\ grant.act \in grants /\ Foreign BY <2>1, GrantedForeign
  <2>3. at'["sup"] = at["sup"] /\ at'["rt"].pc \in {"failed", "observe", "check"}
    <3>1. {"failed", "observe", "check"} \subseteq Places BY DEF Places
    <3> QED BY <1>0, <1>5, <3>1, TurnAt DEF Monitor, Rest
  <2>4. lease' = lease /\ grant'.act = grant.act /\ grant'.st # "none" /\ at'["rt"].pc # "sleep"
    BY <1>0, <1>g, <1>5, <2>2, <2>3 DEF Monitor, Grants, backendVars, holdVars
  <2>5. Foreign' /\ grants' = grants /\ acts' = acts BY <1>0, <1>5, <2>2 DEF Monitor, Foreign, Gone, backendVars
  <2>6. Known(svc)'
    <3>1. svc'.lease = svc.lease /\ svc'.act = svc.act BY <1>0, <1>5 DEF Monitor
    <3> QED BY <2>5, <3>1, SameKnown
  <2> QED BY <2>1, <2>3, <2>4, <2>5, <2>6, RtRest
<1>6. CASE ReadyCommit
  <2>1. rt.pc # "sleep" BY <1>0, <1>6 DEF ReadyCommit
  <2>2. /\ grant.st # "none" /\ lease = grant.act /\ grant.act \in grants /\ Foreign BY <2>1, GrantedForeign
  <2>3. at'["sup"] = at["sup"] /\ at'["rt"].pc \in {"again", "failed"}
    <3>1. {"again", "failed"} \subseteq Places BY DEF Places
    <3> QED BY <1>0, <1>6, <3>1, RtGotoAt DEF ReadyCommit, RtGoto
  <2>4. lease' = lease /\ grant'.act = grant.act /\ grant'.st # "none" /\ at'["rt"].pc # "sleep"
    BY <1>0, <1>g, <1>6, <2>2, <2>3 DEF ReadyCommit, Grants
  <2>5. Foreign' /\ grants' = grants /\ acts' = acts BY <1>0, <1>6, <2>2 DEF ReadyCommit, Foreign, Gone
  <2>6. Known(svc)'
    <3>1. svc'.lease = svc.lease /\ svc'.act = svc.act BY <1>0, <1>6 DEF ReadyCommit
    <3> QED BY <2>5, <3>1, SameKnown
  <2> QED BY <2>1, <2>3, <2>4, <2>5, <2>6, RtRest
<1>7. CASE RestartSeen
  <2>1. rt.pc # "sleep" BY <1>0, <1>7 DEF RestartSeen
  <2>2. /\ grant.st # "none" /\ lease = grant.act /\ grant.act \in grants /\ Foreign BY <2>1, GrantedForeign
  <2>3. at'["sup"] = at["sup"] /\ at'["rt"].pc \in {"again"}
    <3>1. {"again"} \subseteq Places BY DEF Places
    <3> QED BY <1>0, <1>7, <3>1, RtGotoAt DEF RestartSeen, RtGoto
  <2>4. lease' = lease /\ grant'.act = grant.act /\ grant'.st # "none" /\ at'["rt"].pc # "sleep"
    BY <1>0, <1>g, <1>7, <2>2, <2>3 DEF RestartSeen, Grants
  <2>5. Foreign' /\ grants' = grants /\ acts' = acts BY <1>0, <1>7, <2>2 DEF RestartSeen, Foreign, Gone
  <2>6. Known(svc)'
    <3>1. svc'.lease = svc.lease /\ svc'.act = svc.act BY <1>0, <1>7 DEF RestartSeen
    <3> QED BY <2>5, <3>1, SameKnown
  <2> QED BY <2>1, <2>3, <2>4, <2>5, <2>6, RtRest
<1>8. CASE GiveUp
  <2>1. rt.pc # "sleep" BY <1>0, <1>8 DEF GiveUp
  <2>2. /\ grant.st # "none" /\ lease = grant.act /\ grant.act \in grants /\ Foreign BY <2>1, GrantedForeign
  <2>3. at'["sup"] = at["sup"] /\ at'["rt"].pc \in {"again"}
    <3>1. {"again"} \subseteq Places BY DEF Places
    <3> QED BY <1>0, <1>8, <3>1, RtGotoAt DEF GiveUp, RtGoto
  <2>4. lease' = lease /\ grant'.act = grant.act /\ grant'.st # "none" /\ at'["rt"].pc # "sleep"
    BY <1>0, <1>g, <1>8, <2>2, <2>3 DEF GiveUp, Grants
  <2>5. Foreign' /\ grants' = grants /\ acts' = acts BY <1>0, <1>8, <2>2 DEF GiveUp, Foreign, Gone
  <2>6. Known(svc)'
    <3>1. svc'.lease = svc.lease /\ svc'.act = svc.act BY <1>0, <1>8 DEF GiveUp
    <3> QED BY <2>5, <3>1, SameKnown
  <2> QED BY <2>1, <2>3, <2>4, <2>5, <2>6, RtRest
<1>9. CASE ReconcileAbsent
  <2>1. rt.pc # "sleep" BY <1>0, <1>9 DEF ReconcileAbsent
  <2>2. /\ grant.st # "none" /\ lease = grant.act /\ grant.act \in grants /\ Foreign BY <2>1, GrantedForeign
  <2>3. at'["sup"] = at["sup"] /\ at'["rt"].pc \in {"sleep"}
    <3>1. {"sleep"} \subseteq Places BY DEF Places
    <3> QED BY <1>0, <1>9, <3>1, RtGotoAt DEF ReconcileAbsent, RtGoto
  <2>4. lease' = NoAct /\ grant' = NoGrant /\ at'["rt"].pc = "sleep" BY <1>9, <2>3 DEF ReconcileAbsent
  <2>5. Foreign' /\ grants' = grants /\ acts' = acts BY <1>0, <1>9, <2>2 DEF ReconcileAbsent, Foreign, Gone
  <2>6. Known(svc)'
    <3>1. svc'.lease = svc.lease /\ svc'.act = svc.act BY <1>0, <1>9 DEF ReconcileAbsent
    <3> QED BY <2>5, <3>1, SameKnown
  <2> QED BY <2>1, <2>3, <2>4, <2>5, <2>6, RtRest
<1>10. CASE Stop
  <2>1. rt.pc # "sleep" BY <1>0, <1>10 DEF Stop
  <2>2. /\ grant.st # "none" /\ lease = grant.act /\ grant.act \in grants /\ Foreign BY <2>1, GrantedForeign
  <2>3. at'["sup"] = at["sup"] /\ at'["rt"].pc \in {"sleep", "failed", "stopping", "drain"}
    <3>1. {"sleep", "failed", "stopping", "drain"} \subseteq Places BY DEF Places
    <3> QED BY <1>0, <1>10, <3>1, RtGotoAt, TurnAt DEF Stop, RtGoto
  <2>4. \/ lease' = lease /\ grant'.act = grant.act /\ grant'.st # "none" /\ at'["rt"].pc # "sleep"
        \/ lease' = NoAct /\ grant' = NoGrant /\ at'["rt"].pc = "sleep"
    <3>1. CASE RtGoto("sleep") /\ lease' = NoAct /\ grant' = NoGrant
      <4>1. "sleep" \in Places BY DEF Places
      <4> QED BY <3>1, <4>1, RtGotoAt DEF RtGoto
    <3>2. CASE UNCHANGED <<lease, grant>> /\ (Turn("failed", "stop") \/ Turn("stopping", "stop") \/ Turn("drain", "stop"))
      <4>1. {"failed", "stopping", "drain"} \subseteq Places BY DEF Places
      <4> QED BY <2>2, <3>2, <4>1, TurnAt
    <3> QED BY <1>10, <3>1, <3>2 DEF Stop
  <2>5. Foreign' /\ grants' = grants /\ acts' = acts BY <1>0, <1>10, <2>2 DEF Stop, Foreign, Gone
  <2>6. Known(svc)'
    <3>1. svc'.lease = svc.lease /\ svc'.act = svc.act BY <1>0, <1>10 DEF Stop
    <3> QED BY <2>5, <3>1, SameKnown
  <2> QED BY <2>1, <2>3, <2>4, <2>5, <2>6, RtRest
<1>11. CASE RetireStopped
  <2>1. rt.pc # "sleep" BY <1>0, <1>11 DEF RetireStopped, Watched
  <2>2. /\ grant.st # "none" /\ lease = grant.act /\ grant.act \in grants /\ Foreign BY <2>1, GrantedForeign
  <2>3. at'["sup"] = at["sup"] /\ at'["rt"].pc \in {"sleep", "stopping"}
    <3>1. {"sleep", "stopping"} \subseteq Places BY DEF Places
    <3> QED BY <1>0, <1>11, <3>1, RtGotoAt, TurnAt DEF RetireStopped, RtGoto
  <2>4. \/ lease' = lease /\ grant'.act = grant.act /\ grant'.st # "none" /\ at'["rt"].pc # "sleep"
        \/ lease' = NoAct /\ grant' = NoGrant /\ at'["rt"].pc = "sleep"
    <3>1. CASE RtGoto("sleep") /\ lease' = NoAct /\ grant' = NoGrant
      <4>1. "sleep" \in Places BY DEF Places
      <4> QED BY <3>1, <4>1, RtGotoAt DEF RtGoto
    <3>2. CASE UNCHANGED <<lease, grant>> /\ (Turn("stopping", "watch"))
      <4>1. {"stopping"} \subseteq Places BY DEF Places
      <4> QED BY <2>2, <3>2, <4>1, TurnAt
    <3> QED BY <1>11, <3>1, <3>2 DEF RetireStopped
  <2>5. Foreign' /\ grants' = grants /\ acts' = acts BY <1>0, <1>11, <2>2 DEF RetireStopped, Foreign, Gone
  <2>6. Known(svc)'
    <3>1. svc'.lease = svc.lease /\ svc'.act = svc.act BY <1>0, <1>11 DEF RetireStopped
    <3> QED BY <2>5, <3>1, SameKnown
  <2> QED BY <2>1, <2>3, <2>4, <2>5, <2>6, RtRest
<1>12. CASE Advance
  <2>1. rt.pc # "sleep" BY <1>0, <1>12 DEF Advance, Watched
  <2>2. /\ grant.st # "none" /\ lease = grant.act /\ grant.act \in grants /\ Foreign BY <2>1, GrantedForeign
  <2>3. at'["sup"] = at["sup"] /\ at'["rt"].pc \in {"stopreq", "again"}
    <3>1. {"stopreq", "again"} \subseteq Places BY DEF Places
    <3> QED BY <1>0, <1>12, <3>1, RtGotoAt, TurnAt DEF Advance, RtGoto
  <2>4. lease' = lease /\ grant'.act = grant.act /\ grant'.st # "none" /\ at'["rt"].pc # "sleep"
    BY <1>0, <1>g, <1>12, <2>2, <2>3 DEF Advance, Grants
  <2>5. Foreign' /\ grants' = grants /\ acts' = acts BY <1>0, <1>12, <2>2 DEF Advance, Foreign, Gone
  <2>6. Known(svc)'
    <3>1. svc'.lease = svc.lease /\ svc'.act = svc.act BY <1>0, <1>12 DEF Advance, Service
    <3> QED BY <2>5, <3>1, SameKnown
  <2> QED BY <2>1, <2>3, <2>4, <2>5, <2>6, RtRest
<1>13. CASE Cleanup
  <2>1. rt.pc # "sleep" BY <1>0, <1>13 DEF Cleanup
  <2>2. /\ grant.st # "none" /\ lease = grant.act /\ grant.act \in grants /\ Foreign BY <2>1, GrantedForeign
  <2>3. at'["sup"] = at["sup"] /\ at'["rt"].pc \in {"cstop"}
    <3>1. {"cstop"} \subseteq Places BY DEF Places
    <3> QED BY <1>0, <1>13, <3>1, RtGotoAt DEF Cleanup, Control
  <2>4. lease' = lease /\ grant'.act = grant.act /\ grant'.st # "none" /\ at'["rt"].pc # "sleep"
    BY <1>0, <1>g, <1>13, <2>2, <2>3 DEF Cleanup, Grants, holdVars
  <2>5. Foreign' /\ grants' = grants /\ acts' = acts BY <1>0, <1>13, <2>2 DEF Cleanup, Foreign, Gone, holdVars
  <2>6. Known(svc)'
    <3>1. svc'.lease = svc.lease /\ svc'.act = svc.act BY <1>0, <1>13 DEF Cleanup, Service
    <3> QED BY <2>5, <3>1, SameKnown
  <2> QED BY <2>1, <2>3, <2>4, <2>5, <2>6, RtRest
<1>14. CASE CleanupStop
  <2>1. rt.pc # "sleep" BY <1>0, <1>14 DEF CleanupStop
  <2>2. /\ grant.st # "none" /\ lease = grant.act /\ grant.act \in grants /\ Foreign BY <2>1, GrantedForeign
  <2>3. at'["sup"] = at["sup"] /\ at'["rt"].pc \in {"again", "cwait"}
    <3>1. {"again", "cwait"} \subseteq Places BY DEF Places
    <3> QED BY <1>0, <1>14, <3>1, RtGotoAt DEF CleanupStop, RtGoto
  <2>4. lease' = lease /\ grant'.act = grant.act /\ grant'.st # "none" /\ at'["rt"].pc # "sleep"
    BY <1>0, <1>g, <1>14, <2>2, <2>3 DEF CleanupStop, Grants, holdVars
  <2>5. Foreign' /\ grants' = grants /\ acts' = acts BY <1>0, <1>14, <2>2 DEF CleanupStop, Foreign, Gone, StopUnit, BackendTypeOK
  <2>6. Known(svc)'
    <3>1. svc'.lease = svc.lease /\ svc'.act = svc.act BY <1>0, <1>14 DEF CleanupStop
    <3> QED BY <2>5, <3>1, SameKnown
  <2> QED BY <2>1, <2>3, <2>4, <2>5, <2>6, RtRest
<1>15. CASE CleanupPurge
  <2>1. rt.pc # "sleep" BY <1>0, <1>15 DEF CleanupPurge
  <2>2. /\ grant.st # "none" /\ lease = grant.act /\ grant.act \in grants /\ Foreign BY <2>1, GrantedForeign
  <2>3. at'["sup"] = at["sup"] /\ at'["rt"].pc \in {"again", "cdone"}
    <3>1. {"again", "cdone"} \subseteq Places BY DEF Places
    <3> QED BY <1>0, <1>15, <3>1, RtGotoAt DEF CleanupPurge, RtGoto
  <2>4. lease' = lease /\ grant'.act = grant.act /\ grant'.st # "none" /\ at'["rt"].pc # "sleep"
    BY <1>0, <1>g, <1>15, <2>2, <2>3 DEF CleanupPurge, Grants, holdVars
  <2>5. Foreign' /\ grants' = grants /\ acts' = acts BY <1>0, <1>15, <2>2 DEF CleanupPurge, Foreign, Gone
  <2>6. Known(svc)'
    <3>1. svc'.lease = svc.lease /\ svc'.act = svc.act BY <1>0, <1>15 DEF CleanupPurge
    <3> QED BY <2>5, <3>1, SameKnown
  <2> QED BY <2>1, <2>3, <2>4, <2>5, <2>6, RtRest
<1>16. CASE CleanupDone
  <2>1. rt.pc # "sleep" BY <1>0, <1>16 DEF CleanupDone
  <2>2. /\ grant.st # "none" /\ lease = grant.act /\ grant.act \in grants /\ Foreign BY <2>1, GrantedForeign
  <2>3. at'["sup"] = at["sup"] /\ at'["rt"].pc \in {"again", "cfree"}
    <3>1. {"again", "cfree"} \subseteq Places BY DEF Places
    <3> QED BY <1>0, <1>16, <3>1, RtGotoAt DEF CleanupDone, RtGoto
  <2>4. lease' = lease /\ grant'.act = grant.act /\ grant'.st # "none" /\ at'["rt"].pc # "sleep"
    BY <1>0, <1>g, <1>16, <2>2, <2>3 DEF CleanupDone, Grants, backendVars, holdVars
  <2>5. Foreign' /\ grants' = grants /\ acts' = acts BY <1>0, <1>16, <2>2 DEF CleanupDone, Foreign, Gone, backendVars
  <2>6. Known(svc)'
    <3>1. svc' = NoService \/ svc' = svc BY <1>16 DEF CleanupDone
    <3> QED BY <2>5, <3>1, SameKnown, EmptyKnownNext
  <2> QED BY <2>1, <2>3, <2>4, <2>5, <2>6, RtRest
<1>17. CASE Reconciled
  <2>1. rt.pc # "sleep" BY <1>0, <1>17 DEF Reconciled
  <2>2. /\ grant.st # "none" /\ lease = grant.act /\ grant.act \in grants /\ Foreign BY <2>1, GrantedForeign
  <2>3. at'["sup"] = at["sup"] /\ at'["rt"].pc \in {"sleep"}
    <3>1. {"sleep"} \subseteq Places BY DEF Places
    <3> QED BY <1>0, <1>17, <3>1, RtGotoAt DEF Reconciled, RtGoto
  <2>4. lease' = NoAct /\ grant' = NoGrant /\ at'["rt"].pc = "sleep" BY <1>17, <2>3 DEF Reconciled
  <2>5. Foreign' /\ grants' = grants /\ acts' = acts BY <1>0, <1>17, <2>2 DEF Reconciled, Foreign, Gone
  <2>6. Known(svc)'
    <3>1. svc'.lease = svc.lease /\ svc'.act = svc.act BY <1>0, <1>17 DEF Reconciled
    <3> QED BY <2>5, <3>1, SameKnown
  <2> QED BY <2>1, <2>3, <2>4, <2>5, <2>6, RtRest
<1>18. CASE RtCrash
  <2>1. rt.pc # "sleep" BY <1>0, <1>18 DEF RtCrash
  <2>2. /\ grant.st # "none" /\ lease = grant.act /\ grant.act \in grants /\ Foreign BY <2>1, GrantedForeign
  <2>3. at'["sup"] = at["sup"] /\ at'["rt"].pc \in {"begin", "again"}
    <3>1. {"begin", "again"} \subseteq Places BY DEF Places
    <3> QED BY <1>0, <1>18, <3>1, RtGotoAt DEF RtCrash, RtGoto
  <2>4. lease' = lease /\ grant'.act = grant.act /\ grant'.st # "none" /\ at'["rt"].pc # "sleep"
    BY <1>0, <1>g, <1>18, <2>2, <2>3 DEF RtCrash, Grants
  <2>5. Foreign' /\ grants' = grants /\ acts' = acts BY <1>0, <1>18, <2>2 DEF RtCrash, Foreign, Gone
  <2>6. Known(svc)'
    <3>1. svc'.lease = svc.lease /\ svc'.act = svc.act BY <1>0, <1>18 DEF RtCrash
    <3> QED BY <2>5, <3>1, SameKnown
  <2> QED BY <2>1, <2>3, <2>4, <2>5, <2>6, RtRest
<1>19. CASE ReleaseGrant
  <2>1. rt.pc # "sleep" BY <1>0, <1>19 DEF ReleaseGrant, Asleep
  <2>2. /\ grant.st # "none" /\ lease = grant.act /\ Foreign BY <2>1, GrantedForeign
  <2>3. at' = at /\ grants' = grants /\ acts' = acts /\ svc' = svc /\ lease' = lease
    BY <1>19 DEF ReleaseGrant, serviceVars
  <2>4. grant'.act = grant.act /\ grant'.st # "none" BY <1>g, <1>19 DEF ReleaseGrant, Grants
  <2>5. Foreign' BY <1>19, <2>2 DEF ReleaseGrant, Foreign, Gone
  <2>6. Known(svc)' BY <2>3, SameKnown
  <2> QED BY <1>0, <2>1, <2>3, <2>4, <2>5, <2>6, RtRest DEF rt
<1>20. CASE RtUnlock
  <2>1. Frame /\ at' = at BY <1>20 DEF RtUnlock, Frame, Foreign, Gone, backendVars, holdVars
  <2> QED BY <2>1, StillRest
<1>l. {"exec", "again"} \subseteq Places /\ After("rt") = "again" BY DEF Places, After
<1>21. CASE Observe("rt") /\ UNCHANGED grants
  <2>1. rt.pc # "sleep" BY <1>0, <1>21 DEF Observe
  <2>2. /\ grant.st # "none" /\ lease = grant.act /\ grant.act \in grants /\ Foreign BY <2>1, GrantedForeign
  <2>3. at'["sup"] = at["sup"] /\ at'["rt"].pc \in {"adopt"}
    <3>1. {"adopt"} \subseteq Places BY DEF Places
    <3> QED BY <1>0, <1>21, <3>1, <1>l, RtGotoWithAt DEF Observe, After
  <2>4. lease' = lease /\ grant'.act = grant.act /\ grant'.st # "none" /\ at'["rt"].pc # "sleep"
    BY <1>0, <1>g, <1>21, <2>2, <2>3 DEF Observe, Grants, holdVars
  <2>5. Foreign' /\ grants' = grants /\ acts' = acts BY <1>0, <1>21, <2>2 DEF Observe, Foreign, Gone
  <2>6. Known(svc)'
    <3>1. svc'.lease = svc.lease /\ svc'.act = svc.act BY <1>0, <1>21 DEF Observe
    <3> QED BY <2>5, <3>1, SameKnown
  <2> QED BY <2>1, <2>3, <2>4, <2>5, <2>6, RtRest
<1>22. CASE Adopt("rt") /\ UNCHANGED grants
  <2>1. rt.pc # "sleep" BY <1>0, <1>22 DEF Adopt
  <2>2. /\ grant.st # "none" /\ lease = grant.act /\ grant.act \in grants /\ Foreign BY <2>1, GrantedForeign
  <2>3. at'["sup"] = at["sup"] /\ at'["rt"].pc \in {"verify", "failed"}
    <3>1. {"verify", "failed"} \subseteq Places BY DEF Places
    <3> QED BY <1>0, <1>22, <3>1, <1>l, RtGotoAt DEF Adopt, After
  <2>4. lease' = lease /\ grant'.act = grant.act /\ grant'.st # "none" /\ at'["rt"].pc # "sleep"
    BY <1>0, <1>g, <1>22, <2>2, <2>3 DEF Adopt, Grants, backendVars, holdVars
  <2>5. Foreign' /\ grants' = grants /\ acts' = acts BY <1>0, <1>22, <2>2 DEF Adopt, Foreign, Gone, backendVars
  <2>6. Known(svc)'
    <3>1. svc'.lease = svc.lease /\ svc'.act = svc.act BY <1>0, <1>22 DEF Adopt, Service
    <3> QED BY <2>5, <3>1, SameKnown
  <2> QED BY <2>1, <2>3, <2>4, <2>5, <2>6, RtRest
<1>23. CASE StartupVerify("rt") /\ UNCHANGED grants
  <2>1. rt.pc # "sleep" BY <1>0, <1>23 DEF StartupVerify
  <2>2. /\ grant.st # "none" /\ lease = grant.act /\ grant.act \in grants /\ Foreign BY <2>1, GrantedForeign
  <2>3. at'["sup"] = at["sup"] /\ at'["rt"].pc \in {"again", "open", "stopreq"}
    <3>1. {"again", "open", "stopreq"} \subseteq Places BY DEF Places
    <3> QED BY <1>0, <1>23, <3>1, <1>l, RtGotoAt, RtGotoWithAt DEF StartupVerify, After
  <2>4. lease' = lease /\ grant'.act = grant.act /\ grant'.st # "none" /\ at'["rt"].pc # "sleep"
    BY <1>0, <1>g, <1>23, <2>2, <2>3 DEF StartupVerify, Grants, backendVars, holdVars
  <2>5. Foreign' /\ grants' = grants /\ acts' = acts BY <1>0, <1>23, <2>2 DEF StartupVerify, Foreign, Gone, backendVars
  <2>6. Known(svc)'
    <3>1. svc'.lease = svc.lease /\ svc'.act = svc.act BY <1>0, <1>23 DEF StartupVerify, Service
    <3> QED BY <2>5, <3>1, SameKnown
  <2> QED BY <2>1, <2>3, <2>4, <2>5, <2>6, RtRest
<1>24. CASE OpenGate("rt") /\ UNCHANGED grants
  <2>1. rt.pc # "sleep" BY <1>0, <1>24 DEF OpenGate
  <2>2. /\ grant.st # "none" /\ lease = grant.act /\ grant.act \in grants /\ Foreign BY <2>1, GrantedForeign
  <2>3. at'["sup"] = at["sup"] /\ at'["rt"].pc \in {"again", "failed"}
    <3>1. {"again", "failed"} \subseteq Places BY DEF Places
    <3> QED BY <1>0, <1>24, <3>1, <1>l, RtGotoAt DEF OpenGate, After
  <2>4. lease' = lease /\ grant'.act = grant.act /\ grant'.st # "none" /\ at'["rt"].pc # "sleep"
    BY <1>0, <1>g, <1>24, <2>2, <2>3 DEF OpenGate, Grants, holdVars
  <2>5. Foreign' /\ grants' = grants /\ acts' = acts BY <1>0, <1>24, <2>2 DEF OpenGate, Foreign, Gone
  <2>6. Known(svc)'
    <3>1. svc'.lease = svc.lease /\ svc'.act = svc.act BY <1>0, <1>24 DEF OpenGate, Service
    <3> QED BY <2>5, <3>1, SameKnown
  <2> QED BY <2>1, <2>3, <2>4, <2>5, <2>6, RtRest
<1>25. CASE Drain("rt") /\ UNCHANGED grants
  <2>1. rt.pc # "sleep" BY <1>0, <1>25 DEF Drain
  <2>2. /\ grant.st # "none" /\ lease = grant.act /\ grant.act \in grants /\ Foreign BY <2>1, GrantedForeign
  <2>3. at'["sup"] = at["sup"] /\ at'["rt"].pc \in {"halt", "again"}
    <3>1. {"halt", "again"} \subseteq Places BY DEF Places
    <3> QED BY <1>0, <1>25, <3>1, <1>l, RtGotoAt DEF Drain, After
  <2>4. lease' = lease /\ grant'.act = grant.act /\ grant'.st # "none" /\ at'["rt"].pc # "sleep"
    BY <1>0, <1>g, <1>25, <2>2, <2>3 DEF Drain, Grants, holdVars
  <2>5. Foreign' /\ grants' = grants /\ acts' = acts BY <1>0, <1>25, <2>2 DEF Drain, Foreign, Gone
  <2>6. Known(svc)'
    <3>1. svc'.lease = svc.lease /\ svc'.act = svc.act BY <1>0, <1>25 DEF Drain
    <3> QED BY <2>5, <3>1, SameKnown
  <2> QED BY <2>1, <2>3, <2>4, <2>5, <2>6, RtRest
<1>26. CASE Halt("rt") /\ UNCHANGED grants
  <2>1. rt.pc # "sleep" BY <1>0, <1>26 DEF Halt
  <2>2. /\ grant.st # "none" /\ lease = grant.act /\ grant.act \in grants /\ Foreign BY <2>1, GrantedForeign
  <2>3. at'["sup"] = at["sup"] /\ at'["rt"].pc \in {"stopreq"}
    <3>1. {"stopreq"} \subseteq Places BY DEF Places
    <3> QED BY <1>0, <1>26, <3>1, <1>l, RtGotoAt DEF Halt, After
  <2>4. lease' = lease /\ grant'.act = grant.act /\ grant'.st # "none" /\ at'["rt"].pc # "sleep"
    BY <1>0, <1>g, <1>26, <2>2, <2>3 DEF Halt, Grants, backendVars, holdVars
  <2>5. Foreign' /\ grants' = grants /\ acts' = acts BY <1>0, <1>26, <2>2 DEF Halt, Foreign, Gone, backendVars
  <2>6. Known(svc)'
    <3>1. svc'.lease = svc.lease /\ svc'.act = svc.act BY <1>0, <1>26 DEF Halt, Service
    <3> QED BY <2>5, <3>1, SameKnown
  <2> QED BY <2>1, <2>3, <2>4, <2>5, <2>6, RtRest
<1>27. CASE StopRequest("rt") /\ UNCHANGED grants
  <2>1. rt.pc # "sleep" BY <1>0, <1>27 DEF StopRequest
  <2>2. /\ grant.st # "none" /\ lease = grant.act /\ grant.act \in grants /\ Foreign BY <2>1, GrantedForeign
  <2>3. at'["sup"] = at["sup"] /\ at'["rt"].pc \in {"failed", "again"}
    <3>1. {"failed", "again"} \subseteq Places BY DEF Places
    <3> QED BY <1>0, <1>27, <3>1, <1>l, RtGotoAt DEF StopRequest, After
  <2>4. lease' = lease /\ grant'.act = grant.act /\ grant'.st # "none" /\ at'["rt"].pc # "sleep"
    BY <1>0, <1>g, <1>27, <2>2, <2>3 DEF StopRequest, Grants, holdVars
  <2>5. Foreign' /\ grants' = grants /\ acts' = acts BY <1>0, <1>27, <2>2 DEF StopRequest, Foreign, Gone, StopUnit, BackendTypeOK
  <2>6. Known(svc)'
    <3>1. svc'.lease = svc.lease /\ svc'.act = svc.act BY <1>0, <1>27 DEF StopRequest
    <3> QED BY <2>5, <3>1, SameKnown
  <2> QED BY <2>1, <2>3, <2>4, <2>5, <2>6, RtRest
<1>28. CASE Stopping("rt") /\ UNCHANGED grants
  <2>1. rt.pc # "sleep" BY <1>0, <1>28 DEF Stopping
  <2>2. /\ grant.st # "none" /\ lease = grant.act /\ grant.act \in grants /\ Foreign BY <2>1, GrantedForeign
  <2>3. at'["sup"] = at["sup"] /\ at'["rt"].pc \in {"reset", "again"}
    <3>1. {"reset", "again"} \subseteq Places BY DEF Places
    <3> QED BY <1>0, <1>28, <3>1, <1>l, RtGotoAt DEF Stopping, After
  <2>4. \/ lease' = lease /\ grant'.act = grant.act /\ grant'.st # "none" /\ at'["rt"].pc # "sleep"
        \/ lease' = NoAct /\ grant' = NoGrant /\ at'["rt"].pc = "sleep"
    <3>1. lease' = lease /\ grant' = grant BY <1>0, <1>28, <2>2 DEF Stopping, Release, Managed, holdVars, NoAct
    <3> QED BY <2>2, <2>3, <3>1
  <2>5. Foreign' /\ grants' = grants /\ acts' = acts BY <1>0, <1>28, <2>2 DEF Stopping, Foreign, Gone
  <2>6. Known(svc)'
    <3>1. svc'.lease = svc.lease /\ svc'.act = svc.act BY <1>0, <1>28 DEF Stopping
    <3> QED BY <2>5, <3>1, SameKnown
  <2> QED BY <2>1, <2>3, <2>4, <2>5, <2>6, RtRest
<1>29. CASE Reset("rt") /\ UNCHANGED grants
  <2>1. rt.pc # "sleep" BY <1>0, <1>29 DEF Reset
  <2>2. /\ grant.st # "none" /\ lease = grant.act /\ grant.act \in grants /\ Foreign BY <2>1, GrantedForeign
  <2>3. at'["sup"] = at["sup"] /\ at'["rt"].pc \in {"again"}
    <3>1. {"again"} \subseteq Places BY DEF Places
    <3> QED BY <1>0, <1>29, <3>1, <1>l, RtGotoAt DEF Reset, After
  <2>4. lease' = lease /\ grant'.act = grant.act /\ grant'.st # "none" /\ at'["rt"].pc # "sleep"
    BY <1>0, <1>g, <1>29, <2>2, <2>3 DEF Reset, Grants, backendVars, holdVars
  <2>5. Foreign' /\ grants' = grants /\ acts' = acts BY <1>0, <1>29, <2>2 DEF Reset, Foreign, Gone, backendVars
  <2>6. Known(svc)'
    <3>1. svc' = NoService BY <1>29 DEF Reset
    <3> QED BY <2>5, <3>1, EmptyKnownNext
  <2> QED BY <2>1, <2>3, <2>4, <2>5, <2>6, RtRest
<1>30. CASE Start("rt") /\ UNCHANGED grants
  <2>1. rt.pc # "sleep" BY <1>0, <1>30 DEF Start
  <2>2. /\ grant.st # "none" /\ lease = grant.act /\ grant.act \in grants /\ Foreign BY <2>1, GrantedForeign
  <2>3. at'["sup"] = at["sup"] /\ at'["rt"].pc \in {"await", "failed"}
    <3>1. {"await", "failed"} \subseteq Places BY DEF Places
    <3> QED BY <1>0, <1>30, <3>1, <1>l, RtGotoAt DEF Start, After
  <2>4. lease' = lease /\ grant'.act = grant.act /\ grant'.st # "none" /\ at'["rt"].pc # "sleep"
    BY <1>0, <1>g, <1>30, <2>2, <2>3 DEF Start, Grants, holdVars
  <2>5. Foreign' /\ grants' = grants /\ acts' = acts BY <1>0, <1>30, <2>2 DEF Start, Foreign, Gone, StartUnit, BackendTypeOK
  <2>6. Known(svc)'
    <3>1. svc'.lease = svc.lease /\ svc'.act = svc.act BY <1>0, <1>30 DEF Start
    <3> QED BY <2>5, <3>1, SameKnown
  <2> QED BY <2>1, <2>3, <2>4, <2>5, <2>6, RtRest
<1>31. CASE ProbeFails("rt") /\ UNCHANGED grants
  <2>1. rt.pc # "sleep" BY <1>0, <1>31 DEF ProbeFails, Probing
  <2>2. /\ grant.st # "none" /\ lease = grant.act /\ grant.act \in grants /\ Foreign BY <2>1, GrantedForeign
  <2>3. at'["sup"] = at["sup"] /\ at'["rt"].pc \in {"failed"}
    <3>1. {"failed"} \subseteq Places BY DEF Places
    <3> QED BY <1>0, <1>31, <3>1, <1>l, RtGotoAt DEF ProbeFails, After
  <2>4. lease' = lease /\ grant'.act = grant.act /\ grant'.st # "none" /\ at'["rt"].pc # "sleep"
    BY <1>0, <1>g, <1>31, <2>2, <2>3 DEF ProbeFails, Grants, backendVars, holdVars
  <2>5. Foreign' /\ grants' = grants /\ acts' = acts BY <1>0, <1>31, <2>2 DEF ProbeFails, Foreign, Gone, backendVars
  <2>6. Known(svc)'
    <3>1. svc'.lease = svc.lease /\ svc'.act = svc.act BY <1>0, <1>31 DEF ProbeFails
    <3> QED BY <2>5, <3>1, SameKnown
  <2> QED BY <2>1, <2>3, <2>4, <2>5, <2>6, RtRest
<1> QED BY <1>m, <1>1, <1>2, <1>3, <1>4, <1>5, <1>6, <1>7, <1>8, <1>9, <1>10, <1>11, <1>12, <1>13, <1>14, <1>15, <1>16, <1>17, <1>18, <1>19, <1>20, <1>21, <1>22, <1>23, <1>24, <1>25, <1>26, <1>27, <1>28, <1>29, <1>30, <1>31 DEF Bridge, Lifecycle

-----------------------------------------------------------------------------
(* For every value of the constants.                                         *)

\* The initial states.
LEMMA InitMedia == ASSUME Init PROVE TypeOK /\ Rest
<1>1. 0 \in Act /\ 0 \in 0 .. MaxStarts /\ 0 \in 0 .. MaxFaults /\ 0 <= MaxAct
  BY BackendAssumption, ServiceAssumption DEF Act
<1>2. BackendTypeOK
  <2>1. unit \in [st : {"gone", "pending", "up", "stopping"}, inv : 0..MaxStarts, act : Act, for : Act]
    BY <1>1 DEF Init, BackendInit, NoUnit, NoAct
  <2>2. grant \in [act : Act, mode : Modes,
                   st : {"none", "preparing", "started", "ready", "releasing", "recovery"}, proc : BOOLEAN]
    BY <1>1 DEF Init, BackendInit, NoGrant, NoAct, Modes
  <2>3. auth \in [act : Act, mode : Modes] BY <1>1 DEF Init, BackendInit, NoAct, Modes
  <2> QED BY <1>1, <2>1, <2>2, <2>3 DEF Init, BackendInit, BackendTypeOK, NoAct
<1>3. at \in [Proc -> Control] /\ sup.pc = "recover" /\ rt.pc = "sleep" /\ sup.snap = NoService
  <2>1. {"recover", "sleep"} \subseteq Places BY DEF Places
  <2>2. \A x \in {"recover", "sleep"} : [Start0 EXCEPT !.pc = x] \in Control BY <2>1, EmptyTyped DEF Control
  <2>3. at = [p \in Proc |-> [Start0 EXCEPT !.pc = IF p = "sup" THEN "recover" ELSE "sleep"]]
    BY DEF Init, ServiceInit
  <2> QED BY <2>2, <2>3 DEF sup, rt, Start0, Proc
<1>4. NoJob \in JobRecord /\ NoOne \in SessionRecord
  BY <1>1 DEF NoJob, JobRecord, NoOne, SessionRecord, NoAct
<1>5. TypeOK
  <2>1. sup.pc \notin {"begin", "create"} BY <1>3
  <2> QED BY <1>1, <1>2, <1>3, <1>4, <2>1, EmptyTyped DEF Init, ServiceInit, TypeOK
<1>6. grants = {} /\ grant.st = "none" /\ Gone /\ svc = NoService
  BY DEF Init, BackendInit, ServiceInit, NoGrant, NoUnit, Gone
<1>7. Asleep BY <1>3, <1>6 DEF Asleep
<1>8. Known(NoService) BY <1>5, <1>7, EmptyKnown DEF TypeOK
<1>9. OwnInv BY <1>3, <1>6, <1>8 DEF OwnInv, Foreign, Chain
<1>10. AtJob /\ AtResult BY <1>3 DEF AtJob, AtResult
<1> QED BY <1>5, <1>7, <1>9, <1>10 DEF Rest

\* The supervisor's steps, by what is known of where they lead.
PlainSteps ==
    \/ Observe("sup") \/ Adopt("sup") \/ StartupVerify("sup") \/ OpenGate("sup") \/ Drain("sup")
    \/ Halt("sup") \/ StopRequest("sup") \/ ProbeFails("sup")
    \/ Sweep \/ Quarantine \/ EndRound \/ Ready \/ Idle \/ IdleSaved \/ Finish
    \/ RestartHalt \/ RestartObserve \/ RestartAwait \/ RestartTarget \/ RestartFinish \/ RestartOpen
    \/ Crash \/ RecoverStopped
SpecialSteps ==
    \/ Stopping("sup") \/ Reset("sup") \/ Start("sup") \/ Tick \/ BeginProbe \/ Create \/ Acquire \/ Persist
    \/ Restart \/ RestartDrain \/ RestartPending \/ RestartStart \/ RecoverActive \/ Recovered
JobSteps ==
    Exec \/ Prepare \/ Submit \/ PostJob \/ Acked \/ Poll \/ Publish \/ Cancellation \/ CancelPosted \/ Cleaned

\* Every step, and the stutter.
LEMMA NextMedia == ASSUME TypeOK, Rest, [Next]_bridgeVars PROVE TypeOK' /\ Rest'
<1>1. CASE Bridge BY <1>1, BridgeTyped, BridgeRest
<1>2. CASE PlainSteps /\ UNCHANGED grants
  <2>1. TypeOK' BY <1>2, LifecycleTyped, RoundTyped, RestartTyped, RecoveryTyped DEF PlainSteps, Lifecycle, Proc
  <2>2. Rest' BY <1>2, PlainStep DEF PlainSteps
  <2> QED BY <2>1, <2>2
<1>3. CASE SpecialSteps /\ UNCHANGED grants
  <2>1. TypeOK' BY <1>3, LifecycleTyped, RoundTyped, RestartTyped, RecoveryTyped DEF SpecialSteps, Lifecycle, Proc
  <2>2. Rest' BY <1>3, SpecialStep DEF SpecialSteps
  <2> QED BY <2>1, <2>2
<1>4. CASE JobSteps /\ UNCHANGED grants
  <2>1. AtJob /\ AtResult BY DEF Rest
  <2> QED BY <1>4, <2>1, JobsTyped, JobStep DEF JobSteps
<1>5. CASE (Serve \/ Deadline \/ Surroundings) /\ UNCHANGED grants BY <1>5, ServeTyped, ServeRest
<1>6. CASE UNCHANGED bridgeVars
  <2>1. /\ UNCHANGED backendVars /\ svc' = svc /\ jobs' = jobs /\ sess' = sess /\ at' = at /\ oplock' = oplock
        /\ acts' = acts /\ faults' = faults /\ grants' = grants
    BY <1>6 DEF bridgeVars, vars, serviceVars
  <2>2. Frame BY <2>1 DEF Frame, Foreign, Gone, backendVars, holdVars
  <2>3. TypeOK' BY <2>1, BackendSame, StillTyped DEF TypeOK
  <2> QED BY <2>1, <2>2, <2>3, StillRest
<1>7. Supervise => PlainSteps \/ SpecialSteps \/ JobSteps
  BY DEF Supervise, Lifecycle, PlainSteps, SpecialSteps, JobSteps
<1>8. Crash => PlainSteps BY DEF PlainSteps
<1> QED BY <1>1, <1>2, <1>3, <1>4, <1>5, <1>6, <1>7, <1>8 DEF Next

\* The inductive invariant.
LEMMA MediaHolds == Spec => [](TypeOK /\ Rest)
<1>1. Init => TypeOK /\ Rest BY InitMedia
<1>2. TypeOK /\ Rest /\ [Next]_bridgeVars => (TypeOK /\ Rest)' BY NextMedia
<1> QED BY <1>1, <1>2, PTL DEF Spec

\* Every variable keeps its type, whatever the two processes do in between:
\* the supervisor decides on an activation only within the bound.
THEOREM MediaTyped == Spec => []TypeOK
<1> QED BY MediaHolds, PTL

\* The unit that was started under a lease of the media service keeps it.
THEOREM OwnReservedHolds == Spec => []OwnReserved
<1>1. TypeOK /\ Rest => OwnReserved BY DEF Rest, OwnInv, OwnReserved, Foreign, Mine
<1> QED BY <1>1, MediaHolds, PTL

-----------------------------------------------------------------------------
(* The receiver alone: no reservation of the runtime was granted.            *)

\* Files on disk are those of an activation that holds the GPU.
Purged == dirty => Mine(lease)

\* A job that was submitted is over, or its cleanup is owed; and what a step
\* saw of the job at hand still holds when it acts upon it.
Over(j) == jobs[j].cleanup \/ Terminal(j)
Sound(j) ==
    /\ posts[j] <= 1 /\ (posts[j] # 0 => Over(j))
    /\ jobs[j].cancel => jobs[j].st = "cancelled"
    /\ jobs[j].cleanup => jobs[j].st # "absent"
AtHand ==
    /\ sup.pc = "prepare" => ~jobs[sup.job].cleanup
    /\ sup.pc \in {"submit", "post"} => posts[sup.job] = 0
    /\ sup.pc \in {"submit", "post", "acked"} => jobs[sup.job].cleanup
    /\ sup.pc \in {"cancelling", "cleaned"} => Terminal(sup.job)
Once == (\A j \in Job : Sound(j)) /\ AtHand
Alone == grants = {} => Purged /\ Once

\* Then the runtime sleeps: its first step is a grant.
LEMMA Sleeps ==
    ASSUME TypeOK, Rest, Bridge, grants = {} PROVE grants' # {}
<1>1. rt.pc = "sleep" /\ grant.st = "none" /\ at["rt"].pc = "sleep" BY DEF Rest, Asleep, rt
<1>2. ASSUME NEW m \in {"interactive", "managed"}, Grant(m) PROVE grants' # {} BY <1>2 DEF Grant
<1>3. ~(EffectStarts \/ SharedBegin \/ SharedRefused \/ Started \/ Monitor \/ ReadyCommit \/ RestartSeen)
  BY <1>1 DEF EffectStarts, SharedBegin, SharedRefused, Started, Monitor, ReadyCommit, RestartSeen
<1>4. ~(ReleaseGrant \/ Stop \/ GiveUp \/ RetireStopped \/ ReconcileAbsent \/ Advance \/ RtUnlock)
  BY <1>1 DEF ReleaseGrant, Stop, GiveUp, RetireStopped, ReconcileAbsent, Advance, Watched, RtUnlock
<1>5. ~(Cleanup \/ CleanupStop \/ CleanupPurge \/ CleanupDone \/ Reconciled \/ RtCrash)
  BY <1>1 DEF Cleanup, CleanupStop, CleanupPurge, CleanupDone, Reconciled, RtCrash
<1>6. ~Lifecycle("rt")
  BY <1>1 DEF Lifecycle, Observe, Adopt, StartupVerify, OpenGate, Drain, Halt, StopRequest, Stopping, Reset, Start,
              ProbeFails, Probing
<1> QED BY <1>2, <1>3, <1>4, <1>5, <1>6 DEF Bridge

\* Most steps leave files and lease, or jobs and submissions, as they are.
LEMMA PurgedKept == ASSUME Purged, dirty' = dirty, lease' = lease, grants' = grants PROVE Purged'
BY DEF Purged, Mine
\* The same for jobs and submissions.
LEMMA OnceKept == ASSUME Once, jobs' = jobs, posts' = posts, at'["sup"].pc \notin JobPlaces PROVE Once'
BY DEF Once, Sound, Over, Terminal, AtHand, JobPlaces, sup

\* A lease that is released has its files purged.
LEMMA PurgedStep ==
    ASSUME TypeOK, Rest, Purged, grants = {}, grants' = grants,
           PlainSteps \/ SpecialSteps \/ JobSteps \/ Serve \/ Deadline \/ Surroundings
    PROVE  Purged'
<1>1. CASE PlainSteps
  <2>1. dirty' = dirty /\ lease' = lease
    BY <1>1 DEF PlainSteps, Observe, Adopt, StartupVerify, OpenGate, Drain, Halt, StopRequest, ProbeFails,
         Sweep, Quarantine, EndRound, Ready, Idle, IdleSaved, Finish, RestartHalt, RestartObserve, RestartAwait,
         RestartTarget, RestartFinish, RestartOpen, Crash, RecoverStopped, backendVars, holdVars
  <2> QED BY <2>1, PurgedKept
<1>2. CASE Stopping("sup") \/ RecoverActive
  <2>1. dirty' = FALSE \/ (dirty' = dirty /\ lease' = lease) BY <1>2 DEF Stopping, RecoverActive, holdVars
  <2> QED BY <2>1, PurgedKept DEF Purged
<1>3. CASE Acquire
  <2>1. lease' = lease \/ lease = NoAct BY <1>3 DEF Acquire
  <2>2. dirty' = dirty BY <1>3 DEF Acquire
  <2>3. lease = NoAct => ~dirty BY DEF Purged, Mine
  <2> QED BY <2>1, <2>2, <2>3, PurgedKept DEF Purged
<1>4. CASE Reset("sup") \/ Start("sup") \/ Tick \/ BeginProbe \/ Create \/ Persist
           \/ Restart \/ RestartDrain \/ RestartPending \/ RestartStart \/ Recovered
  <2>1. dirty' = dirty /\ lease' = lease
    BY <1>4 DEF Reset, Start, Tick, BeginProbe, Create, Persist, Restart, RestartDrain, RestartPending, RestartStart,
         Recovered, backendVars, holdVars
  <2> QED BY <2>1, PurgedKept
<1>5. CASE JobSteps
  <2>1. dirty' = dirty /\ lease' = lease
    BY <1>5 DEF JobSteps, Exec, Prepare, Submit, PostJob, Acked, Poll, Publish, Cancellation, CancelPosted, Cleaned,
         backendVars, holdVars
  <2> QED BY <2>1, PurgedKept
<1>6. CASE Serve \/ Deadline
  <2>1. dirty' = dirty /\ lease' = lease
    BY <1>6 DEF Serve, Deadline, SubmitJob, CancelJob, SubmitSession, ReleaseSession, RequestRestart,
         NativeSubmit, NativeForward, NativeArrives, backendVars, holdVars
  <2> QED BY <2>1, PurgedKept
<1>7. CASE UnitStarts
  <2>1. ~Gone BY <1>7 DEF UnitStarts, Gone
  <2>2. Mine(lease) BY <2>1 DEF Rest, OwnInv, Foreign
  <2> QED BY <1>7, <2>2 DEF UnitStarts, holdVars, Purged, Mine
<1>8. CASE UnitEnds \/ AuthorityExpires \/ Render
  <2>1. dirty' = dirty /\ lease' = lease BY <1>8 DEF UnitEnds, AuthorityExpires, Render, holdVars
  <2> QED BY <2>1, PurgedKept
<1>9. CASE OtherHolds
  <2>1. ~dirty BY <1>9 DEF OtherHolds, Purged, Mine
  <2> QED BY <1>9, <2>1 DEF OtherHolds, Purged
<1> QED BY <1>1, <1>2, <1>3, <1>4, <1>5, <1>6, <1>7, <1>8, <1>9 DEF SpecialSteps, Surroundings

\* A record that changes as it may: what was submitted stays over.
LEMMA SoundKept ==
    ASSUME Once, posts' = posts, at'["sup"].pc \notin JobPlaces,
           \A j \in Job : jobs'[j] # jobs[j] => Sound(j)'
    PROVE  Once'
<1>1. \A j \in Job : Sound(j)' BY DEF Once, Sound, Over, Terminal
<1> QED BY <1>1 DEF Once, AtHand, JobPlaces, sup

\* Interrupting a job keeps it sound.
LEMMA SoundInterrupted ==
    ASSUME jobs \in [Job -> JobRecord], NEW j \in Job, Sound(j), posts' = posts,
           \/ jobs'[j] = Interrupted(j)
           \/ jobs[j].cleanup /\ jobs'[j] = [Interrupted(j) EXCEPT !.cleanup = TRUE]
    PROVE  Sound(j)'
<1> DEFINE r == jobs[j]
<1>1. r \in JobRecord OBVIOUS
<1>2. jobs'[j].st = (IF Terminal(j) THEN r.st ELSE "interrupted") /\ jobs'[j].cancel = r.cancel
  BY <1>1 DEF Interrupted, JobRecord
<1>3. jobs'[j].st \in {"completed", "failed", "cancelled", "interrupted"} BY <1>2 DEF Terminal
<1>4. r.cancel => r.st = "cancelled" /\ Terminal(j) BY DEF Sound, Terminal
<1> QED BY <1>2, <1>3, <1>4 DEF Sound, Over, Terminal

\* One job changes.
LEMMA SoundOne ==
    ASSUME Once, NEW j \in Job, jobs \in [Job -> JobRecord], NEW r \in JobRecord, SetJob(j, r), posts' = posts, Sound(j)'
    PROVE  (\A k \in Job : Sound(k)') /\ jobs'[j] = r /\ (\A k \in Job \ {j} : jobs'[k] = jobs[k])
<1>1. jobs'[j] = r /\ \A k \in Job \ {j} : jobs'[k] = jobs[k] BY DEF SetJob
<1>2. ASSUME NEW k \in Job PROVE Sound(k)'
  <2>1. CASE k = j BY <2>1
  <2>2. CASE k # j BY <1>1, <2>2 DEF Once, Sound, Over, Terminal
  <2> QED BY <2>1, <2>2
<1> QED BY <1>1, <1>2

\* Where the job at hand is.
LEMMA JobAt ==
    ASSUME TypeOK
    PROVE  /\ \A x, j : WithJob(x, j) => at'["sup"].pc = x /\ at'["sup"].job = j
           /\ \A x, r : Result(x, r) => at'["sup"].pc = x /\ at'["sup"].job = sup.job
           /\ \A x \in {"submit", "post", "cancelling", "cleaned"} :
                 SupGoto(x) => at'["sup"].pc = x /\ at'["sup"].job = sup.job
           /\ \A x \in {"end", "failed"} : SupGoto(x) => at'["sup"].pc = x
<1>0. at \in [Proc -> Control] /\ "sup" \in Proc /\ sup = at["sup"] /\ sup \in Control BY DEF TypeOK, Proc, sup
<1>1. ASSUME NEW x, NEW j, WithJob(x, j) PROVE at'["sup"].pc = x /\ at'["sup"].job = j
  <2> DEFINE c == [at["sup"] EXCEPT !.pc = x, !.job = j]
  <2>1. c.pc = x /\ c.job = j BY <1>0 DEF Control
  <2>2. at' = [at EXCEPT !["sup"] = c] BY <1>0, <1>1 DEF WithJob
  <2> HIDE DEF c
  <2> QED BY <1>0, <2>1, <2>2
<1>2. ASSUME NEW x, NEW r, Result(x, r) PROVE at'["sup"].pc = x /\ at'["sup"].job = sup.job
  <2> DEFINE c == [at["sup"] EXCEPT !.pc = x, !.res = r]
  <2>1. c.pc = x /\ c.job = sup.job BY <1>0 DEF Control
  <2>2. at' = [at EXCEPT !["sup"] = c] BY <1>0, <1>2 DEF Result
  <2> HIDE DEF c
  <2> QED BY <1>0, <2>1, <2>2
<1>3. ASSUME NEW x \in {"submit", "post", "cancelling", "cleaned"}, SupGoto(x)
      PROVE  at'["sup"].pc = x /\ at'["sup"].job = sup.job
  <2>1. x \in Places /\ x \notin Settled \cup {"failed", "verify"} BY DEF Places, Settled
  <2> QED BY <1>0, <1>3, <2>1, GotoSet DEF SupGoto
<1>4. ASSUME NEW x \in {"end", "failed"}, SupGoto(x) PROVE at'["sup"].pc = x
  <2>1. x \in Places BY DEF Places
  <2> QED BY <1>0, <1>4, <2>1, GotoSet DEF SupGoto
<1> QED BY <1>1, <1>2, <1>3, <1>4

\* The steps of jobs submit one only when it was never submitted.
LEMMA OnceJobStep ==
    ASSUME TypeOK, Rest, Once, grants' = grants, JobSteps PROVE Once'
<1>0. /\ jobs \in [Job -> JobRecord] /\ posts \in [Job -> Nat] /\ svc \in Service
      /\ (\A j \in Job : Sound(j)) /\ AtHand
  BY DEF TypeOK, BackendTypeOK, Once
<1>a. /\ \A x, j : WithJob(x, j) => at'["sup"].pc = x /\ at'["sup"].job = j
      /\ \A x, r : Result(x, r) => at'["sup"].pc = x /\ at'["sup"].job = sup.job
      /\ \A x \in {"submit", "post", "cancelling", "cleaned"} :
            SupGoto(x) => at'["sup"].pc = x /\ at'["sup"].job = sup.job
      /\ \A x \in {"end", "failed"} : SupGoto(x) => at'["sup"].pc = x
  BY JobAt
<1>j. sup.pc \in JobPlaces => sup.job \in Job BY DEF Rest, AtJob, JobPlaces
<1>s. sup' = at'["sup"] BY DEF sup
<1>1. CASE Exec
  <2>1. jobs' = jobs /\ posts' = posts BY <1>1 DEF Exec, backendVars, workVars
  <2>2. \/ at'["sup"].pc \in {"end", "failed", "cancel", "poll"}
        \/ at'["sup"].pc = "prepare" /\ at'["sup"].job \in Job /\ ~jobs[at'["sup"].job].cleanup
    BY <1>1, <1>a DEF Exec
  <2> QED BY <1>0, <1>s, <2>1, <2>2 DEF Once, Sound, Over, Terminal, AtHand
<1>2. CASE Prepare
  <2>0. sup.job \in Job /\ ~jobs[sup.job].cleanup /\ posts' = posts
    BY <1>0, <1>2, <1>j DEF Prepare, JobPlaces, AtHand, backendVars, workVars
  <2>p. PICK j \in Job : j = sup.job BY <2>0
  <2>j. j \in Job /\ j = sup.job /\ jobs[j] \in JobRecord BY <1>0, <2>p
  <2>1. CASE UNCHANGED jobs /\ SupGoto("end")
    BY <1>0, <1>a, <1>s, <2>0, <2>1 DEF Once, Sound, Over, Terminal, AtHand
  <2>2. CASE ~Terminal(j) /\ SetJob(j, [jobs[j] EXCEPT !.st = "failed"]) /\ SupGoto("end")
    <3>1. [jobs[j] EXCEPT !.st = "failed"] \in JobRecord BY <2>j, JobFields
    <3>2. jobs'[j].st = "failed" /\ jobs'[j].cancel = jobs[j].cancel
      BY <1>0, <2>2, <2>j DEF SetJob, JobRecord
    <3>3. Sound(j)' BY <1>0, <2>0, <2>2, <2>j, <3>2 DEF Sound, Over, Terminal
    <3>4. \A k \in Job : Sound(k)' BY <1>0, <2>0, <2>2, <2>j, <3>1, <3>3, SoundOne
    <3> QED BY <1>a, <1>s, <2>2, <3>4 DEF Once, AtHand
  <2>3. CASE /\ ~jobs[j].cancel /\ ~Terminal(j)
             /\ SetJob(j, [jobs[j] EXCEPT !.st = "dispatching", !.cleanup = TRUE, !.act = svc.act]) /\ SupGoto("submit")
    <3>1. [jobs[j] EXCEPT !.st = "dispatching", !.cleanup = TRUE, !.act = svc.act] \in JobRecord
      <4>1. svc.act \in Act BY <1>0, Fields
      <4> QED BY <2>j, <4>1 DEF JobRecord
    <3>2. jobs'[j].st = "dispatching" /\ jobs'[j].cancel = jobs[j].cancel /\ jobs'[j].cleanup = TRUE
      BY <1>0, <2>3, <2>j DEF SetJob, JobRecord
    <3>3. posts[j] = 0 BY <1>0, <2>0, <2>3, <2>j DEF Sound, Over
    <3>4. Sound(j)' BY <2>0, <2>3, <3>2, <3>3 DEF Sound
    <3>5. \A k \in Job : Sound(k)' BY <1>0, <2>0, <2>3, <2>j, <3>1, <3>4, SoundOne
    <3> QED BY <1>a, <1>s, <2>0, <2>p, <2>3, <3>2, <3>3, <3>5 DEF Once, AtHand
  <2> QED BY <1>2, <2>p, <2>1, <2>2, <2>3 DEF Prepare
<1>3. CASE Submit
  <2>1. jobs' = jobs /\ posts' = posts /\ at'["sup"].pc = "post" /\ at'["sup"].job = sup.job /\ sup.pc = "submit"
    BY <1>3, <1>a DEF Submit, backendVars, workVars
  <2> QED BY <1>0, <1>s, <2>1 DEF Once, Sound, Over, Terminal, AtHand
<1>4. CASE PostJob
  <2>1. /\ jobs' = jobs /\ at'["sup"].pc = "acked" /\ at'["sup"].job = sup.job /\ sup.pc = "post"
    BY <1>4, <1>a DEF PostJob
  <2>2. sup.job \in Job /\ posts[sup.job] = 0 /\ jobs[sup.job].cleanup BY <1>0, <1>j, <2>1 DEF AtHand, JobPlaces
  <2>3. posts' = posts \/ posts' = [posts EXCEPT ![sup.job] = @ + 1] BY <1>4 DEF PostJob, Post
  <2>4. \A k \in Job : Sound(k)'
    <3> SUFFICES ASSUME NEW k \in Job PROVE Sound(k)' OBVIOUS
    <3>1. CASE posts'[k] = posts[k] BY <1>0, <2>1, <3>1 DEF Sound, Over, Terminal
    <3>2. CASE posts'[k] # posts[k]
      <4>1. k = sup.job BY <1>0, <2>2, <2>3, <3>2
      <4>2. posts'[k] = 1 BY <1>0, <2>2, <2>3, <3>2, <4>1
      <4> QED BY <1>0, <2>1, <2>2, <4>1, <4>2 DEF Sound, Over
    <3> QED BY <3>1, <3>2
  <2> QED BY <1>s, <2>1, <2>2, <2>4 DEF Once, AtHand
<1>5. CASE Acked
  <2>0. sup.job \in Job /\ jobs[sup.job].cleanup /\ posts' = posts
    BY <1>0, <1>5, <1>j DEF Acked, JobPlaces, AtHand, backendVars, workVars
  <2>p. PICK j \in Job : j = sup.job BY <2>0
  <2> DEFINE r == [jobs[j] EXCEPT !.st = IF jobs[j].cancel THEN @ ELSE IF sup.res = "ok" THEN "running" ELSE "uncertain"]
  <2>1. j \in Job /\ j = sup.job /\ jobs[j] \in JobRecord BY <1>0, <2>p
  <2>2. r \in JobRecord BY <2>1 DEF JobRecord
  <2>3. r.cancel = jobs[j].cancel /\ r.cleanup = jobs[j].cleanup /\ (r.st = jobs[j].st \/ (~jobs[j].cancel /\ r.st \in {"running", "uncertain"}))
    BY <2>1 DEF JobRecord
  <2>4. SetJob(j, r) BY <1>5, <2>p DEF Acked
  <2> HIDE DEF r
  <2>5. jobs'[j] = r BY <1>0, <2>1, <2>4 DEF SetJob
  <2>6. Sound(j)' BY <1>0, <2>0, <2>1, <2>3, <2>5 DEF Sound, Over
  <2>7. \A k \in Job : Sound(k)' BY <1>0, <2>0, <2>1, <2>2, <2>4, <2>6, SoundOne
  <2>8. at'["sup"].pc = "end" BY <1>5, <1>a DEF Acked
  <2> QED BY <1>s, <2>7, <2>8 DEF Once, AtHand
<1>6. CASE Poll
  <2>1. jobs' = jobs /\ posts' = posts /\ at'["sup"].pc \in {"end", "failed", "publish"}
    BY <1>6, <1>a DEF Poll, backendVars, workVars
  <2> QED BY <1>0, <1>s, <2>1 DEF Once, Sound, Over, Terminal, AtHand
<1>7. CASE Publish
  <2>0. sup.job \in Job /\ posts' = posts /\ sup.res \in {"completed", "failed", "interrupted"}
    BY <1>0, <1>7, <1>j DEF Publish, JobPlaces, Rest, AtResult, backendVars, workVars
  <2>p. PICK j \in Job : j = sup.job BY <2>0
  <2> DEFINE r == [jobs[j] EXCEPT !.cleanup = FALSE, !.st = IF jobs[j].cancel THEN @ ELSE sup.res]
  <2>1. j \in Job /\ j = sup.job /\ jobs[j] \in JobRecord BY <1>0, <2>p
  <2>2. r \in JobRecord BY <2>0, <2>1 DEF JobRecord
  <2>3. r.cancel = jobs[j].cancel /\ r.cleanup = FALSE /\ r.st = IF jobs[j].cancel THEN jobs[j].st ELSE sup.res
    BY <2>1 DEF JobRecord
  <2>4. SetJob(j, r) BY <1>7, <2>p DEF Publish
  <2> HIDE DEF r
  <2>5. jobs'[j] = r BY <1>0, <2>1, <2>4 DEF SetJob
  <2>6. Sound(j)' BY <1>0, <2>0, <2>1, <2>3, <2>5 DEF Sound, Over, Terminal
  <2>7. \A k \in Job : Sound(k)' BY <1>0, <2>0, <2>1, <2>2, <2>4, <2>6, SoundOne
  <2>8. at'["sup"].pc = "end" BY <1>7, <1>a DEF Publish
  <2> QED BY <1>s, <2>7, <2>8 DEF Once, AtHand
<1>8. CASE Cancellation
  <2>0. sup.job \in Job /\ posts' = posts BY <1>0, <1>8, <1>j DEF Cancellation, JobPlaces, backendVars, workVars
  <2>p. PICK j \in Job : j = sup.job BY <2>0
  <2> DEFINE r == [jobs[j] EXCEPT !.st = IF jobs[j].cancel THEN @ ELSE "failed"]
  <2>1. j \in Job /\ j = sup.job /\ jobs[j] \in JobRecord BY <1>0, <2>p
  <2>2. r \in JobRecord BY <2>1 DEF JobRecord
  <2>3. r.cancel = jobs[j].cancel /\ r.cleanup = jobs[j].cleanup /\ r.st = IF jobs[j].cancel THEN jobs[j].st ELSE "failed"
    BY <2>1 DEF JobRecord
  <2>4. SetJob(j, r) BY <1>8, <2>p DEF Cancellation
  <2> HIDE DEF r
  <2>5. jobs'[j] = r BY <1>0, <2>1, <2>4 DEF SetJob
  <2>6. Sound(j)' /\ Terminal(j)' BY <1>0, <2>0, <2>1, <2>3, <2>5 DEF Sound, Over, Terminal
  <2>7. \A k \in Job : Sound(k)' BY <1>0, <2>0, <2>1, <2>2, <2>4, <2>6, SoundOne
  <2>8. at'["sup"].pc = "cancelling" /\ at'["sup"].job = j BY <1>8, <1>a, <2>p DEF Cancellation
  <2>9. jobs'[at'["sup"].job].st \in {"completed", "failed", "cancelled", "interrupted"} BY <2>6, <2>8 DEF Terminal
  <2> QED BY <1>s, <2>7, <2>8, <2>9 DEF Once, AtHand, Terminal
<1>9. CASE CancelPosted
  <2>1. /\ jobs' = jobs /\ posts' = posts /\ sup.pc = "cancelling" 
        /\ at'["sup"].pc \in {"end", "failed"} \/ (at'["sup"].pc = "cleaned" /\ at'["sup"].job = sup.job)
    BY <1>9, <1>a DEF CancelPosted
  <2> QED BY <1>0, <1>s, <2>1 DEF Once, Sound, Over, Terminal, AtHand
<1>10. CASE Cleaned
  <2>0. sup.job \in Job /\ posts' = posts /\ Terminal(sup.job)
    BY <1>0, <1>10, <1>j DEF Cleaned, JobPlaces, AtHand, backendVars, workVars
  <2>p. PICK j \in Job : j = sup.job BY <2>0
  <2> DEFINE r == [jobs[j] EXCEPT !.cleanup = FALSE]
  <2>1. j \in Job /\ j = sup.job /\ jobs[j] \in JobRecord BY <1>0, <2>p
  <2>2. r \in JobRecord BY <2>1, JobFields
  <2>3. r.cancel = jobs[j].cancel /\ r.cleanup = FALSE /\ r.st = jobs[j].st BY <2>1 DEF JobRecord
  <2>4. SetJob(j, r) BY <1>10, <2>p DEF Cleaned
  <2> HIDE DEF r
  <2>5. jobs'[j] = r BY <1>0, <2>1, <2>4 DEF SetJob
  <2>6. Sound(j)' BY <1>0, <2>0, <2>1, <2>3, <2>5 DEF Sound, Over, Terminal
  <2>7. \A k \in Job : Sound(k)' BY <1>0, <2>0, <2>1, <2>2, <2>4, <2>6, SoundOne
  <2>8. at'["sup"].pc = "end" BY <1>10, <1>a DEF Cleaned
  <2> QED BY <1>s, <2>7, <2>8 DEF Once, AtHand
<1> QED BY <1>1, <1>2, <1>3, <1>4, <1>5, <1>6, <1>7, <1>8, <1>9, <1>10 DEF JobSteps

\* A client's step leaves the job at hand as the supervisor saw it.
LEMMA OnceServe ==
    ASSUME TypeOK, Rest, Once, Serve \/ Deadline PROVE Once'
<1>0. /\ jobs \in [Job -> JobRecord] /\ svc \in Service /\ (\A j \in Job : Sound(j)) /\ AtHand
      /\ (sup.pc \in JobPlaces => sup.job \in Job)
  BY DEF TypeOK, Once, Rest, AtJob, JobPlaces
<1>h. {"prepare", "submit", "post", "acked", "cancelling", "cleaned"} \subseteq JobPlaces BY DEF JobPlaces
<1>k. ASSUME posts' = posts, at' = at, NEW j \in Job, NEW r \in JobRecord, SetJob(j, r), Sound(j)',
             (jobs[j].cleanup /\ r.cleanup) \/ (~jobs[j].cleanup /\ ~r.cleanup),
             Terminal(j) => r.st \in {"completed", "failed", "cancelled", "interrupted"}
      PROVE  Once'
  <2>1. (\A k \in Job : Sound(k)') /\ jobs'[j] = r /\ (\A k \in Job \ {j} : jobs'[k] = jobs[k])
    BY <1>0, <1>k, SoundOne
  <2>2. sup' = sup BY <1>k DEF sup
  <2>3. AtHand' BY <1>0, <1>h, <1>k, <2>1, <2>2 DEF AtHand, Terminal
  <2> QED BY <2>1, <2>3 DEF Once
<1>1. ASSUME NEW j \in Job, SubmitJob(j) PROVE Once'
  <2>1. PICK r \in {[NoJob EXCEPT !.st = "waiting"], [NoJob EXCEPT !.st = "waiting", !.bind = svc.lease]} : SetJob(j, r)
    BY <1>1 DEF SubmitJob
  <2>2. NoAct \in Act BY EmptyTyped DEF NoService, Service
  <2>3. r \in JobRecord BY <1>0, <2>2, Fields DEF NoJob, JobRecord
  <2>4. r.st = "waiting" /\ ~r.cleanup /\ ~r.cancel BY DEF NoJob
  <2>5. jobs'[j] = r BY <1>0, <2>1 DEF SetJob
  <2>6. jobs[j].st = "absent" /\ posts' = posts /\ at' = at BY <1>1 DEF SubmitJob, backendVars, workVars
  <2>7. ~jobs[j].cleanup /\ ~Terminal(j) BY <1>0, <2>6 DEF Sound, Terminal
  <2>8. Sound(j)' BY <1>0, <2>4, <2>5, <2>6, <2>7 DEF Sound, Over
  <2> QED BY <1>k, <2>1, <2>3, <2>4, <2>6, <2>7, <2>8
<1>2. ASSUME NEW j \in Job, CancelJob(j) PROVE Once'
  <2> DEFINE r == [jobs[j] EXCEPT !.cancel = TRUE, !.st = "cancelled"]
  <2>1. r \in JobRecord BY <1>0, JobFields
  <2>2. r.st = "cancelled" /\ r.cleanup = jobs[j].cleanup BY <1>0 DEF JobRecord
  <2>3. SetJob(j, r) /\ posts' = posts /\ at' = at BY <1>2 DEF CancelJob, backendVars, workVars
  <2> HIDE DEF r
  <2>4. jobs'[j] = r BY <1>0, <2>3 DEF SetJob
  <2>5. Sound(j)' BY <1>0, <2>2, <2>3, <2>4 DEF Sound, Over, Terminal
  <2> QED BY <1>k, <2>1, <2>2, <2>3, <2>5
<1>3. CASE Deadline
  <2>1. posts' = posts /\ at' = at BY <1>3 DEF Deadline, backendVars, workVars
  <2>2. CASE UNCHANGED jobs BY <1>0, <2>1, <2>2 DEF Once, Sound, Over, Terminal, AtHand, sup
  <2>3. ASSUME NEW j \in Job, jobs' = [jobs EXCEPT ![j].late = TRUE] PROVE Once'
    <3> DEFINE r == [jobs[j] EXCEPT !.late = TRUE]
    <3>1. r \in JobRecord BY <1>0, JobFields
    <3>2. r.st = jobs[j].st /\ r.cleanup = jobs[j].cleanup /\ r.cancel = jobs[j].cancel BY <1>0 DEF JobRecord
    <3>3. SetJob(j, r) BY <2>3 DEF SetJob
    <3> HIDE DEF r
    <3>4. jobs'[j] = r BY <1>0, <3>3 DEF SetJob
    <3>5. Sound(j)' BY <1>0, <2>1, <3>2, <3>4 DEF Sound, Over, Terminal
    <3>6. Terminal(j) => r.st \in {"completed", "failed", "cancelled", "interrupted"} BY <3>2 DEF Terminal
    <3> QED BY <1>k, <2>1, <3>1, <3>2, <3>3, <3>5, <3>6
  <2> QED BY <1>3, <2>2, <2>3 DEF Deadline
<1>4. CASE (\E s \in Session : SubmitSession(s) \/ ReleaseSession(s)) \/ RequestRestart
           \/ NativeSubmit \/ NativeForward \/ NativeArrives
  <2>1. posts' = posts /\ at' = at /\ jobs' = jobs
    BY <1>4 DEF SubmitSession, ReleaseSession, RequestRestart, NativeSubmit, NativeForward, NativeArrives,
                backendVars, workVars, serviceVars
  <2> QED BY <1>0, <2>1 DEF Once, Sound, Over, Terminal, AtHand, sup
<1> QED BY <1>1, <1>2, <1>3, <1>4 DEF Serve

\* A job is submitted once, and its cleanup forgotten when it is over.
LEMMA OnceStep ==
    ASSUME TypeOK, Rest, Once, grants' = grants,
           PlainSteps \/ SpecialSteps \/ JobSteps \/ Serve \/ Deadline \/ Surroundings
    PROVE  Once'
<1>0. /\ jobs \in [Job -> JobRecord] /\ posts \in [Job -> Nat] /\ sup = at["sup"] /\ sup \in Control
      /\ "sup" \in Proc /\ at \in [Proc -> Control] /\ svc \in Service
      /\ \A j \in Job : Sound(j)
  BY DEF TypeOK, BackendTypeOK, Proc, sup, Once
<1>a. PlainSteps => at'["sup"].pc \notin JobPlaces BY PlainStep DEF PlainSteps
<1>b. SpecialSteps => at'["sup"].pc \notin JobPlaces BY SpecialStep DEF SpecialSteps
<1>1. CASE Sweep
  <2>1. posts' = posts /\ at'["sup"].pc \notin JobPlaces BY <1>1, <1>a DEF PlainSteps, Sweep, backendVars, workVars
  <2>2. ASSUME NEW j \in Job, jobs'[j] # jobs[j] PROVE Sound(j)'
    <3>1. Pending(j) /\ ~jobs[j].cleanup BY <1>1, <2>2 DEF Sweep
    <3>2. PICK x \in {"failed", "starting", jobs[j].st} : jobs'[j] = [jobs[j] EXCEPT !.st = x]
      BY <1>1, <3>1 DEF Sweep
    <3>3. jobs[j] \in JobRecord BY <1>0
    <3>4. jobs'[j].st = x /\ jobs'[j].cleanup = FALSE /\ jobs'[j].cancel = jobs[j].cancel
      BY <3>1, <3>2, <3>3 DEF JobRecord
    <3>5. ~Over(j) BY <3>1 DEF Over, Pending
    <3>6. posts[j] = 0 /\ ~jobs[j].cancel BY <1>0, <3>5 DEF Sound, Over, Terminal
    <3> QED BY <2>1, <3>4, <3>6 DEF Sound
  <2> QED BY <2>1, <2>2, SoundKept
<1>2. CASE Quarantine
  <2>1. posts' = posts /\ at'["sup"].pc \notin JobPlaces BY <1>2, <1>a DEF PlainSteps, Quarantine, workVars
  <2>2. ASSUME NEW j \in Job, jobs'[j] # jobs[j] PROVE Sound(j)'
    <3>1. jobs[j].cleanup /\ jobs'[j] = [Interrupted(j) EXCEPT !.cleanup = TRUE] BY <1>2, <2>2 DEF Quarantine
    <3> QED BY <1>0, <2>1, <3>1, SoundInterrupted
  <2> QED BY <2>1, <2>2, SoundKept
<1>3. CASE Reset("sup") \/ Recovered
  <2>1. posts' = posts /\ at'["sup"].pc \notin JobPlaces
    BY <1>3, <1>b DEF SpecialSteps, Reset, Recovered, backendVars, workVars
  <2>2. ASSUME NEW j \in Job, jobs'[j] # jobs[j] PROVE Sound(j)'
    <3>1. jobs'[j] = Interrupted(j) BY <1>3, <2>2 DEF Reset, Recovered
    <3> QED BY <1>0, <2>1, <3>1, SoundInterrupted
  <2> QED BY <2>1, <2>2, SoundKept
<1>4. CASE PlainSteps /\ ~Sweep /\ ~Quarantine
  <2>1. jobs' = jobs /\ posts' = posts
    BY <1>4 DEF PlainSteps, Observe, Adopt, StartupVerify, OpenGate, Drain, Halt, StopRequest, ProbeFails,
         EndRound, Ready, Idle, IdleSaved, Finish, RestartHalt, RestartObserve, RestartAwait,
         RestartTarget, RestartFinish, RestartOpen, Crash, RecoverStopped, backendVars, workVars
  <2> QED BY <1>4, <1>a, <2>1, OnceKept
<1>5. CASE SpecialSteps /\ ~Reset("sup") /\ ~Recovered
  <2>1. jobs' = jobs /\ posts' = posts
    BY <1>5 DEF SpecialSteps, Stopping, Start, Tick, BeginProbe, Create, Acquire, Persist, Restart, RestartDrain,
         RestartPending, RestartStart, RecoverActive, backendVars, workVars
  <2> QED BY <1>5, <1>b, <2>1, OnceKept
<1>6. CASE JobSteps BY <1>6, OnceJobStep
<1>7. CASE Surroundings
  <2>1. jobs' = jobs /\ at' = at /\ posts' = posts
    BY <1>7 DEF Surroundings, serviceVars, UnitStarts, UnitEnds, AuthorityExpires, Render, OtherHolds, workVars
  <2> QED BY <2>1 DEF Once, Sound, Over, Terminal, AtHand, sup
<1>8. CASE Serve \/ Deadline BY <1>8, OnceServe
<1> QED BY <1>1, <1>2, <1>3, <1>4, <1>5, <1>6, <1>7, <1>8

\* Every step, while nothing is granted.
LEMMA AloneStep ==
    ASSUME TypeOK, Rest, Alone, [Next]_bridgeVars PROVE Alone'
<1>1. CASE Bridge
  <2>1. grants' # {}
    <3>1. CASE grants = {} BY <1>1, <3>1, Sleeps
    <3>2. CASE grants # {}
      <4>1. grants \subseteq grants'
        BY <1>1 DEF Bridge, Grant, EffectStarts, SharedBegin, SharedRefused, Started, Monitor, ReadyCommit, RestartSeen,
             ReleaseGrant, Stop, GiveUp, RetireStopped, ReconcileAbsent, Advance, RtUnlock, Cleanup, CleanupStop,
             CleanupPurge, CleanupDone, Reconciled, RtCrash
      <4> QED BY <3>2, <4>1
    <3> QED BY <3>1, <3>2
  <2> QED BY <2>1 DEF Alone
<1>2. CASE (PlainSteps \/ SpecialSteps \/ JobSteps \/ Serve \/ Deadline \/ Surroundings) /\ UNCHANGED grants
  BY <1>2, PurgedStep, OnceStep DEF Alone
<1>3. CASE UNCHANGED bridgeVars
  BY <1>3 DEF bridgeVars, vars, backendVars, workVars, serviceVars, Alone, Purged, Mine, Once, Sound, Over, Terminal, AtHand, sup
<1>4. Supervise => PlainSteps \/ SpecialSteps \/ JobSteps
  BY DEF Supervise, Lifecycle, PlainSteps, SpecialSteps, JobSteps
<1>5. Crash => PlainSteps BY DEF PlainSteps
<1> QED BY <1>1, <1>2, <1>3, <1>4, <1>5 DEF Next

\* At first.
LEMMA InitAlone == ASSUME Init PROVE Alone
<1>1. dirty = FALSE /\ (\A j \in Job : posts[j] = 0) /\ (\A j \in Job : jobs[j] = NoJob) /\ sup.pc = "recover"
  BY DEF Init, BackendInit, ServiceInit, sup, Proc, Start0
<1>2. \A j \in Job : Sound(j) BY <1>1 DEF Sound, NoJob
<1> QED BY <1>1, <1>2 DEF Alone, Purged, Once, AtHand

\* The invariant of the receiver alone.
LEMMA AloneHolds == Spec => [](TypeOK /\ Rest /\ Alone)
<1>1. Init => TypeOK /\ Rest /\ Alone BY InitMedia, InitAlone
<1>2. TypeOK /\ Rest /\ Alone /\ [Next]_bridgeVars => (TypeOK /\ Rest /\ Alone)' BY NextMedia, AloneStep
<1> QED BY <1>1, <1>2, PTL DEF Spec

\* While the runtime granted nothing, the GPU is free for others only after
\* the backend is gone and its files are purged.
THEOREM ReservedHolds == Spec => [](grants = {} => Reserved)
<1>1. TypeOK /\ Rest /\ Alone => (grants = {} => Reserved)
  BY DEF Rest, OwnInv, Alone, Purged, Reserved, Foreign, Mine
<1> QED BY <1>1, AloneHolds, PTL

\* While the runtime granted nothing, a job is submitted at most once.
THEOREM AtMostOnceHolds == Spec => [](grants = {} => AtMostOnce)
<1>1. TypeOK /\ Rest /\ Alone => (grants = {} => AtMostOnce)
  BY DEF Alone, Once, Sound, AtMostOnce
<1> QED BY <1>1, AloneHolds, PTL

-----------------------------------------------------------------------------
(* Cancellations, beside any reservations.                                   *)

\* A recorded cancellation is the job's outcome, and no step takes it back.
Cancelled == \A j \in Job : jobs[j].cancel => jobs[j].st = "cancelled"
Kept(j) ==
    /\ jobs[j].cancel => jobs'[j].cancel
    /\ jobs'[j].cancel => jobs'[j].st = "cancelled"

\* A job that is interrupted keeps its cancellation: it is over already.
LEMMA InterruptedKept ==
    ASSUME jobs \in [Job -> JobRecord], Cancelled, NEW j \in Job,
           jobs'[j] \in {jobs[j], Interrupted(j), [Interrupted(j) EXCEPT !.cleanup = TRUE]}
    PROVE  Kept(j)
<1> DEFINE r == jobs[j]
<1>1. r \in JobRecord OBVIOUS
<1>2. jobs'[j].cancel = r.cancel /\ jobs'[j].st \in {r.st, IF Terminal(j) THEN r.st ELSE "interrupted"}
  BY <1>1 DEF Interrupted, JobRecord
<1>3. r.cancel => r.st = "cancelled" /\ Terminal(j) BY DEF Cancelled, Terminal
<1> QED BY <1>2, <1>3 DEF Kept

\* The steps that write one job.
WritesJob == Prepare \/ Acked \/ Publish \/ Cancellation \/ Cleaned \/ (\E j \in Job : SubmitJob(j) \/ CancelJob(j)) \/ Deadline

\* Each of them looks at the cancellation first, or is one.
LEMMA WritesKept ==
    ASSUME TypeOK, Cancelled, WritesJob, NEW j \in Job PROVE Kept(j)
<1>0. jobs \in [Job -> JobRecord] BY DEF TypeOK
<1>p. PICK r \in JobRecord : r = jobs[j] BY <1>0
<1>c. r.cancel => r.st = "cancelled" BY <1>p DEF Cancelled
<1>s. ASSUME jobs'[j] = jobs[j] PROVE Kept(j) BY <1>s, <1>c, <1>p DEF Kept
<1>w. ASSUME NEW k, NEW q, SetJob(k, q), k # j PROVE Kept(j) BY <1>0, <1>w, <1>s DEF SetJob
<1>k. ASSUME NEW q, SetJob(j, q), r.cancel => q.cancel, q.cancel => q.st = "cancelled" PROVE Kept(j)
  <2>1. jobs'[j] = q BY <1>0, <1>k DEF SetJob
  <2> QED BY <1>k, <1>p, <2>1 DEF Kept
<1>1. CASE Prepare
  <2>1. CASE UNCHANGED jobs BY <1>s, <2>1
  <2>2. CASE sup.job # j BY <1>1, <1>s, <1>w, <2>2 DEF Prepare
  <2>3. CASE sup.job = j /\ ~UNCHANGED jobs
    <3>1. ~r.cancel \/ r.st # "cancelled" BY <1>1, <1>p, <2>3 DEF Prepare, Terminal
    <3>2. ~r.cancel BY <1>c, <3>1
    <3>3. PICK q \in {[r EXCEPT !.st = "failed"],
                      [r EXCEPT !.st = "dispatching", !.cleanup = TRUE, !.act = svc.act]} : SetJob(j, q)
      BY <1>1, <1>p, <2>3 DEF Prepare
    <3>4. q.cancel = r.cancel BY DEF JobRecord
    <3> QED BY <1>k, <3>2, <3>3, <3>4
  <2> QED BY <2>1, <2>2, <2>3
<1>2. CASE Acked \/ Publish \/ Cancellation \/ Cleaned
  <2>1. CASE sup.job # j BY <1>2, <1>w, <2>1 DEF Acked, Publish, Cancellation, Cleaned
  <2>2. CASE sup.job = j
    <3>1. PICK q \in {[r EXCEPT !.st = IF r.cancel THEN r.st ELSE IF sup.res = "ok" THEN "running" ELSE "uncertain"],
                      [r EXCEPT !.cleanup = FALSE, !.st = IF r.cancel THEN r.st ELSE sup.res],
                      [r EXCEPT !.st = IF r.cancel THEN r.st ELSE "failed"],
                      [r EXCEPT !.cleanup = FALSE]} : SetJob(j, q)
      BY <1>2, <1>p, <2>2 DEF Acked, Publish, Cancellation, Cleaned
    <3>2. q.cancel = r.cancel /\ (r.cancel => q.st = r.st) BY DEF JobRecord
    <3> QED BY <1>k, <1>c, <3>1, <3>2
  <2> QED BY <2>1, <2>2
<1>3. ASSUME NEW k \in Job, SubmitJob(k) PROVE Kept(j)
  <2>1. PICK q \in {[NoJob EXCEPT !.st = "waiting"], [NoJob EXCEPT !.st = "waiting", !.bind = svc.lease]} : SetJob(k, q)
    BY <1>3 DEF SubmitJob
  <2>2. ~q.cancel BY DEF NoJob
  <2>3. CASE k = j
    <3>1. ~r.cancel BY <1>3, <1>c, <1>p, <2>3 DEF SubmitJob
    <3> QED BY <1>k, <2>1, <2>2, <2>3, <3>1
  <2> QED BY <1>w, <2>1, <2>3
<1>4. ASSUME NEW k \in Job, CancelJob(k) PROVE Kept(j)
  <2>1. CASE k # j BY <1>4, <1>w, <2>1 DEF CancelJob
  <2>2. CASE k = j
    <3> DEFINE q == [r EXCEPT !.cancel = TRUE, !.st = "cancelled"]
    <3>1. q.cancel /\ q.st = "cancelled" BY DEF JobRecord
    <3>2. SetJob(j, q) BY <1>4, <1>p, <2>2 DEF CancelJob
    <3> HIDE DEF q
    <3> QED BY <1>k, <3>1, <3>2
  <2> QED BY <2>1, <2>2
<1>5. CASE Deadline
  <2>1. CASE UNCHANGED jobs BY <1>s, <2>1
  <2>2. ASSUME NEW k \in Job, jobs' = [jobs EXCEPT ![k].late = TRUE] PROVE Kept(j)
    <3>1. jobs'[j] = jobs[j] \/ jobs'[j] = [r EXCEPT !.late = TRUE] BY <1>0, <1>p, <2>2
    <3>2. [r EXCEPT !.late = TRUE].cancel = r.cancel /\ [r EXCEPT !.late = TRUE].st = r.st BY DEF JobRecord
    <3> QED BY <1>c, <1>p, <1>s, <3>1, <3>2 DEF Kept
  <2> QED BY <1>5, <2>1, <2>2 DEF Deadline
<1> QED BY <1>1, <1>2, <1>3, <1>4, <1>5 DEF WritesJob

\* The steps of a round and of the runtime that interrupt jobs.
LEMMA EndsKept ==
    ASSUME TypeOK, Cancelled, NEW j \in Job,
           Sweep \/ Quarantine \/ Reset("sup") \/ Reset("rt") \/ Recovered \/ CleanupDone
    PROVE  Kept(j)
<1>0. jobs \in [Job -> JobRecord] BY DEF TypeOK
<1>p. PICK r \in JobRecord : r = jobs[j] BY <1>0
<1>c. r.cancel => r.st = "cancelled" /\ Terminal(j) BY <1>p DEF Cancelled, Terminal
<1>1. CASE Sweep
  <2>1. CASE jobs'[j] = jobs[j] BY <1>c, <1>p, <2>1 DEF Kept
  <2>2. CASE Pending(j) /\ ~jobs[j].cleanup
    <3>1. ~r.cancel BY <1>c, <2>2 DEF Pending
    <3>2. PICK x \in {"failed", "starting", r.st} : jobs'[j] = [r EXCEPT !.st = x]
      BY <1>1, <1>p, <2>2 DEF Sweep
    <3>3. jobs'[j].cancel = r.cancel BY <3>2 DEF JobRecord
    <3> QED BY <1>p, <3>1, <3>3 DEF Kept
  <2> QED BY <1>1, <2>1, <2>2 DEF Sweep
<1>2. CASE Quarantine \/ Reset("sup") \/ Reset("rt") \/ Recovered
  <2>1. jobs'[j] \in {jobs[j], Interrupted(j), [Interrupted(j) EXCEPT !.cleanup = TRUE]}
    BY <1>2 DEF Quarantine, Reset, Recovered
  <2> QED BY <1>0, <2>1, InterruptedKept
<1>3. CASE CleanupDone
  <2>1. jobs'[j] \in {jobs[j], Interrupted(j), [jobs[j] EXCEPT !.st = "cancelled"]} BY <1>3 DEF CleanupDone
  <2>2. CASE jobs'[j] = [jobs[j] EXCEPT !.st = "cancelled"]
    <3>1. jobs'[j].cancel = r.cancel /\ jobs'[j].st = "cancelled" BY <1>p, <2>2 DEF JobRecord
    <3> QED BY <1>p, <3>1 DEF Kept
  <2> QED BY <1>0, <2>1, <2>2, InterruptedKept
<1> QED BY <1>1, <1>2, <1>3

\* All other steps leave the jobs alone.
LEMMA OthersLeaveJobs ==
    ASSUME [Next]_bridgeVars, ~WritesJob,
           ~(Sweep \/ Quarantine \/ Reset("sup") \/ Reset("rt") \/ Recovered \/ CleanupDone)
    PROVE  jobs' = jobs
<1>1. CASE UNCHANGED bridgeVars BY <1>1 DEF bridgeVars, vars, serviceVars
<1>2. ASSUME NEW p \in Proc, Lifecycle(p) PROVE jobs' = jobs
  <2>1. ~Reset(p) BY DEF Proc
  <2> QED BY <1>2, <2>1 DEF Lifecycle, Observe, Adopt, StartupVerify, OpenGate, Drain, Halt, StopRequest, Stopping,
                           Start, ProbeFails
<1>3. CASE Bridge
  <2>1. CASE Lifecycle("rt") BY <1>2, <2>1 DEF Proc
  <2>2. CASE ~Lifecycle("rt")
    BY <1>3, <2>2 DEF Bridge, Grant, EffectStarts, SharedBegin, SharedRefused, Started, Monitor, ReadyCommit, RestartSeen,
         ReleaseGrant, Stop, GiveUp, RetireStopped, ReconcileAbsent, Advance, RtUnlock, Cleanup, CleanupStop,
         CleanupPurge, Reconciled, RtCrash, serviceVars
  <2> QED BY <2>1, <2>2
<1>4. CASE Supervise
  <2>1. CASE Lifecycle("sup") BY <1>2, <2>1 DEF Proc
  <2>2. CASE Tick \/ EndRound \/ BeginProbe \/ Create \/ Acquire \/ Persist \/ Ready \/ Idle \/ IdleSaved \/ Finish
             \/ Restart \/ RestartDrain \/ RestartHalt \/ RestartObserve \/ RestartPending \/ RestartStart
             \/ RestartAwait \/ RestartTarget \/ RestartFinish \/ RestartOpen
    BY <2>2 DEF Tick, EndRound, BeginProbe, Create, Acquire, Persist, Ready, Idle, IdleSaved, Finish, Restart,
         RestartDrain, RestartHalt, RestartObserve, RestartPending, RestartStart, RestartAwait, RestartTarget,
         RestartFinish, RestartOpen
  <2>3. CASE Exec \/ Submit \/ PostJob \/ Poll \/ CancelPosted \/ RecoverStopped \/ RecoverActive
    BY <2>3 DEF Exec, Submit, PostJob, Poll, CancelPosted, RecoverStopped, RecoverActive
  <2> QED BY <1>4, <2>1, <2>2, <2>3 DEF Supervise, WritesJob
<1>5. CASE Serve \/ Crash \/ Surroundings
  BY <1>5 DEF Serve, WritesJob, SubmitSession, ReleaseSession, RequestRestart, NativeSubmit, NativeForward, NativeArrives,
       Crash, Surroundings, serviceVars
<1> QED BY <1>1, <1>3, <1>4, <1>5 DEF Next, WritesJob

\* Every step keeps a cancellation.
LEMMA CancelStep ==
    ASSUME TypeOK, Cancelled, [Next]_bridgeVars
    PROVE  Cancelled' /\ (\A j \in Job : jobs[j].cancel => jobs'[j].st = "cancelled")
<1>1. ASSUME NEW j \in Job PROVE Kept(j)
  <2>1. CASE WritesJob BY <2>1, WritesKept
  <2>2. CASE Sweep \/ Quarantine \/ Reset("sup") \/ Reset("rt") \/ Recovered \/ CleanupDone BY <2>2, EndsKept
  <2>3. CASE jobs' = jobs BY <2>3 DEF Cancelled, Kept
  <2> QED BY <2>1, <2>2, <2>3, OthersLeaveJobs
<1> QED BY <1>1 DEF Cancelled, Kept

\* A recorded cancellation is never overwritten by a result, whatever stops,
\* answers, crashes and clean-ups come in between (ImageCancellation).
THEOREM CancelSticksHolds == Spec => CancelSticks
<1>1. Init => Cancelled BY DEF Init, ServiceInit, Cancelled, NoJob
<1>2. TypeOK /\ Cancelled /\ [Next]_bridgeVars => Cancelled' BY CancelStep
<1>3. TypeOK /\ Cancelled /\ [Next]_bridgeVars
        => [\A j \in Job : jobs[j].cancel => jobs'[j].st = "cancelled"]_bridgeVars
  BY CancelStep
<1> QED BY <1>1, <1>2, <1>3, MediaTyped, PTL DEF Spec, CancelSticks

-----------------------------------------------------------------------------
(* Finish and the starts.                                                    *)

\* Where the supervisor is without the lock, and where it is about to start.
Roaming == {"sweep", "tick", "failed", "recover", "recovered"}
StartPcs == {"acquire", "persist", "start", "restarting", "rpending", "rstart"}
Cleaning == {"cstop", "cwait", "cdone", "cfree"}

\* lifecycle.lock is held through a round, and through a clean-up.
Locked ==
    /\ sup.pc \notin Roaming => oplock = "sup"
    /\ rt.pc \in Cleaning => oplock = "rt"

\* From the look at the session to the start, the session is not finished.
Unfinished == svc.session # NoSession => ~sess[svc.session].rel
Begun ==
    /\ sup.pc \in {"acquire", "persist", "start"} => Unfinished
    /\ sup.pc \in {"restarting", "rpending", "rstart"} /\ sup.res # "finish" => Unfinished
    /\ sup.pc = "rstart" => sup.res # "finish"
FinishInv == Locked /\ Begun

\* Where a process goes, whatever it copies.
LEMMA GotoAt ==
    ASSUME TypeOK, NEW p \in Proc, NEW x, Goto(p, x)
    PROVE  /\ at'[p].pc = x /\ \A q \in Proc \ {p} : at'[q] = at[q]
           /\ x \notin Settled \cup {"failed", "verify"} => at'[p].res = at[p].res
<1> DEFINE c == IF x \in Settled THEN [Start0 EXCEPT !.pc = x]
                ELSE IF x \in {"failed", "verify"} THEN [Start0 EXCEPT !.pc = x, !.res = IF p = "rt" THEN at[p].res ELSE "none"]
                ELSE [at[p] EXCEPT !.pc = x]
<1>1. at[p] \in Control BY DEF TypeOK
<1>2. c.pc = x /\ (x \notin Settled \cup {"failed", "verify"} => c.res = at[p].res) BY <1>1 DEF Control, Start0
<1>3. at' = [at EXCEPT ![p] = c] BY DEF Goto
<1> HIDE DEF c
<1> QED BY <1>2, <1>3 DEF TypeOK

\* The same with a copy.
LEMMA GotoWithAt ==
    ASSUME TypeOK, NEW p \in Proc, NEW x, NEW s, GotoWith(p, x, s)
    PROVE  at'[p].pc = x /\ at'[p].res = at[p].res /\ \A q \in Proc \ {p} : at'[q] = at[q]
<1> DEFINE c == [at[p] EXCEPT !.pc = x, !.snap = s]
<1>1. at[p] \in Control BY DEF TypeOK
<1>2. c.pc = x /\ c.res = at[p].res BY <1>1 DEF Control
<1>3. at' = [at EXCEPT ![p] = c] BY <1>1 DEF GotoWith, TypeOK, Control
<1> HIDE DEF c
<1> QED BY <1>2, <1>3 DEF TypeOK

\* The supervisor goes elsewhere than to a start.
Leaves ==
    /\ at'["rt"] = at["rt"] /\ at'["sup"].pc \notin StartPcs
    /\ oplock' = oplock \/ (oplock = "sup" /\ oplock' = "free")
    /\ at'["sup"].pc \in Roaming \/ (sup.pc \notin Roaming /\ oplock' = oplock)

\* What such a step keeps.
LEMMA LeavesFinish == ASSUME TypeOK, FinishInv, Leaves PROVE FinishInv'
<1>1. Locked' BY DEF FinishInv, Locked, Leaves, sup, rt, Roaming, Cleaning
<1>2. Begun' BY DEF Leaves, Begun, StartPcs, sup
<1> QED BY <1>1, <1>2 DEF FinishInv

\* Most steps of the supervisor.
LEMMA SupLeaves ==
    ASSUME TypeOK, PlainSteps \/ JobSteps \/ RestartStart \/ RestartDrain \/ RecoverActive \/ Recovered
                   \/ BeginProbe \/ Stopping("sup") \/ Reset("sup") \/ Start("sup")
    PROVE  Leaves
<1>g. \A x : Goto("sup", x) => at'["sup"].pc = x /\ at'["rt"] = at["rt"] BY GotoAt DEF Proc
<1>w. \A x, s : GotoWith("sup", x, s) => at'["sup"].pc = x /\ at'["rt"] = at["rt"] BY GotoWithAt DEF Proc
<1>a. After("sup") = "exec" BY DEF After
<1>1. CASE Observe("sup") \/ Adopt("sup") \/ StartupVerify("sup") \/ OpenGate("sup") \/ Drain("sup") \/ Halt("sup")
           \/ StopRequest("sup") \/ Stopping("sup") \/ Reset("sup") \/ Start("sup")
  BY <1>1, <1>g, <1>w, <1>a DEF Observe, Adopt, StartupVerify, OpenGate, Drain, Halt, StopRequest, Stopping, Reset, Start,
     Leaves, StartPcs, Roaming, sup
<1>2. CASE ProbeFails("sup") BY <1>2, <1>g DEF ProbeFails, Leaves, StartPcs, Roaming
<1>3. CASE Sweep \/ Quarantine \/ EndRound \/ BeginProbe \/ Ready \/ Idle \/ IdleSaved \/ Finish
  BY <1>3, <1>g DEF Sweep, Quarantine, EndRound, BeginProbe, Waits, Ready, Idle, IdleSaved, Finish, SupGoto, Unlocked,
     Leaves, StartPcs, Roaming
<1>4. CASE RestartDrain \/ RestartHalt \/ RestartObserve \/ RestartStart \/ RestartAwait
  BY <1>4, <1>g DEF RestartDrain, RestartHalt, RestartObserve, RestartStart, RestartAwait, Phase, SupGoto,
     Leaves, StartPcs, Roaming
<1>5. CASE RestartTarget \/ RestartFinish \/ RestartOpen
  BY <1>5, <1>g, <1>w DEF RestartTarget, RestartFinish, RestartOpen, Phase, SupGoto, Leaves, StartPcs, Roaming
<1>6. CASE Crash \/ RecoverStopped \/ RecoverActive \/ Recovered
  BY <1>6, <1>g DEF Crash, RecoverStopped, RecoverActive, Recovered, SupGoto, Unlocked, Leaves, StartPcs, Roaming
<1>7. CASE JobSteps
  <2>1. \A x, j : WithJob(x, j) => at'["sup"].pc = x /\ at'["rt"] = at["rt"] BY DEF WithJob, TypeOK, Control, Proc
  <2>2. \A x, r : Result(x, r) => at'["sup"].pc = x /\ at'["rt"] = at["rt"] BY DEF Result, TypeOK, Control, Proc
  <2>3. CASE Exec BY <2>1, <2>3, <1>g DEF Exec, SupGoto, Leaves, StartPcs, Roaming
  <2>4. CASE Prepare \/ Submit \/ Acked \/ Publish \/ Cancellation \/ CancelPosted \/ Cleaned
    BY <2>4, <1>g DEF Prepare, Submit, Acked, Publish, Cancellation, CancelPosted, Cleaned, SupGoto,
       Leaves, StartPcs, Roaming
  <2>5. CASE PostJob \/ Poll BY <2>2, <2>5, <1>g DEF PostJob, Poll, SupGoto, Leaves, StartPcs, Roaming
  <2> QED BY <1>7, <2>3, <2>4, <2>5 DEF JobSteps
<1> QED BY <1>1, <1>2, <1>3, <1>4, <1>5, <1>6, <1>7 DEF PlainSteps

\* The steps on the way to a start.
LEMMA BeginsFinish ==
    ASSUME TypeOK, FinishInv, Tick \/ Create \/ Acquire \/ Persist \/ Restart \/ RestartPending
    PROVE  FinishInv'
<1>g. \A x : Goto("sup", x) =>
        /\ at'["sup"].pc = x /\ at'["rt"] = at["rt"]
        /\ x \notin Settled \cup {"failed", "verify"} => at'["sup"].res = sup.res
  BY GotoAt DEF Proc, sup
<1>0. svc \in Service /\ sup = at["sup"] BY DEF TypeOK, sup
<1>1. CASE Tick
  <2>1. PICK v \in Verdicts : at' = [at EXCEPT !["sup"] =
          [Start0 EXCEPT !.pc = Route, !.res = v,
                         !.snap = CASE Route = "begin" ->
                                          [NoService EXCEPT !.mode = IF Wanted THEN "interactive" ELSE "managed"]
                                    [] Route \in {"exec", "failed", "observe"} -> NoService
                                    [] OTHER -> svc]]
    BY <1>1 DEF Tick
  <2> DEFINE s == CASE Route = "begin" -> [NoService EXCEPT !.mode = IF Wanted THEN "interactive" ELSE "managed"]
                    [] Route \in {"exec", "failed", "observe"} -> NoService
                    [] OTHER -> svc
             c == [Start0 EXCEPT !.pc = Route, !.res = v, !.snap = s]
  <2> HIDE DEF s
  <2>a. c.pc = Route /\ c.res = v BY DEF Start0
  <2>b. at' = [at EXCEPT !["sup"] = c] BY <2>1 DEF s
  <2> HIDE DEF c
  <2>2. at'["sup"].pc = Route /\ at'["sup"].res = v /\ at'["rt"] = at["rt"] BY <2>a, <2>b DEF TypeOK, Proc
  <2>3. oplock = "free" /\ oplock' = "sup" /\ svc' = svc /\ sess' = sess BY <1>1 DEF Tick
  <2>4. Locked' BY <2>2, <2>3 DEF FinishInv, Locked, rt
  <2>5. svc.state \in {"stopped", "waiting", "reserving", "starting", "ready", "restarting", "draining", "stopping", "recovery"}
    BY <1>0 DEF Service
  <2>6. Route \in StartPcs => Route = "restarting" /\ svc.state = "restarting" BY <2>5 DEF Route, StartPcs
  <2>7. svc.state = "restarting" /\ v # "finish" => Unfinished BY DEF Verdicts, Lasting, Asked, Unfinished
  <2>8. Begun' BY <2>2, <2>3, <2>6, <2>7 DEF Begun, Unfinished, sup, StartPcs
  <2> QED BY <2>4, <2>8 DEF FinishInv
<1>2. CASE Create
  <2>1. at'["sup"].pc = "acquire" /\ at'["rt"] = at["rt"] BY <1>2, GotoWithAt DEF Create, Proc
  <2>2. oplock = "sup" /\ oplock' = oplock BY <1>2 DEF Create, FinishInv, Locked, Roaming
  <2>3. Locked' BY <2>1, <2>2 DEF FinishInv, Locked, rt
  <2>4. PICK s \in Session \cup {NoSession} :
          /\ s # NoSession => Open(s)
          /\ svc' = [NoService EXCEPT !.state = "reserving", !.mode = sup.snap.mode, !.act = acts', !.session = s]
    BY <1>2 DEF Create
  <2>5. svc'.session = s BY <2>4 DEF NoService
  <2>6. Unfinished' BY <1>2, <2>4, <2>5 DEF Create, Unfinished, Open
  <2>7. Begun' BY <2>1, <2>6 DEF Begun, sup
  <2> QED BY <2>3, <2>7 DEF FinishInv
<1>3. CASE Acquire \/ Persist
  <2>1. at'["sup"].pc \in {"persist", "start", "exec"} /\ at'["rt"] = at["rt"]
    BY <1>3, <1>g DEF Acquire, Persist, Waits, SupGoto
  <2>2. oplock = "sup" /\ oplock' = oplock BY <1>3 DEF Acquire, Persist, FinishInv, Locked, Roaming
  <2>3. Locked' BY <2>1, <2>2 DEF FinishInv, Locked, rt
  <2>4. Unfinished BY <1>3 DEF Acquire, Persist, FinishInv, Begun
  <2>5. svc'.session = svc.session /\ sess' = sess BY <1>0, <1>3 DEF Acquire, Persist, Waits, Service
  <2>6. Unfinished' BY <2>4, <2>5 DEF Unfinished
  <2>7. Begun' BY <2>1, <2>6 DEF Begun, sup
  <2> QED BY <2>3, <2>7 DEF FinishInv
<1>4. CASE Restart
  <2>1. at'["sup"].pc = RestartPcs[sup.snap.phase] /\ at'["rt"] = at["rt"] BY <1>4, <1>g DEF Restart, SupGoto
  <2>2. sup.snap.phase \in Phases BY <1>0, Fields DEF TypeOK, Control, Proc
  <2>3. RestartPcs[sup.snap.phase] \in {"rdrain", "robserve", "rpending", "rstarting", "failed"}
    BY <2>2 DEF RestartPcs, Phases
  <2>4. RestartPcs[sup.snap.phase] = "rpending" => at'["sup"].res = sup.res
    BY <1>4, <1>g DEF Restart, SupGoto, Settled
  <2>5. oplock = "sup" /\ oplock' = oplock /\ svc' = svc /\ sess' = sess
    BY <1>4 DEF Restart, FinishInv, Locked, Roaming
  <2>6. Locked' BY <2>1, <2>5 DEF FinishInv, Locked, rt
  <2>7. sup.res # "finish" => Unfinished BY <1>4 DEF Restart, FinishInv, Begun
  <2>8. Begun' BY <2>1, <2>3, <2>4, <2>5, <2>7 DEF Begun, Unfinished, sup
  <2> QED BY <2>6, <2>8 DEF FinishInv
<1>5. CASE RestartPending
  <2>1. /\ at'["sup"].pc \in {"stopping", "failed", "rstart"} /\ at'["rt"] = at["rt"]
        /\ at'["sup"].pc = "rstart" => sup.res # "finish" /\ at'["sup"].res = sup.res
    BY <1>5, <1>g DEF RestartPending, Phase, SupGoto, Settled
  <2>2. oplock = "sup" /\ oplock' = oplock BY <1>5 DEF RestartPending, FinishInv, Locked, Roaming
  <2>3. Locked' BY <2>1, <2>2 DEF FinishInv, Locked, rt
  <2>4. svc'.session = svc.session /\ sess' = sess BY <1>0, <1>5 DEF RestartPending, Phase, Service
  <2>5. sup.res # "finish" => Unfinished BY <1>5 DEF RestartPending, FinishInv, Begun
  <2>6. Begun' BY <2>1, <2>4, <2>5 DEF Begun, Unfinished, sup
  <2> QED BY <2>3, <2>6 DEF FinishInv
<1> QED BY <1>1, <1>2, <1>3, <1>4, <1>5

\* A step of another process leaves the lock with its holder, and the session
\* unfinished while the supervisor has it.
Beside ==
    /\ at'["sup"] = at["sup"]
    /\ oplock = "sup" => oplock' = "sup" /\ (Unfinished => Unfinished')
    /\ at'["rt"].pc \in Cleaning => oplock' = "rt"

\* What such a step keeps.
LEMMA BesideFinish == ASSUME FinishInv, Beside PROVE FinishInv'
<1>1. Locked' BY DEF FinishInv, Locked, Beside, sup, rt
<1>2. sup.pc \in StartPcs => oplock = "sup" BY DEF FinishInv, Locked, StartPcs, Roaming
<1>3. Begun' BY <1>2 DEF FinishInv, Begun, Beside, sup, StartPcs
<1> QED BY <1>1, <1>3 DEF FinishInv

\* The session of the record and its mark stay, or the record is another one.
LEMMA UnfinishedKept ==
    ASSUME Unfinished,
           \/ svc' = NoService
           \/ svc'.session = svc.session /\ (svc.session # NoSession => sess'[svc.session].rel = sess[svc.session].rel)
    PROVE  Unfinished'
BY DEF Unfinished, NoService

\* The lifecycle in the process of the runtime.
LEMMA RtLifecycleFinish == ASSUME TypeOK, FinishInv, Lifecycle("rt") PROVE FinishInv'
<1>0. svc \in Service /\ sess \in [Session -> SessionRecord] /\ svc.session \in Session \cup {NoSession}
  BY DEF TypeOK, Service
<1>g. \A x : Goto("rt", x) => at'["rt"].pc = x /\ at'["sup"] = at["sup"] BY GotoAt DEF Proc
<1>w. \A x, s : GotoWith("rt", x, s) => at'["rt"].pc = x /\ at'["sup"] = at["sup"] BY GotoWithAt DEF Proc
<1>a. After("rt") = "again" BY DEF After
<1>1. at'["sup"] = at["sup"] /\ at'["rt"].pc \notin Cleaning /\ oplock' = oplock
  <2>1. CASE Observe("rt") \/ Adopt("rt") \/ StartupVerify("rt") \/ OpenGate("rt") \/ Drain("rt") \/ Halt("rt")
             \/ StopRequest("rt") \/ Stopping("rt") \/ Reset("rt") \/ Start("rt")
    BY <2>1, <1>g, <1>w, <1>a DEF Observe, Adopt, StartupVerify, OpenGate, Drain, Halt, StopRequest, Stopping, Reset, Start,
       Cleaning
  <2>2. CASE ProbeFails("rt") BY <2>2, <1>g DEF ProbeFails, Cleaning
  <2> QED BY <2>1, <2>2 DEF Lifecycle
<1>2. \/ svc' = NoService
      \/ svc'.session = svc.session /\ (svc.session # NoSession => sess'[svc.session].rel = sess[svc.session].rel)
  <2>1. CASE Reset("rt") BY <2>1 DEF Reset
  <2>2. CASE ~Reset("rt")
    <3>1. sess' = sess
      BY <2>2 DEF Lifecycle, Observe, Adopt, StartupVerify, OpenGate, Drain, Halt, StopRequest, Stopping, Start, ProbeFails
    <3>2. svc'.session = svc.session
      BY <1>0, <2>2 DEF Lifecycle, Observe, Adopt, StartupVerify, OpenGate, Drain, Halt, StopRequest, Stopping, Start,
         ProbeFails, Service
    <3> QED BY <3>1, <3>2
  <2> QED BY <2>1, <2>2
<1> QED BY <1>1, <1>2, UnfinishedKept, BesideFinish DEF Beside

\* The other steps of the runtime.
LEMMA BridgeFinish == ASSUME TypeOK, FinishInv, Bridge PROVE FinishInv'
<1>0. svc \in Service /\ sess \in [Session -> SessionRecord] /\ svc.session \in Session \cup {NoSession}
  BY DEF TypeOK, Service
<1>g. \A x : RtGoto(x) => at'["rt"].pc = x /\ at'["sup"] = at["sup"] BY GotoAt DEF RtGoto, Proc
<1>t. \A x, r : Turn(x, r) => at'["rt"].pc = x /\ at'["sup"] = at["sup"] BY DEF Turn, TypeOK, Proc, Start0
<1>1. CASE Lifecycle("rt") BY <1>1, RtLifecycleFinish
<1>2. CASE (\E m \in {"interactive", "managed"} : Grant(m)) \/ EffectStarts \/ SharedRefused \/ Started
           \/ ReadyCommit \/ RestartSeen \/ GiveUp
  <2>1. svc' = svc /\ sess' = sess /\ oplock' = oplock
    BY <1>2 DEF Grant, EffectStarts, SharedRefused, Started, ReadyCommit, RestartSeen, GiveUp
  <2>2. at'["sup"] = at["sup"] /\ at'["rt"].pc \notin Cleaning
    BY <1>2, <1>g DEF Grant, EffectStarts, SharedRefused, Started, ReadyCommit, RestartSeen, GiveUp, Cleaning
  <2> QED BY <2>1, <2>2, BesideFinish DEF Beside, Unfinished
<1>3. CASE Monitor \/ Stop
  <2>1. svc' = svc /\ sess' = sess /\ oplock' = oplock BY <1>3 DEF Monitor, Stop
  <2>2. at'["sup"] = at["sup"] /\ at'["rt"].pc \notin Cleaning BY <1>3, <1>g, <1>t DEF Monitor, Stop, Cleaning
  <2> QED BY <2>1, <2>2, BesideFinish DEF Beside, Unfinished
<1>4. CASE SharedBegin
  <2>1. at'["sup"] = at["sup"] /\ at'["rt"].pc \notin Cleaning /\ oplock' = oplock
    BY <1>4, <1>g DEF SharedBegin, Cleaning
  <2>2. PICK s \in Session \cup {NoSession} :
          /\ svc' = [NoService EXCEPT !.state = "starting", !.mode = grant.mode, !.act = grant.act,
                                      !.lease = grant.act, !.session = s]
          /\ sess' = [t \in Session |-> IF t = s THEN [NoOne EXCEPT !.st = "open", !.of = grant.act] ELSE sess[t]]
    BY <1>4 DEF SharedBegin
  <2>3. svc'.session = s BY <2>2 DEF NoService
  <2>4. s # NoSession => sess'[s].rel = FALSE BY <2>2 DEF NoOne
  <2>5. Unfinished' BY <2>3, <2>4 DEF Unfinished
  <2> QED BY <2>1, <2>5, BesideFinish DEF Beside
<1>5. CASE ReleaseGrant BY <1>5, BesideFinish DEF ReleaseGrant, serviceVars, Beside, FinishInv, Locked, Unfinished, rt
<1>6. CASE RetireStopped \/ ReconcileAbsent \/ Advance \/ RtCrash \/ Reconciled \/ CleanupStop \/ CleanupPurge \/ CleanupDone
  <2>1. at'["sup"] = at["sup"]
    BY <1>6, <1>g, <1>t DEF RetireStopped, ReconcileAbsent, Advance, RtCrash, Reconciled, CleanupStop, CleanupPurge, CleanupDone
  <2>2. CASE RetireStopped \/ ReconcileAbsent \/ Advance
    <3>1. oplock = "free" BY <2>2 DEF RetireStopped, ReconcileAbsent, Advance, Watched
    <3>2. at'["rt"].pc \notin Cleaning
      BY <2>2, <1>g, <1>t DEF RetireStopped, ReconcileAbsent, Advance, Cleaning
    <3> QED BY <2>1, <3>1, <3>2, BesideFinish DEF Beside
  <2>3. CASE RtCrash
    <3>1. at'["rt"].pc \notin Cleaning /\ svc' = svc /\ sess' = sess /\ (oplock = "sup" => oplock' = "sup")
      BY <2>3, <1>g DEF RtCrash, Cleaning
    <3> QED BY <2>1, <3>1, BesideFinish DEF Beside, Unfinished
  <2>4. CASE Reconciled \/ CleanupStop \/ CleanupPurge \/ CleanupDone
    <3>1. oplock = "rt" BY <2>4 DEF Reconciled, CleanupStop, CleanupPurge, CleanupDone, FinishInv, Locked, Cleaning
    <3>2. CASE Reconciled
      <4>1. at'["rt"].pc = "sleep" BY <1>g, <3>2 DEF Reconciled
      <4> QED BY <2>1, <3>1, <4>1, BesideFinish DEF Beside, Cleaning
    <3>3. CASE CleanupStop \/ CleanupPurge \/ CleanupDone
      <4>1. oplock' = oplock BY <3>3 DEF CleanupStop, CleanupPurge, CleanupDone
      <4> QED BY <2>1, <3>1, <4>1, BesideFinish DEF Beside
    <3> QED BY <2>4, <3>2, <3>3
  <2> QED BY <1>6, <2>2, <2>3, <2>4
<1>7. CASE RtUnlock
  BY <1>7, BesideFinish DEF RtUnlock, Beside, Cleaning, rt
<1>8. CASE Cleanup
  <2>1. at'["sup"] = at["sup"] BY <1>8 DEF Cleanup, TypeOK, Proc
  <2>2. oplock = "free" /\ oplock' = "rt" BY <1>8 DEF Cleanup
  <2> QED BY <2>1, <2>2, BesideFinish DEF Beside
<1> QED BY <1>1, <1>2, <1>3, <1>4, <1>5, <1>6, <1>7, <1>8 DEF Bridge

\* Finish waits for the lock; a deadline or a new session does not finish one.
LEMMA ServeFinish == ASSUME TypeOK, FinishInv, Serve \/ Deadline \/ Surroundings PROVE FinishInv'
<1>0. svc \in Service /\ sess \in [Session -> SessionRecord] /\ svc.session \in Session \cup {NoSession}
  BY DEF TypeOK, Service
<1>1. at' = at /\ oplock' = oplock
  BY DEF Serve, SubmitJob, CancelJob, SubmitSession, ReleaseSession, RequestRestart, NativeSubmit, NativeForward,
     NativeArrives, Deadline, Surroundings, serviceVars
<1>2. CASE oplock = "sup"
  <2>1. svc' = svc
    BY <1>2 DEF Serve, SubmitJob, CancelJob, SubmitSession, ReleaseSession, RequestRestart, NativeSubmit, NativeForward,
       NativeArrives, Deadline, Surroundings, serviceVars
  <2>2. ASSUME NEW s \in Session, ~sess[s].rel PROVE ~sess'[s].rel
    <3>1. CASE sess' = sess BY <2>2, <3>1
    <3>2. CASE sess' # sess
      <4>1. \/ \E t \in Session : SubmitSession(t)
            \/ \E t \in Session : sess' = [sess EXCEPT ![t].over = TRUE]
        BY <1>2, <3>2 DEF Serve, SubmitJob, CancelJob, ReleaseSession, RequestRestart, NativeSubmit, NativeForward,
           NativeArrives, Deadline, Surroundings, serviceVars
      <4>2. ASSUME NEW t \in Session, SubmitSession(t) PROVE ~sess'[s].rel
        BY <1>0, <2>2, <4>2 DEF SubmitSession, NoOne
      <4>3. ASSUME NEW t \in Session, sess' = [sess EXCEPT ![t].over = TRUE] PROVE ~sess'[s].rel
        BY <1>0, <2>2, <4>3 DEF SessionRecord
      <4> QED BY <4>1, <4>2, <4>3
    <3> QED BY <3>1, <3>2
  <2>3. Unfinished => Unfinished' BY <1>0, <2>1, <2>2 DEF Unfinished
  <2> QED BY <1>1, <2>3, BesideFinish DEF Beside, FinishInv, Locked, rt
<1>3. CASE oplock # "sup" BY <1>1, <1>3, BesideFinish DEF Beside, FinishInv, Locked, rt
<1> QED BY <1>2, <1>3

\* Every step.
LEMMA NextFinish == ASSUME TypeOK, FinishInv, [Next]_bridgeVars PROVE FinishInv'
<1>1. CASE UNCHANGED bridgeVars
  BY <1>1, BesideFinish DEF bridgeVars, vars, serviceVars, Beside, FinishInv, Locked, Unfinished, rt
<1>2. CASE Next
  <2>1. Supervise => PlainSteps \/ SpecialSteps \/ JobSteps
    BY DEF Supervise, Lifecycle, PlainSteps, SpecialSteps, JobSteps
  <2>2. Crash => PlainSteps BY DEF PlainSteps
  <2>3. CASE PlainSteps \/ JobSteps BY <2>3, SupLeaves, LeavesFinish
  <2>4. CASE SpecialSteps BY <2>4, SupLeaves, LeavesFinish, BeginsFinish DEF SpecialSteps
  <2> QED BY <1>2, <2>1, <2>2, <2>3, <2>4, BridgeFinish, ServeFinish DEF Next
<1> QED BY <1>1, <1>2

\* A start of the unit is requested in three places.
LEMMA OthersStartNothing ==
    ASSUME TypeOK, [Next]_bridgeVars, ~(Start("sup") \/ Start("rt") \/ RestartStart)
    PROVE  unit' = unit \/ unit'.st # "pending"
<1>0. DOMAIN unit = {"st", "inv", "act", "for"} BY DEF TypeOK, BackendTypeOK
<1>1. CASE UNCHANGED bridgeVars BY <1>1 DEF bridgeVars, vars, backendVars
<1>2. ASSUME NEW p \in Proc, Lifecycle(p) PROVE unit' = unit \/ unit'.st # "pending"
  <2>1. ~Start(p) BY DEF Proc
  <2> QED BY <1>0, <1>2, <2>1 DEF Lifecycle, Observe, Adopt, StartupVerify, OpenGate, Drain, Halt, StopRequest, StopUnit,
                           Stopping, Reset, ProbeFails, backendVars
<1>3. CASE Bridge
  <2>1. CASE Lifecycle("rt") BY <1>2, <2>1 DEF Proc
  <2>2. CASE ~Lifecycle("rt")
    BY <1>0, <1>3, <2>2 DEF Bridge, Grant, EffectStarts, SharedBegin, SharedRefused, Started, Monitor, ReadyCommit, RestartSeen,
         ReleaseGrant, Stop, GiveUp, RetireStopped, ReconcileAbsent, Advance, RtUnlock, Cleanup, CleanupStop, StopUnit,
         CleanupPurge, CleanupDone, Reconciled, RtCrash, backendVars
  <2> QED BY <2>1, <2>2
<1>4. CASE Supervise
  <2>1. CASE Lifecycle("sup") BY <1>2, <2>1 DEF Proc
  <2>2. CASE Sweep \/ Tick \/ Quarantine \/ EndRound \/ BeginProbe \/ Create \/ Acquire \/ Persist \/ Ready \/ Idle
             \/ IdleSaved \/ Finish \/ Restart \/ RestartDrain \/ RestartHalt \/ RestartObserve \/ RestartPending
             \/ RestartAwait \/ RestartTarget \/ RestartFinish \/ RestartOpen
    BY <1>0, <2>2 DEF Sweep, Tick, Quarantine, EndRound, BeginProbe, Create, Acquire, Persist, Ready, Idle, IdleSaved, Finish,
         Restart, RestartDrain, RestartHalt, RestartObserve, RestartPending, RestartAwait, RestartTarget,
         RestartFinish, RestartOpen, backendVars
  <2>3. CASE JobSteps \/ RecoverStopped \/ RecoverActive \/ Recovered
    BY <2>3 DEF JobSteps, Exec, Prepare, Submit, PostJob, Acked, Poll, Publish, Cancellation, CancelPosted, Cleaned,
       RecoverStopped, RecoverActive, Recovered, backendVars
  <2> QED BY <1>4, <2>1, <2>2, <2>3 DEF Supervise, JobSteps
<1>5. CASE Serve \/ Deadline \/ Crash
  BY <1>5 DEF Serve, SubmitJob, CancelJob, SubmitSession, ReleaseSession, RequestRestart, NativeSubmit, NativeForward,
     NativeArrives, Deadline, Crash, backendVars
<1>6. CASE Surroundings
  <2>1. CASE UnitStarts
    <3>1. PICK n, a : unit' = [unit EXCEPT !.st = "up", !.inv = n, !.act = a] BY <2>1 DEF UnitStarts
    <3>2. unit'.st = "up" BY <1>0, <3>1
    <3> QED BY <3>2
  <2>2. CASE UnitEnds
    <3>1. unit'.st = "gone" BY <2>2 DEF UnitEnds, NoUnit
    <3> QED BY <3>1
  <2>3. CASE AuthorityExpires \/ Render \/ OtherHolds BY <2>3 DEF AuthorityExpires, Render, OtherHolds
  <2> QED BY <1>6, <2>1, <2>2, <2>3 DEF Surroundings
<1> QED BY <1>1, <1>3, <1>4, <1>5, <1>6 DEF Next

\* A start comes with an unfinished session, but for the first of a reservation.
LEMMA StartFinish ==
    ASSUME TypeOK, FinishInv, [Next]_bridgeVars, Gone, unit'.st = "pending", svc.session # NoSession,
           sess[svc.session].rel
    PROVE  rt.pc = "start" /\ unit'.for = grant.act
<1>1. unit' # unit BY DEF Gone
<1>2. Start("sup") \/ Start("rt") \/ RestartStart BY <1>1, OthersStartNothing
<1>3. CASE Start("rt")
  <2>1. rt.pc = "start" BY <1>3 DEF Start, rt
  <2>2. unit'.for = grant.act BY <1>1, <1>3 DEF Start, StartUnit, TypeOK, BackendTypeOK
  <2> QED BY <2>1, <2>2
<1>4. CASE Start("sup") \/ RestartStart
  <2>1. sup.pc \in {"start", "rstart"} BY <1>4 DEF Start, RestartStart, sup
  <2> QED BY <2>1 DEF FinishInv, Begun, Unfinished
<1> QED BY <1>2, <1>3, <1>4

\* No start is submitted for a session whose Finish was accepted, but for the
\* first start of a reservation, which the runtime requests for the session it
\* has just recorded: whatever restarts, crashes, clean-ups and reservations
\* come between the look at the session and the start (activation.rs,
\* restart_lifecycle.rs, shared_activation.rs).
THEOREM NoStartAfterFinishHolds == Spec => NoStartAfterFinish
<1>1. Init => FinishInv
  <2>1. Init => sup.pc = "recover" /\ rt.pc = "sleep" BY DEF Init, ServiceInit, sup, rt, Start0, Proc
  <2> QED BY <2>1 DEF FinishInv, Locked, Begun, Roaming, Cleaning
<1>2. TypeOK /\ FinishInv /\ [Next]_bridgeVars => FinishInv' BY NextFinish
<1>3. TypeOK /\ FinishInv /\ [Next]_bridgeVars
        => [Gone /\ unit'.st = "pending" /\ svc.session # NoSession /\ sess[svc.session].rel
              => rt.pc = "start" /\ unit'.for = grant.act]_bridgeVars
  BY StartFinish
<1> QED BY <1>1, <1>2, <1>3, MediaTyped, PTL DEF Spec, NoStartAfterFinish

-----------------------------------------------------------------------------
(* Work is drained before the unit is stopped.                               *)

\* A unit that runs has an invocation; one that does not run has no work.
Generation == unit.st = "up" => unit.inv # 0
Workless == unit.st \in {"gone", "pending"} => queue = {} /\ native \in {"none", "sent"}

\* Only an interactive activation is restarted.
Repeated == svc.phase # "none" => svc.mode = "interactive"

\* While a unit of the media service runs, only its supervisor acts upon it. A
\* record that was not ready yet, or is not managed, has no job in the queue; the
\* record, the gate and the queue are as the supervisor has seen them.
Seen ==
    /\ svc.state = "starting" \/ svc.mode # "managed" => queue = {}
    /\ sup.pc \in JobPlaces => svc.state = "ready" /\ svc.mode = "managed"
    /\ sup.pc \in {"observe", "adopt", "verify"} => svc.state = "starting"
    /\ sup.pc \in {"rdrain", "halt", "rhalt"} => auth.mode = "closed"
    /\ sup.pc \in {"halt", "rhalt"} => QueueEmpty
    /\ sup.pc = "rstop" => svc.phase # "none"
    /\ sup.pc = "stopreq" =>
          /\ queue = {}
          /\ \/ auth.mode = "closed" /\ native # "queued"
             \/ sup.snap.state = "starting" \/ svc.phase = "finishing"
DrainInv == Generation /\ Workless /\ Repeated /\ (~Foreign => Seen)

\* While a unit of the media service runs, the runtime sleeps and takes no grant.
LEMMA OwnSleeps == ASSUME TypeOK, Rest, ~Foreign PROVE ~Bridge
<1>1. lease # NoAct /\ lease \notin grants BY DEF Rest, OwnInv, Mine
<1>2. grant.st = "none" BY <1>1 DEF Rest, Asleep
<1>3. rt.pc = "sleep" /\ at["rt"].pc = "sleep" BY <1>2 DEF Rest, Asleep, rt
<1>4. ~(\E m \in {"interactive", "managed"} : Grant(m)) BY <1>1 DEF Grant
<1>5. ~(EffectStarts \/ SharedBegin \/ SharedRefused \/ Started \/ Monitor \/ ReadyCommit \/ RestartSeen)
  BY <1>2, <1>3 DEF EffectStarts, SharedBegin, SharedRefused, Started, Monitor, ReadyCommit, RestartSeen
<1>6. ~(ReleaseGrant \/ Stop \/ GiveUp \/ RetireStopped \/ ReconcileAbsent \/ Advance \/ RtUnlock)
  BY <1>2, <1>3 DEF ReleaseGrant, Stop, GiveUp, RetireStopped, ReconcileAbsent, Advance, Watched, RtUnlock
<1>7. ~(Cleanup \/ CleanupStop \/ CleanupPurge \/ CleanupDone \/ Reconciled \/ RtCrash)
  BY <1>2, <1>3 DEF Cleanup, CleanupStop, CleanupPurge, CleanupDone, Reconciled, RtCrash
<1>8. ~Lifecycle("rt")
  BY <1>3 DEF Lifecycle, Observe, Adopt, StartupVerify, OpenGate, Drain, Halt, StopRequest, Stopping, Reset, Start,
              ProbeFails, Probing
<1> QED BY <1>4, <1>5, <1>6, <1>7, <1>8 DEF Bridge

\* What a step does to the unit and to the work it holds.
UnitSame == unit' = unit /\ queue' = queue /\ (native' = native \/ native' = "none")
UnitAsked ==
    /\ queue' = queue /\ native' = native
    /\ unit'.inv = unit.inv /\ unit'.st \in {"stopping", "pending"} /\ unit.st # unit'.st
    /\ unit'.st = "pending" => Gone
    /\ unit'.st = "stopping" => ~Gone /\ unit'.for = unit.for

\* A request to the unit.
LEMMA Asks ==
    ASSUME TypeOK, queue' = queue, native' = native
    PROVE  /\ \A i : StopUnit(i) => UnitSame \/ UnitAsked
           /\ \A a : Gone /\ StartUnit(a) => UnitAsked
           /\ ~Gone /\ unit' = [unit EXCEPT !.st = "stopping"] => UnitSame \/ UnitAsked
<1>1. DOMAIN unit = {"st", "inv", "act", "for"} BY DEF TypeOK, BackendTypeOK
<1>2. unit.st = "stopping" => [unit EXCEPT !.st = "stopping"] = unit BY DEF TypeOK, BackendTypeOK
<1>3. \A a : Gone /\ StartUnit(a) => UnitAsked BY <1>1 DEF StartUnit, Gone, UnitAsked
<1>4. ASSUME ~Gone, unit' = [unit EXCEPT !.st = "stopping"] PROVE UnitSame \/ UnitAsked
  <2>1. unit'.st = "stopping" /\ unit'.inv = unit.inv /\ unit'.for = unit.for BY <1>1, <1>4
  <2> QED BY <1>2, <1>4, <2>1 DEF UnitSame, UnitAsked
<1>5. \A i : StopUnit(i) => UnitSame \/ UnitAsked BY <1>4 DEF StopUnit, UnitSame
<1> QED BY <1>3, <1>4, <1>5

\* Work comes to a unit that answers, or there is no more of it than before.
Works == unit' = unit /\ (Answers \/ (queue' \subseteq queue /\ native' \in {native, "none", "sent"}))

\* What every step does to the unit and its work.
LEMMA UnitStep ==
    ASSUME TypeOK, [Next]_bridgeVars PROVE Works \/ UnitAsked \/ UnitStarts \/ UnitEnds
<1>0. UnitSame => Works BY DEF UnitSame, Works
<1>1. CASE UNCHANGED bridgeVars BY <1>0, <1>1 DEF bridgeVars, vars, backendVars, workVars, UnitSame
<1>2. ASSUME NEW p \in Proc, Lifecycle(p) PROVE Works \/ UnitAsked
  <2>1. queue' = queue /\ native' = native
    BY <1>2 DEF Lifecycle, Observe, Adopt, StartupVerify, OpenGate, Drain, Halt, StopRequest, Stopping, Reset, Start,
       ProbeFails, backendVars, workVars
  <2>2. CASE Start(p) \/ StopRequest(p) BY <1>0, <2>1, <2>2, Asks DEF Start, StopRequest, CanStart, UnitSame
  <2>3. CASE ~(Start(p) \/ StopRequest(p))
    <3>1. unit' = unit
      BY <1>2, <2>3 DEF Lifecycle, Observe, Adopt, StartupVerify, OpenGate, Drain, Halt, Stopping, Reset, ProbeFails, backendVars
    <3> QED BY <1>0, <2>1, <3>1 DEF UnitSame
  <2> QED BY <2>2, <2>3
<1>3. CASE Bridge
  <2>1. CASE Lifecycle("rt") BY <1>2, <2>1 DEF Proc
  <2>2. CASE CleanupStop
    <3>1. queue' = queue /\ native' = native BY <2>2 DEF CleanupStop, workVars
    <3> QED BY <1>0, <2>2, <3>1, Asks DEF CleanupStop, UnitSame
  <2>3. CASE ~Lifecycle("rt") /\ ~CleanupStop
    <3>1. UnitSame
      BY <1>3, <2>3 DEF Bridge, Grant, EffectStarts, SharedBegin, SharedRefused, Started, Monitor, ReadyCommit, RestartSeen,
         ReleaseGrant, Stop, GiveUp, RetireStopped, ReconcileAbsent, Advance, RtUnlock, Cleanup,
         CleanupPurge, CleanupDone, Reconciled, RtCrash, backendVars, workVars, UnitSame
    <3> QED BY <1>0, <3>1
  <2> QED BY <2>1, <2>2, <2>3
<1>4. CASE Supervise
  <2>1. CASE Lifecycle("sup") BY <1>2, <2>1 DEF Proc
  <2>2. CASE Sweep \/ Tick \/ Quarantine \/ EndRound \/ BeginProbe \/ Create \/ Acquire \/ Persist \/ Ready \/ Idle
             \/ IdleSaved \/ Finish \/ Restart \/ RestartDrain \/ RestartHalt \/ RestartObserve \/ RestartPending
             \/ RestartTarget \/ RestartFinish \/ RestartOpen
    <3>1. UnitSame
      BY <2>2 DEF Sweep, Tick, Quarantine, EndRound, BeginProbe, Create, Acquire, Persist, Ready, Idle, IdleSaved, Finish,
         Restart, RestartDrain, RestartHalt, RestartObserve, RestartPending, RestartTarget,
         RestartFinish, RestartOpen, backendVars, workVars, UnitSame
    <3> QED BY <1>0, <3>1
  <2>3. CASE RestartStart \/ RestartAwait
    <3>1. queue' = queue /\ native' = native BY <2>3 DEF RestartStart, RestartAwait, workVars
    <3> QED BY <1>0, <2>3, <3>1, Asks DEF RestartStart, RestartAwait, CanStart, UnitSame
  <2>4. CASE PostJob \/ CancelPosted BY <2>4 DEF PostJob, CancelPosted, Works
  <2>5. CASE Exec \/ Prepare \/ Submit \/ Acked \/ Poll \/ Publish \/ Cancellation \/ Cleaned
             \/ RecoverStopped \/ RecoverActive \/ Recovered
    <3>1. UnitSame
      BY <2>5 DEF Exec, Prepare, Submit, Acked, Poll, Publish, Cancellation, Cleaned,
         RecoverStopped, RecoverActive, Recovered, backendVars, workVars, UnitSame
    <3> QED BY <1>0, <3>1
  <2> QED BY <1>4, <2>1, <2>2, <2>3, <2>4, <2>5 DEF Supervise
<1>5. CASE Serve \/ Deadline \/ Crash
  BY <1>5 DEF Serve, SubmitJob, CancelJob, SubmitSession, ReleaseSession, RequestRestart, NativeSubmit, NativeForward,
     NativeArrives, Deadline, Crash, backendVars, workVars, Works
<1>6. CASE Surroundings
  <2>1. CASE Render BY <2>1 DEF Render, Works
  <2>2. CASE AuthorityExpires \/ OtherHolds BY <1>0, <2>2 DEF AuthorityExpires, OtherHolds, workVars, UnitSame
  <2> QED BY <1>6, <2>1, <2>2 DEF Surroundings
<1> QED BY <1>1, <1>3, <1>4, <1>5, <1>6 DEF Next

\* A unit that runs was started; a unit that is gone took its work with it.
LEMMA WorkStep ==
    ASSUME TypeOK, Generation, Workless, [Next]_bridgeVars PROVE Generation' /\ Workless'
<1>0. DOMAIN unit = {"st", "inv", "act", "for"} /\ starts \in Nat BY BackendAssumption DEF TypeOK, BackendTypeOK
<1>1. CASE Works BY <1>1 DEF Works, Answers, Generation, Workless
<1>2. CASE UnitAsked BY <1>2 DEF UnitAsked, Generation, Workless, Gone
<1>3. CASE UnitStarts
  <2>1. PICK n, a : unit' = [unit EXCEPT !.st = "up", !.inv = n, !.act = a] /\ n = starts + 1 BY <1>3 DEF UnitStarts
  <2>2. unit'.st = "up" /\ unit'.inv # 0 BY <1>0, <2>1
  <2> QED BY <2>2 DEF Generation, Workless
<1>4. CASE UnitEnds
  <2>1. unit'.st = "gone" /\ queue' = {} /\ native' \in {"none", "sent"} BY <1>4 DEF UnitEnds, NoUnit
  <2> QED BY <2>1 DEF Generation, Workless
<1> QED BY <1>1, <1>2, <1>3, <1>4, UnitStep

\* A phase is written into a record of an interactive activation.
Phased == svc'.phase = "none" \/ (svc'.mode = svc.mode /\ (svc.phase # "none" \/ svc.mode = "interactive"))

\* Every step keeps this of the record.
LEMMA RecordStep ==
    ASSUME TypeOK, Repeated, [Next]_bridgeVars PROVE Repeated'
<1> SUFFICES Phased BY DEF Phased, Repeated
<1>0. svc \in Service /\ NoService.phase = "none" BY DEF TypeOK, NoService
<1>s. svc' = svc => Phased BY DEF Phased, Repeated
<1>p. \A ph, x : Phase(ph, x) => Phased BY <1>0 DEF Phase, Phased, Service
<1>t. \A x \in {"stopped", "waiting", "reserving", "starting", "ready", "restarting", "draining", "stopping", "recovery"} :
        svc' = [svc EXCEPT !.state = x] => Phased
  BY <1>0 DEF Phased, Service
<1>1. CASE UNCHANGED bridgeVars BY <1>s, <1>1 DEF bridgeVars, vars, serviceVars
<1>2. ASSUME NEW p \in Proc, Lifecycle(p) PROVE Phased
  <2>1. CASE Adopt(p)
    <3>1. svc' = svc \/ svc' = [svc EXCEPT !.inv = unit.inv] BY <2>1 DEF Adopt
    <3> QED BY <1>0, <3>1 DEF Phased, Service
  <2>2. CASE StartupVerify(p) \/ OpenGate(p) \/ Halt(p)
    BY <1>s, <1>t, <2>2 DEF StartupVerify, OpenGate, Halt
  <2>3. CASE Reset(p) BY <1>0, <2>3 DEF Reset, Phased
  <2>4. CASE ~(Adopt(p) \/ StartupVerify(p) \/ OpenGate(p) \/ Halt(p) \/ Reset(p))
    BY <1>s, <1>2, <2>4 DEF Lifecycle, Observe, Drain, StopRequest, Stopping, Start, ProbeFails
  <2> QED BY <2>1, <2>2, <2>3, <2>4
<1>3. CASE Bridge
  <2>1. CASE Lifecycle("rt") BY <1>2, <2>1 DEF Proc
  <2>2. CASE SharedBegin
    <3>1. PICK s : svc' = [NoService EXCEPT !.state = "starting", !.mode = grant.mode, !.act = grant.act,
                                            !.lease = grant.act, !.session = s]
      BY <2>2 DEF SharedBegin
    <3>2. svc'.phase = "none" BY <3>1 DEF NoService
    <3> QED BY <3>2 DEF Phased
  <2>3. CASE Advance BY <1>s, <1>t, <2>3 DEF Advance
  <2>4. CASE Cleanup
    <3>1. svc' = [svc EXCEPT !.mode = "closed", !.state = "recovery", !.phase = "none"] BY <2>4 DEF Cleanup
    <3>2. svc'.phase = "none" BY <1>0, <3>1 DEF Service
    <3> QED BY <3>2 DEF Phased
  <2>5. CASE CleanupDone BY <1>0, <1>s, <2>5 DEF CleanupDone, Phased
  <2>6. CASE ~(Lifecycle("rt") \/ SharedBegin \/ Advance \/ Cleanup \/ CleanupDone)
    BY <1>s, <1>3, <2>6 DEF Bridge, Grant, EffectStarts, SharedRefused, Started, Monitor, ReadyCommit, RestartSeen,
       ReleaseGrant, Stop, GiveUp, RetireStopped, ReconcileAbsent, RtUnlock, CleanupStop, CleanupPurge, Reconciled, RtCrash,
       serviceVars
  <2> QED BY <2>1, <2>2, <2>3, <2>4, <2>5, <2>6
<1>4. CASE Supervise
  <2>1. CASE Lifecycle("sup") BY <1>2, <2>1 DEF Proc
  <2>2. CASE Quarantine \/ BeginProbe \/ Acquire \/ IdleSaved \/ Finish
    BY <1>s, <1>t, <2>2 DEF Quarantine, BeginProbe, Waits, Acquire, IdleSaved, Finish
  <2>3. CASE Create
    <3>1. PICK s : svc' = [NoService EXCEPT !.state = "reserving", !.mode = sup.snap.mode, !.act = acts', !.session = s]
      BY <2>3 DEF Create
    <3>2. svc'.phase = "none" BY <3>1 DEF NoService
    <3> QED BY <3>2 DEF Phased
  <2>4. CASE Persist
    <3>1. svc' = [svc EXCEPT !.lease = sup.snap.act, !.state = "starting"] BY <2>4 DEF Persist
    <3>2. svc'.phase = svc.phase /\ svc'.mode = svc.mode BY <1>0, <3>1 DEF Service
    <3> QED BY <3>2 DEF Phased
  <2>5. CASE RestartHalt \/ RestartObserve \/ RestartPending \/ RestartFinish
    BY <1>p, <1>s, <2>5 DEF RestartHalt, RestartObserve, RestartPending, RestartFinish
  <2>6. CASE RestartTarget
    <3>1. svc' = svc \/ svc' = [svc EXCEPT !.target = unit.inv] BY <2>6 DEF RestartTarget
    <3>2. svc'.phase = svc.phase /\ svc'.mode = svc.mode BY <1>0, <3>1 DEF Service
    <3> QED BY <3>2 DEF Phased
  <2>7. CASE RestartOpen
    <3>1. \/ svc' = svc
          \/ svc.phase # "none" /\ svc' = [svc EXCEPT !.inv = sup.snap.inv, !.phase = "completed", !.state = "ready"]
      BY <2>7 DEF RestartOpen
    <3>2. svc' = svc \/ (svc.phase # "none" /\ svc'.mode = svc.mode) BY <1>0, <3>1 DEF Service
    <3> QED BY <3>2 DEF Phased
  <2>8. CASE Recovered BY <1>0, <2>8 DEF Recovered, Phased
  <2>9. CASE \/ Sweep \/ Tick \/ EndRound \/ Ready \/ Idle \/ Restart \/ RestartDrain \/ RestartStart \/ RestartAwait
             \/ JobSteps \/ RecoverStopped \/ RecoverActive
    BY <1>s, <2>9 DEF Sweep, Tick, EndRound, Ready, Idle, Restart, RestartDrain, RestartStart, RestartAwait,
       JobSteps, Exec, Prepare, Submit, PostJob, Acked, Poll, Publish, Cancellation, CancelPosted, Cleaned,
       RecoverStopped, RecoverActive
  <2> QED BY <1>4, <2>1, <2>2, <2>3, <2>4, <2>5, <2>6, <2>7, <2>8, <2>9 DEF Supervise, JobSteps
<1>5. CASE Serve \/ Deadline \/ Crash \/ Surroundings
  <2>1. CASE \E s \in Session : ReleaseSession(s)
    BY <1>s, <1>t, <2>1 DEF ReleaseSession
  <2>2. CASE RequestRestart
    <3>1. svc.mode = "interactive"
          /\ svc' = [svc EXCEPT !.state = "restarting", !.phase = "draining", !.prev = unit.inv, !.target = 0]
      BY <2>2 DEF RequestRestart
    <3>2. svc'.mode = svc.mode BY <1>0, <3>1 DEF Service
    <3> QED BY <3>1, <3>2 DEF Phased
  <2>3. CASE ~((\E s \in Session : ReleaseSession(s)) \/ RequestRestart)
    BY <1>s, <1>5, <2>3 DEF Serve, SubmitJob, CancelJob, SubmitSession, NativeSubmit, NativeForward,
       NativeArrives, Deadline, Crash, Surroundings, serviceVars
  <2> QED BY <2>1, <2>2, <2>3
<1> QED BY <1>1, <1>3, <1>4, <1>5 DEF Next

\* Where something is claimed of what the supervisor has seen.
SeenPcs == JobPlaces \cup {"observe", "adopt", "verify", "rdrain", "halt", "rhalt", "rstop", "stopreq"}

\* A record that is not ready or not managed was so before.
Backwards == svc'.state = "starting" \/ svc'.mode # "managed" => svc.state = "starting" \/ svc.mode # "managed"

\* The supervisor goes to other places.
LEMMA AwaySeen ==
    ASSUME Seen, at'["sup"].pc \notin SeenPcs, queue' \subseteq queue, Backwards PROVE Seen'
<1>1. sup'.pc \notin SeenPcs BY DEF sup
<1>2. (svc.state = "starting" \/ svc.mode # "managed" => queue = {})' BY DEF Seen, Backwards
<1> QED BY <1>1, <1>2 DEF Seen, SeenPcs

\* The supervisor stays where it is: the world is no more open than before.
LEMMA StillSeen ==
    ASSUME Seen, at'["sup"] = at["sup"], sup.pc \in SeenPcs => svc' = svc, Backwards, queue' \subseteq queue,
           auth'.mode \in {auth.mode, "closed"},
           native' = "queued" => native = "queued" \/ auth.mode # "closed"
    PROVE  Seen'
<1>1. CASE sup.pc \notin SeenPcs BY <1>1, AwaySeen DEF sup
<1>2. CASE sup.pc \in SeenPcs
  <2>1. svc' = svc /\ sup' = sup BY <1>2 DEF sup
  <2>2. QueueEmpty /\ auth.mode = "closed" => QueueEmpty' BY DEF QueueEmpty
  <2> QED BY <2>1, <2>2 DEF Seen
<1> QED BY <1>1, <1>2

\* The supervisor has a job of a managed activation at hand.
LEMMA JobSeen ==
    ASSUME svc.state = "ready", svc.mode = "managed", svc' = svc, at'["sup"].pc \in JobPlaces \/ at'["sup"].pc \notin SeenPcs
    PROVE  Seen'
<1>1. sup'.pc \notin SeenPcs \ JobPlaces BY DEF sup
<1> QED BY <1>1 DEF Seen, SeenPcs, JobPlaces

\* A unit of the media service is started with nothing in its queue.
LEMMA BegunSeen ==
    ASSUME TypeOK, Rest, Workless, [Next]_bridgeVars, Foreign, ~Foreign' PROVE Seen'
<1>0. unit'.st # "gone" /\ unit'.for \notin grants' BY DEF Foreign, Gone
<1>g. grants \subseteq grants'
  BY DEF Next, Bridge, Grant, EffectStarts, SharedBegin, SharedRefused, Started, Monitor, ReadyCommit, RestartSeen,
     ReleaseGrant, Stop, GiveUp, RetireStopped, ReconcileAbsent, Advance, RtUnlock, Cleanup, CleanupStop,
     CleanupPurge, CleanupDone, Reconciled, RtCrash, bridgeVars
<1>1. unit'.st = "pending" /\ Gone /\ UnitAsked
  <2>1. CASE Works BY <1>0, <1>g, <2>1 DEF Works, Foreign, Gone
  <2>2. CASE UnitAsked
    <3>1. unit'.st # "stopping" BY <1>0, <1>g, <2>2 DEF UnitAsked, Foreign
    <3> QED BY <2>2, <3>1 DEF UnitAsked
  <2>3. CASE UnitStarts
    <3>1. PICK n, a : unit' = [unit EXCEPT !.st = "up", !.inv = n, !.act = a] BY <2>3 DEF UnitStarts
    <3>2. unit'.for = unit.for BY <3>1 DEF TypeOK, BackendTypeOK
    <3>3. ~Gone BY <2>3 DEF UnitStarts, Gone
    <3> QED BY <1>0, <1>g, <3>2, <3>3 DEF Foreign
  <2>4. CASE UnitEnds
    <3>1. unit'.st = "gone" BY <2>4 DEF UnitEnds, NoUnit
    <3> QED BY <1>0, <3>1
  <2> QED BY <2>1, <2>2, <2>3, <2>4, UnitStep
<1>2. unit' # unit BY <1>1 DEF Gone
<1>3. Start("sup") \/ Start("rt") \/ RestartStart BY <1>1, <1>2, OthersStartNothing
<1>4. ~Start("rt")
  <2> SUFFICES ASSUME Start("rt") PROVE FALSE OBVIOUS
  <2>1. rt.pc = "start" BY DEF Start, rt
  <2>2. grant.act \in grants BY <2>1 DEF Rest, Asleep
  <2>3. unit' = [unit EXCEPT !.st = "pending", !.for = grant.act] BY <1>2 DEF Start, StartUnit
  <2>4. unit'.for = grant.act BY <2>3 DEF TypeOK, BackendTypeOK
  <2> QED BY <1>0, <1>g, <2>2, <2>4
<1>5. at'["sup"].pc \in {"exec", "failed"}
  BY <1>3, <1>4, GotoAt DEF Start, RestartStart, SupGoto, Proc
<1>6. queue' = {} BY <1>1 DEF UnitAsked, Workless, Gone
<1>7. sup'.pc \notin SeenPcs BY <1>5 DEF sup, SeenPcs, JobPlaces
<1> QED BY <1>6, <1>7 DEF Seen, SeenPcs

\* Startup and shutdown, by the supervisor.
LEMMA LifecycleSeen ==
    ASSUME TypeOK, Rest, Workless, ~Foreign, Seen, Lifecycle("sup") PROVE Seen'
<1>0. svc \in Service /\ sup = at["sup"] BY DEF TypeOK, sup
<1>g. \A x : Goto("sup", x) => at'["sup"].pc = x BY GotoAt DEF Proc
<1>a. After("sup") = "exec" BY DEF After
<1>t. \A x \in {"ready", "draining", "stopping"} : svc' = [svc EXCEPT !.state = x] => Backwards
  BY <1>0 DEF Backwards, Service
<1>s. svc' = svc => Backwards BY DEF Backwards
<1>1. CASE Observe("sup")
  <2>1. at'["sup"].pc = "adopt" BY <1>1, GotoWithAt DEF Observe, Proc
  <2>2. sup'.pc = "adopt" BY <2>1 DEF sup
  <2>3. svc.state = "starting" /\ svc' = svc /\ queue' = queue BY <1>0, <1>1 DEF Observe, Seen, workVars
  <2> QED BY <2>2, <2>3 DEF Seen, JobPlaces
<1>2. CASE Adopt("sup")
  <2>1. sup'.pc \in {"verify", "failed"} BY <1>2, <1>g DEF Adopt, sup
  <2>2. svc.state = "starting" /\ queue' = queue BY <1>0, <1>2 DEF Adopt, Seen, backendVars, workVars
  <2>3. svc' = svc \/ svc' = [svc EXCEPT !.inv = unit.inv] BY <1>2 DEF Adopt
  <2>4. svc'.state = "starting" BY <1>0, <2>2, <2>3 DEF Service
  <2> QED BY <2>1, <2>2, <2>4 DEF Seen, JobPlaces
<1>3. CASE StartupVerify("sup")
  <2>1. svc.state = "starting" /\ queue = {} /\ queue' = queue
    BY <1>0, <1>3 DEF StartupVerify, Seen, backendVars, workVars
  <2>2. \/ at'["sup"].pc \in {"exec", "open"}
        \/ at'["sup"].pc = "stopreq" /\ at'["sup"].snap = svc
    <3>1. \A x : GotoWith("sup", x, svc) => at'["sup"].pc = x BY GotoWithAt DEF Proc
    <3>2. GotoWith("sup", "stopreq", svc) => at'["sup"].snap = svc
      <4>1. "stopreq" \in Places BY DEF Places
      <4> QED BY <1>0, <4>1, GotoWithSet DEF Proc
    <3> QED BY <1>3, <1>a, <1>g, <3>1, <3>2 DEF StartupVerify
  <2>3. CASE sup'.pc \notin SeenPcs BY <2>1, <2>3 DEF Seen, SeenPcs
  <2>4. CASE sup'.pc \in SeenPcs
    <3>1. sup'.pc = "stopreq" /\ sup'.snap.state = "starting"
      BY <2>1, <2>2, <2>4 DEF sup, SeenPcs, JobPlaces
    <3> QED BY <2>1, <3>1 DEF Seen, JobPlaces
  <2> QED BY <2>3, <2>4
<1>4. CASE OpenGate("sup")
  <2>1. at'["sup"].pc \in {"exec", "failed"} BY <1>4, <1>a, <1>g DEF OpenGate
  <2>2. Backwards /\ queue' = queue BY <1>4, <1>t, <1>s DEF OpenGate, workVars
  <2> QED BY <2>1, <2>2, AwaySeen DEF SeenPcs, JobPlaces
<1>5. CASE Drain("sup")
  <2>1. at'["sup"].pc = IF QueueEmpty THEN "halt" ELSE "exec" BY <1>5, <1>a, <1>g DEF Drain
  <2>2. svc' = svc /\ queue' = queue /\ native' = native BY <1>5 DEF Drain, workVars
  <2>3. auth'.mode = "closed" BY <1>5 DEF Drain, Close, Authority
  <2>4. CASE QueueEmpty
    <3>1. sup'.pc = "halt" /\ QueueEmpty' BY <2>1, <2>2, <2>4 DEF sup, QueueEmpty
    <3> QED BY <2>2, <2>3, <3>1 DEF Seen, JobPlaces
  <2>5. CASE ~QueueEmpty BY <1>s, <2>1, <2>2, <2>5, AwaySeen DEF SeenPcs, JobPlaces
  <2> QED BY <2>4, <2>5
<1>6. CASE Halt("sup")
  <2>1. sup'.pc = "stopreq" BY <1>6, <1>g DEF Halt, sup
  <2>2. auth.mode = "closed" /\ QueueEmpty BY <1>0, <1>6 DEF Halt, Seen
  <2>3. auth' = auth /\ queue' = queue /\ native' = native BY <1>6 DEF Halt, backendVars, workVars
  <2> QED BY <2>1, <2>2, <2>3 DEF Seen, JobPlaces, QueueEmpty
<1>7. CASE StopRequest("sup") \/ Stopping("sup")
  <2>1. at'["sup"].pc \in {"exec", "failed", "reset"} BY <1>7, <1>a, <1>g DEF StopRequest, Stopping
  <2>2. svc' = svc /\ queue' = queue BY <1>7 DEF StopRequest, Stopping, workVars
  <2> QED BY <1>s, <2>1, <2>2, AwaySeen DEF SeenPcs, JobPlaces
<1>8. CASE ProbeFails("sup")
  <2>1. at'["sup"].pc = "failed" BY <1>8, <1>g DEF ProbeFails
  <2>2. svc' = svc /\ queue' = queue BY <1>8 DEF ProbeFails, backendVars, workVars
  <2> QED BY <1>s, <2>1, <2>2, AwaySeen DEF SeenPcs, JobPlaces
<1>9. ~(Reset("sup") \/ Start("sup")) BY <1>0 DEF Reset, Start, Rest, OwnInv
<1> QED BY <1>1, <1>2, <1>3, <1>4, <1>5, <1>6, <1>7, <1>8, <1>9 DEF Lifecycle

\* The supervisor's round, and the receiver's restart.
LEMMA RoundSeen ==
    ASSUME TypeOK, Rest, ~Foreign, Seen,
           \/ Sweep \/ Tick \/ Quarantine \/ EndRound \/ BeginProbe \/ Ready \/ Idle \/ IdleSaved \/ Finish
           \/ Create \/ Acquire \/ Persist \/ Crash \/ RecoverStopped \/ RecoverActive \/ Recovered
    PROVE  Seen'
<1>0. svc \in Service BY DEF TypeOK
<1>g. \A x : SupGoto(x) => at'["sup"].pc = x BY GotoAt DEF SupGoto, Proc
<1>t. \A x \in {"waiting", "draining", "recovery"} : svc' = [svc EXCEPT !.state = x] => Backwards
  BY <1>0 DEF Backwards, Service
<1>s. svc' = svc => Backwards BY DEF Backwards
<1>1. CASE Tick
  <2>1. PICK v \in Verdicts : at' = [at EXCEPT !["sup"] =
          [Start0 EXCEPT !.pc = Route, !.res = v,
                         !.snap = CASE Route = "begin" ->
                                          [NoService EXCEPT !.mode = IF Wanted THEN "interactive" ELSE "managed"]
                                    [] Route \in {"exec", "failed", "observe"} -> NoService
                                    [] OTHER -> svc]]
    BY <1>1 DEF Tick
  <2> DEFINE s == CASE Route = "begin" -> [NoService EXCEPT !.mode = IF Wanted THEN "interactive" ELSE "managed"]
                    [] Route \in {"exec", "failed", "observe"} -> NoService
                    [] OTHER -> svc
             c == [Start0 EXCEPT !.pc = Route, !.res = v, !.snap = s]
  <2> HIDE DEF s
  <2>a. c.pc = Route BY DEF Start0
  <2>b. at' = [at EXCEPT !["sup"] = c] BY <2>1 DEF s
  <2> HIDE DEF c
  <2>2. at'["sup"].pc = Route BY <2>a, <2>b DEF TypeOK, Proc
  <2>3. svc' = svc /\ queue' = queue BY <1>1 DEF Tick, backendVars, workVars
  <2>4. svc.state \in {"stopped", "waiting", "reserving", "starting", "ready", "restarting", "draining", "stopping", "recovery"}
    BY <1>0 DEF Service
  <2>5. Route \in {"begin", "exec", "failed", "observe", "drain", "ready", "restarting", "stopping"}
        /\ (Route = "observe" => svc.state = "starting")
    BY <2>4 DEF Route
  <2>6. CASE Route = "observe"
    <3>1. sup'.pc = "observe" BY <2>2, <2>6 DEF sup
    <3> QED BY <2>3, <2>5, <2>6, <3>1 DEF Seen, JobPlaces
  <2>7. CASE Route # "observe" BY <1>s, <2>2, <2>3, <2>5, <2>7, AwaySeen DEF SeenPcs, JobPlaces
  <2> QED BY <2>6, <2>7
<1>2. CASE Sweep \/ EndRound \/ Ready \/ Idle
  <2>1. at'["sup"].pc \in {"tick", "sweep", "finish", "idle", "idled"} BY <1>2, <1>g DEF Sweep, EndRound, Ready, Idle
  <2>2. svc' = svc /\ queue' = queue BY <1>2 DEF Sweep, EndRound, Ready, Idle, backendVars, workVars
  <2> QED BY <1>s, <2>1, <2>2, AwaySeen DEF SeenPcs, JobPlaces
<1>3. CASE Quarantine \/ BeginProbe \/ IdleSaved \/ Finish
  <2>1. at'["sup"].pc \in {"sweep", "create", "exec", "failed", "finish"}
    BY <1>3, <1>g DEF Quarantine, BeginProbe, Waits, IdleSaved, Finish
  <2>2. Backwards BY <1>3, <1>s, <1>t DEF Quarantine, BeginProbe, Waits, IdleSaved, Finish
  <2>3. queue' = queue BY <1>3 DEF Quarantine, BeginProbe, IdleSaved, Finish, backendVars, workVars
  <2> QED BY <2>1, <2>2, <2>3, AwaySeen DEF SeenPcs, JobPlaces
<1>4. CASE Crash \/ RecoverStopped \/ RecoverActive
  <2>1. at'["sup"].pc \in {"recover", "sweep", "failed", "recovered"} BY <1>4, <1>g DEF Crash, RecoverStopped, RecoverActive
  <2>2. svc' = svc /\ queue' = queue BY <1>4 DEF Crash, RecoverStopped, RecoverActive, backendVars, workVars
  <2> QED BY <1>s, <2>1, <2>2, AwaySeen DEF SeenPcs, JobPlaces
<1>5. ~(Create \/ Acquire \/ Persist \/ Recovered) BY DEF Create, Acquire, Persist, Recovered, Rest, OwnInv
<1> QED BY <1>1, <1>2, <1>3, <1>4, <1>5

\* A supervised restart.
LEMMA RestartsSeen ==
    ASSUME TypeOK, Rest, Repeated, ~Foreign, Seen,
           \/ Restart \/ RestartDrain \/ RestartHalt \/ RestartObserve \/ RestartPending \/ RestartStart
           \/ RestartAwait \/ RestartTarget \/ RestartFinish \/ RestartOpen
    PROVE  Seen'
<1>0. svc \in Service BY DEF TypeOK
<1>g. \A x : SupGoto(x) => at'["sup"].pc = x BY GotoAt DEF SupGoto, Proc
<1>w. \A x, r : GotoWith("sup", x, r) => at'["sup"].pc = x BY GotoWithAt DEF Proc
<1>s. svc' = svc => Backwards BY DEF Backwards
<1>p. \A ph, x : Phase(ph, x) =>
        /\ Backwards /\ svc'.mode = svc.mode
        /\ \/ at'["sup"].pc = "failed"
           \/ at'["sup"].pc = x /\ svc.phase # "none" /\ svc'.phase = ph
  BY <1>0, <1>g DEF Phase, Backwards, Service
<1>1. CASE Restart
  <2>1. at'["sup"].pc = RestartPcs[sup.snap.phase] BY <1>1, <1>g DEF Restart
  <2>2. sup.snap.phase \in Phases BY Fields DEF TypeOK, Control, Proc, sup
  <2>3. RestartPcs[sup.snap.phase] \in {"rdrain", "robserve", "rpending", "rstarting", "failed"}
    BY <2>2 DEF RestartPcs, Phases
  <2>4. svc' = svc /\ queue' = queue /\ auth'.mode = "closed" BY <1>1 DEF Restart, workVars, Close, Authority
  <2>5. CASE at'["sup"].pc = "rdrain"
    <3>1. sup'.pc = "rdrain" BY <2>5 DEF sup
    <3> QED BY <2>4, <3>1 DEF Seen, JobPlaces
  <2>6. CASE at'["sup"].pc # "rdrain"
    BY <1>s, <2>1, <2>3, <2>4, <2>6, AwaySeen DEF SeenPcs, JobPlaces
  <2> QED BY <2>5, <2>6
<1>2. CASE RestartDrain
  <2>1. at'["sup"].pc = IF QueueEmpty THEN "rhalt" ELSE "exec" BY <1>2, <1>g DEF RestartDrain
  <2>2. svc' = svc /\ queue' = queue /\ native' = native /\ auth' = auth BY <1>2 DEF RestartDrain, backendVars, workVars
  <2>3. auth.mode = "closed" BY <1>2 DEF RestartDrain, Seen
  <2>4. CASE QueueEmpty
    <3>1. sup'.pc = "rhalt" /\ QueueEmpty' BY <2>1, <2>2, <2>4 DEF sup, QueueEmpty
    <3> QED BY <2>2, <2>3, <3>1 DEF Seen, JobPlaces
  <2>5. CASE ~QueueEmpty BY <1>s, <2>1, <2>2, <2>5, AwaySeen DEF SeenPcs, JobPlaces
  <2> QED BY <2>4, <2>5
<1>3. CASE RestartHalt
  <2>1. Phase("stopping", "stopreq") BY <1>3 DEF RestartHalt
  <2>2. auth.mode = "closed" /\ QueueEmpty BY <1>3 DEF RestartHalt, Seen
  <2>3. auth' = auth /\ queue' = queue /\ native' = native BY <1>3 DEF RestartHalt, backendVars, workVars
  <2>4. sup'.pc \in {"failed", "stopreq"} BY <1>p, <2>1 DEF sup
  <2> QED BY <2>2, <2>3, <2>4 DEF Seen, JobPlaces, QueueEmpty
<1>4. CASE RestartObserve \/ RestartPending
  <2>1. at'["sup"].pc \in {"failed", "stopping", "exec", "rstart"}
    BY <1>4, <1>g, <1>p DEF RestartObserve, RestartPending
  <2>2. Backwards BY <1>4, <1>s, <1>p DEF RestartObserve, RestartPending
  <2>3. queue' = queue BY <1>4 DEF RestartObserve, RestartPending, backendVars, workVars
  <2> QED BY <2>1, <2>2, <2>3, AwaySeen DEF SeenPcs, JobPlaces
<1>5. CASE RestartStart \/ RestartAwait
  <2>1. at'["sup"].pc \in {"exec", "failed", "stopping", "rfinish"} BY <1>5, <1>g DEF RestartStart, RestartAwait
  <2>2. svc' = svc /\ queue' = queue BY <1>5 DEF RestartStart, RestartAwait, workVars
  <2> QED BY <1>s, <2>1, <2>2, AwaySeen DEF SeenPcs, JobPlaces
<1>6. CASE RestartTarget
  <2>1. queue' = queue BY <1>6 DEF RestartTarget, backendVars, workVars
  <2>2. \/ svc' = svc /\ at'["sup"].pc = "failed"
        \/ /\ svc.phase # "none" /\ svc' = [svc EXCEPT !.target = unit.inv]
           /\ at'["sup"].pc \in {"rstop", "exec", "ropen"}
    BY <1>6, <1>g, <1>w DEF RestartTarget
  <2>3. Backwards /\ svc'.phase = svc.phase BY <1>0, <2>2 DEF Backwards, Service
  <2>4. CASE at'["sup"].pc = "rstop"
    <3>1. sup'.pc = "rstop" /\ svc'.phase # "none" BY <2>2, <2>3, <2>4 DEF sup
    <3>2. (svc.state = "starting" \/ svc.mode # "managed" => queue = {})' BY <2>1, <2>3 DEF Seen, Backwards
    <3> QED BY <3>1, <3>2 DEF Seen, JobPlaces
  <2>5. CASE at'["sup"].pc # "rstop" BY <2>1, <2>2, <2>3, <2>5, AwaySeen DEF SeenPcs, JobPlaces
  <2> QED BY <2>4, <2>5
<1>7. CASE RestartFinish
  <2>1. queue' = queue BY <1>7 DEF RestartFinish, backendVars, workVars
  <2>2. Phase("finishing", IF sup.pc = "rstop" THEN "stopreq" ELSE "exec") BY <1>7 DEF RestartFinish
  <2>3. Backwards BY <1>p, <2>2
  <2>4. CASE at'["sup"].pc = "stopreq"
    <3>1. svc.phase # "none" /\ svc'.phase = "finishing" BY <1>p, <2>2, <2>4
    <3>2. queue = {} BY <3>1 DEF Repeated, Seen
    <3>3. sup'.pc = "stopreq" BY <2>4 DEF sup
    <3> QED BY <2>1, <3>1, <3>2, <3>3 DEF Seen, JobPlaces
  <2>5. CASE at'["sup"].pc # "stopreq"
    <3>1. at'["sup"].pc \in {"failed", "exec"} BY <1>p, <2>2, <2>5
    <3> QED BY <2>1, <2>3, <3>1, AwaySeen DEF SeenPcs, JobPlaces
  <2> QED BY <2>4, <2>5
<1>8. CASE RestartOpen
  <2>1. at'["sup"].pc \in {"exec", "failed"} BY <1>8, <1>g DEF RestartOpen
  <2>2. svc' = svc \/ svc' = [svc EXCEPT !.inv = sup.snap.inv, !.phase = "completed", !.state = "ready"]
    BY <1>8 DEF RestartOpen
  <2>3. Backwards BY <1>0, <2>2 DEF Backwards, Service
  <2>4. queue' = queue BY <1>8 DEF RestartOpen, workVars
  <2> QED BY <2>1, <2>3, <2>4, AwaySeen DEF SeenPcs, JobPlaces
<1> QED BY <1>1, <1>2, <1>3, <1>4, <1>5, <1>6, <1>7, <1>8

\* The jobs.
LEMMA JobsSeen ==
    ASSUME TypeOK, Seen, JobSteps PROVE Seen'
<1>g. \A x : SupGoto(x) => at'["sup"].pc = x BY GotoAt DEF SupGoto, Proc
<1>j. \A x, j : WithJob(x, j) => at'["sup"].pc = x BY DEF WithJob, TypeOK, Control, Proc
<1>r. \A x, r : Result(x, r) => at'["sup"].pc = x BY DEF Result, TypeOK, Control, Proc
<1>1. svc' = svc
  BY DEF JobSteps, Exec, Prepare, Submit, PostJob, Acked, Poll, Publish, Cancellation, CancelPosted, Cleaned
<1>2. at'["sup"].pc \in JobPlaces \cup {"end", "failed"}
  <2>1. CASE Exec BY <2>1, <1>g, <1>j DEF Exec, JobPlaces
  <2>2. CASE Prepare \/ Submit \/ Acked \/ Publish \/ Cancellation \/ CancelPosted \/ Cleaned
    BY <2>2, <1>g DEF Prepare, Submit, Acked, Publish, Cancellation, CancelPosted, Cleaned, JobPlaces
  <2>3. CASE PostJob \/ Poll BY <2>3, <1>g, <1>r DEF PostJob, Poll, JobPlaces
  <2> QED BY <2>1, <2>2, <2>3 DEF JobSteps
<1>3. CASE svc.state = "ready" /\ svc.mode = "managed" BY <1>1, <1>2, <1>3, JobSeen DEF SeenPcs, JobPlaces
<1>4. CASE ~(svc.state = "ready" /\ svc.mode = "managed")
  <2>1. Exec
    BY <1>4 DEF JobSteps, Prepare, Submit, PostJob, Acked, Poll, Publish, Cancellation, CancelPosted, Cleaned,
       Seen, JobPlaces
  <2>2. at'["sup"].pc = "end" BY <1>4, <1>g, <2>1 DEF Exec
  <2>3. queue' = queue BY <2>1 DEF Exec, backendVars, workVars
  <2>4. Backwards BY <1>1 DEF Backwards
  <2> QED BY <2>2, <2>3, <2>4, AwaySeen DEF SeenPcs, JobPlaces
<1> QED BY <1>3, <1>4

\* The interface and the surroundings: while the supervisor has seen something,
\* it holds the lock.
LEMMA ServeSeen ==
    ASSUME TypeOK, Rest, Locked, Workless, ~Foreign, ~Foreign', Seen, Serve \/ Deadline \/ Surroundings PROVE Seen'
<1>0. svc \in Service BY DEF TypeOK
<1>1. at' = at
  BY DEF Serve, SubmitJob, CancelJob, SubmitSession, ReleaseSession, RequestRestart, NativeSubmit, NativeForward,
     NativeArrives, Deadline, Surroundings, serviceVars
<1>2. sup.pc \in SeenPcs => svc' = svc
  <2>1. sup.pc \in SeenPcs => oplock = "sup" BY DEF Locked, SeenPcs, JobPlaces, Roaming
  <2> QED BY <2>1 DEF Serve, SubmitJob, CancelJob, SubmitSession, ReleaseSession, RequestRestart, NativeSubmit,
       NativeForward, NativeArrives, Deadline, Surroundings, serviceVars
<1>3. Backwards
  <2>1. CASE svc' = svc BY <2>1 DEF Backwards
  <2>2. CASE \E s \in Session : ReleaseSession(s)
    <3>1. svc' = svc \/ svc' = [svc EXCEPT !.state = "draining"] BY <2>2 DEF ReleaseSession
    <3> QED BY <1>0, <3>1 DEF Backwards, Service
  <2>3. CASE RequestRestart
    <3>1. svc' = [svc EXCEPT !.state = "restarting", !.phase = "draining", !.prev = unit.inv, !.target = 0]
      BY <2>3 DEF RequestRestart
    <3> QED BY <1>0, <3>1 DEF Backwards, Service
  <2> QED BY <2>1, <2>2, <2>3 DEF Serve, SubmitJob, CancelJob, SubmitSession, NativeSubmit, NativeForward,
           NativeArrives, Deadline, Surroundings, serviceVars
<1>4. queue' \subseteq queue
  <2>1. CASE Serve \/ Deadline
    BY <2>1 DEF Serve, SubmitJob, CancelJob, SubmitSession, ReleaseSession, RequestRestart, NativeSubmit,
       NativeForward, NativeArrives, Deadline, backendVars, workVars
  <2>2. CASE Surroundings
    BY <2>2 DEF Surroundings, UnitStarts, UnitEnds, AuthorityExpires, Render, OtherHolds, workVars
  <2> QED BY <2>1, <2>2
<1>5. auth'.mode \in {auth.mode, "closed"}
  <2>1. CASE AuthorityExpires
    <3>1. auth' = [auth EXCEPT !.mode = "closed"] BY <2>1 DEF AuthorityExpires
    <3> QED BY <3>1 DEF TypeOK, BackendTypeOK
  <2>2. CASE ~AuthorityExpires
    BY <2>2 DEF Serve, SubmitJob, CancelJob, SubmitSession, ReleaseSession, RequestRestart, NativeSubmit,
       NativeForward, NativeArrives, Deadline, Surroundings, UnitStarts, UnitEnds, Render, OtherHolds, backendVars
  <2> QED BY <2>1, <2>2
<1>6. native' = "queued" => native = "queued" \/ auth.mode # "closed"
  <2>1. CASE NativeArrives BY <2>1 DEF NativeArrives, GateMode
  <2>2. CASE ~NativeArrives /\ (Serve \/ Deadline)
    BY <2>2 DEF Serve, SubmitJob, CancelJob, SubmitSession, ReleaseSession, RequestRestart, NativeSubmit,
       NativeForward, Deadline, backendVars, workVars
  <2>3. CASE Surroundings
    BY <2>3 DEF Surroundings, UnitStarts, UnitEnds, AuthorityExpires, Render, OtherHolds, workVars
  <2> QED BY <2>1, <2>2, <2>3
<1> QED BY <1>1, <1>2, <1>3, <1>4, <1>5, <1>6, StillSeen

\* Every step.
LEMMA DrainStep ==
    ASSUME TypeOK, Rest, FinishInv, DrainInv, [Next]_bridgeVars PROVE DrainInv'
<1>1. Generation' /\ Workless' BY WorkStep DEF DrainInv
<1>2. Repeated' BY RecordStep DEF DrainInv
<1>3. ASSUME ~Foreign' PROVE Seen'
  <2>1. CASE Foreign BY <1>3, <2>1, BegunSeen DEF DrainInv
  <2>2. CASE ~Foreign
    <3>1. Seen /\ Workless /\ Repeated /\ Locked BY <2>2 DEF DrainInv, FinishInv
    <3>2. ~Bridge BY <2>2, OwnSleeps
    <3>3. CASE UNCHANGED bridgeVars
      BY <3>1, <3>3, StillSeen DEF bridgeVars, vars, backendVars, workVars, serviceVars, Backwards
    <3>4. CASE Supervise
      BY <2>2, <3>1, <3>4, LifecycleSeen, RoundSeen, RestartsSeen, JobsSeen DEF Supervise, JobSteps
    <3>5. CASE Crash BY <2>2, <3>1, <3>5, RoundSeen
    <3>6. CASE Serve \/ Deadline \/ Surroundings BY <1>3, <2>2, <3>1, <3>6, ServeSeen
    <3> QED BY <3>2, <3>3, <3>4, <3>5, <3>6 DEF Next
  <2> QED BY <2>1, <2>2
<1> QED BY <1>1, <1>2, <1>3 DEF DrainInv

\* The steps that ask a unit of the media service to stop.
LEMMA StopsDrained ==
    ASSUME TypeOK, Rest, DrainInv, [Next]_bridgeVars, unit.st = "up", unit'.st = "stopping", unit.for \notin grants
    PROVE  queue = {} /\ (native = "queued" => sup.snap.state = "starting" \/ svc.phase = "finishing")
<1>1. ~Foreign /\ ~Gone /\ unit.inv # 0 BY DEF Foreign, Gone, DrainInv, Generation
<1>2. Seen /\ ~Bridge BY <1>1, OwnSleeps DEF DrainInv
<1>3. unit' # unit OBVIOUS
<1>4. ~(StopRequest("sup") \/ RestartAwait) => FALSE
  <2> SUFFICES ASSUME ~StopRequest("sup"), ~RestartAwait PROVE FALSE OBVIOUS
  <2>1. ~UNCHANGED bridgeVars BY <1>3 DEF bridgeVars, vars, backendVars
  <2>2. ~(Serve \/ Deadline \/ Crash)
    BY <1>3 DEF Serve, SubmitJob, CancelJob, SubmitSession, ReleaseSession, RequestRestart, NativeSubmit, NativeForward,
       NativeArrives, Deadline, Crash, backendVars
  <2>3. ~Surroundings
    <3>1. ~UnitStarts BY DEF UnitStarts
    <3>2. ~UnitEnds BY DEF UnitEnds, NoUnit
    <3> QED BY <1>3, <3>1, <3>2 DEF Surroundings, AuthorityExpires, Render, OtherHolds
  <2>4. ~Lifecycle("sup")
    BY <1>1, <1>3 DEF Lifecycle, Observe, Adopt, StartupVerify, OpenGate, Drain, Halt, Stopping, Reset, Start, CanStart,
       ProbeFails, backendVars
  <2>5. ~JobSteps
    BY <1>3 DEF JobSteps, Exec, Prepare, Submit, PostJob, Acked, Poll, Publish, Cancellation, CancelPosted, Cleaned, backendVars
  <2>6. ~Supervise
    BY <1>1, <1>3, <2>4, <2>5 DEF Supervise, JobSteps, Sweep, Tick, Quarantine, EndRound, BeginProbe, Create, Acquire, Persist,
       Ready, Idle, IdleSaved, Finish, Restart, RestartDrain, RestartHalt, RestartObserve, RestartPending, RestartStart,
       CanStart, RestartTarget, RestartFinish, RestartOpen, RecoverStopped, RecoverActive, Recovered, backendVars
  <2> QED BY <1>2, <2>1, <2>2, <2>3, <2>6 DEF Next
<1>5. ~RestartAwait BY <1>1 DEF RestartAwait
<1>6. sup.pc = "stopreq" BY <1>4, <1>5 DEF StopRequest, sup
<1> QED BY <1>2, <1>6 DEF Seen

\* No unit of the media service is asked to stop while a job is in its queue,
\* nor while a native request is, unless an opening of its gate was cut short
\* (shutdown.rs, startup.rs, restart_lifecycle.rs).
THEOREM DrainedHolds == Spec => Drained
<1>1. Init => FinishInv /\ DrainInv
  <2>1. Init => sup.pc = "recover" /\ rt.pc = "sleep" BY DEF Init, ServiceInit, sup, rt, Start0, Proc
  <2>2. Init => unit.st = "gone" /\ queue = {} /\ native = "none" /\ svc.phase = "none"
    BY DEF Init, BackendInit, ServiceInit, NoUnit, NoService
  <2>3. Init => FinishInv BY <2>1 DEF FinishInv, Locked, Begun, Roaming, Cleaning
  <2> QED BY <2>2, <2>3 DEF DrainInv, Generation, Workless, Repeated, Foreign, Gone
<1>2. TypeOK /\ Rest /\ FinishInv /\ DrainInv /\ [Next]_bridgeVars => FinishInv' /\ DrainInv' BY NextFinish, DrainStep
<1>3. TypeOK /\ Rest /\ DrainInv /\ [Next]_bridgeVars
        => [unit.st = "up" /\ unit'.st = "stopping" /\ unit.for \notin grants
              => queue = {} /\ (native = "queued" => sup.snap.state = "starting" \/ svc.phase = "finishing")]_bridgeVars
  BY StopsDrained
<1> QED BY <1>1, <1>2, <1>3, MediaHolds, PTL DEF Spec, Drained
=============================================================================
