------------------------------- MODULE History -------------------------------
(* The retained history of the managed runtime: which calls the authority    *)
(* document holds, when their records move to the archive files, how a       *)
(* submission finds an earlier one, and how workspace scopes fence the calls *)
(* nested in them (inference.rs, work.rs, workspace_scope.rs, dispatch.rs,   *)
(* workspace_recovery.rs, history_archive.rs, payload_store.rs).             *)
(*                                                                           *)
(* `doc` and `dem` change only under the authority's lock, so each action on *)
(* them is one update. The files are read and written without it, one at a   *)
(* time. Times are reduced to what has passed: a scope is "late" after its   *)
(* deadline, a closed archive is in `old` fourteen days after its closure.   *)
EXTENDS Naturals, Sequences, FiniteSets, TLC, FiniteSetsExt

CONSTANTS
    Request,      \* the requests of one client, each with its own submission id
    Workspaces,   \* the requests that run a workspace
    Reservations,
    ResOf,        \* Request -> the reservation it names
    WorkOf,       \* Request -> its work id, or None for a nested model call
    ParentOf,     \* nested request -> the workspace request it is made from
    MaxCalls,     \* invocations accepted over the whole run
    Threads,      \* HTTP threads that submit
    Maintainers,  \* threads or processes that run retire_history_once
    MaxCrashes,
    Faults,       \* "error", "uncertain": what a backend may answer
    Reuse,        \* whether a client uses a work id again after its retention
    None

Ids == 1 .. MaxCalls
Nested == {q \in Request : WorkOf[q] = None}
Works == {WorkOf[q] : q \in Request \ Nested}

ASSUME HistoryAssumption ==
    /\ MaxCalls \in Nat \ {0} /\ MaxCrashes \in Nat
    /\ None \notin Request \cup Ids /\ ResOf \in [Request -> Reservations]
    /\ Workspaces \subseteq Request \ Nested
    /\ \A q \in Nested : ParentOf[q] \in Workspaces /\ ResOf[ParentOf[q]] = ResOf[q]

VARIABLES
    dem,      \* demands of the document: state, released, closed, proven, accepted
    doc,      \* invocations of the document
    scope,    \* workspace scope of a parent invocation
    analysed, \* workspace_recovery_analyses
    file,     \* archive files
    payload,  \* payload files of an invocation
    old,      \* archives past their expiry
    sub,      \* submitting threads
    maint,    \* maintenance threads
    issued,   \* history: the request each invocation was accepted for
    ran,      \* history: the invocations that were dispatched
    crashes

history == <<file, payload, old>>
ghosts == <<issued, ran>>
vars == <<dem, doc, scope, analysed, file, payload, old, sub, maint, issued, ran, crashes>>

Terminal == {"Completed", "Cancelled", "Failed", "Expired"}
Slots == {"request", "result", "late_result"}

\* An invocation record; `cause` tells a restart from an unknown child.
CallRecord == [req : Request, scope : Ids \cup {None}, cancel : BOOLEAN, slots : SUBSET Slots,
               state : {"Queued", "Running", "Uncertain"} \cup Terminal,
               cause : {None, "restart", "child"}]

DemandRecord == [state : {"Ready", "Releasing", "RecoveryRequired", "Retired", "Gone"},
                 released : BOOLEAN, closed : BOOLEAN, proven : BOOLEAN, accepted : BOOLEAN]

\* What the archive keeps of a call and of a reservation.
ArchiveRecord == [rec : CallRecord, closed : BOOLEAN]
ReservationRecord == [calls : SUBSET Ids, closed : BOOLEAN]

\* `None` stands for a record that is not there.
ASSUME NoneAssumption == None \notin CallRecord \cup ArchiveRecord \cup ReservationRecord

\* The archive's files: invocations, their two indexes, and reservations.
CallFile(i) == <<"invocation", i>>
SubmissionFile(q) == <<"submission", q>>
WorkFile(w) == <<"work", w>>
ReservationFile(r) == <<"reservation", r>>
Files == {CallFile(i) : i \in Ids} \cup {SubmissionFile(q) : q \in Request}
         \cup {WorkFile(w) : w \in Works} \cup {ReservationFile(r) : r \in Reservations}

Live(d) == {i \in Ids : d[i] # None}
CallsOf(d, r) == {i \in Live(d) : ResOf[d[i].req] = r}
InState(d, r, S) == \E i \in CallsOf(d, r) : d[i].state \in S
Children(d, p) == {i \in Live(d) : d[i].scope = p /\ scope[p] # "none"}

\* service::active; the deadline of these reservations does not pass.
ActiveDemand(r) == dem[r].state # "Gone" /\ ~dem[r].released

\* store_request, store_result and store_late_result write the body and return
\* the reference the record keeps instead of it.
StorePayload(i, slots) == payload' = [payload EXCEPT ![i] = @ \cup slots]

\* hydrate_invocation: every body the record refers to can be read.
Hydrates(i, c) == c.slots \subseteq payload[i]

-----------------------------------------------------------------------------
(* Workspace scopes.                                                         *)

ParentOpen(c) == c.req \in Workspaces /\ c.state = "Running" /\ ~c.cancel

\* Mutation of Permits: the scope is not asked for its parent.
PermitsOrphan(d, c) == c.scope # None => scope[c.scope] = "open"

Permits(d, c) ==
    c.scope # None => /\ scope[c.scope] = "open"
                      /\ d[c.scope] # None
                      /\ ParentOpen(d[c.scope])

\* Mutation of Cancelled: a call of unknown outcome is settled by it.
CancelledUncertain(c) ==
    IF c.state \in {"Queued", "Running", "Uncertain"}
    THEN [c EXCEPT !.cancel = TRUE, !.state = IF @ = "Running" THEN @ ELSE "Cancelled"]
    ELSE c

\* Invocation::cancel.
Cancelled(c) ==
    IF c.state \in {"Queued", "Running", "Uncertain"}
    THEN [c EXCEPT !.cancel = TRUE, !.state = IF @ = "Queued" THEN "Cancelled" ELSE @]
    ELSE c

\* cancel_closed: every pending call whose scope no longer permits it is cancelled.
CancelClosed(d) ==
    [i \in Ids |-> IF d[i] # None /\ ~Permits(d, d[i]) THEN Cancelled(d[i]) ELSE d[i]]

ScopeOpen(i) ==
    /\ doc[i] # None /\ ParentOpen(doc[i]) /\ ActiveDemand(ResOf[doc[i].req])
    /\ scope[i] = "none"
    /\ scope' = [scope EXCEPT ![i] = "open"]
    /\ UNCHANGED <<dem, doc, analysed, history, sub, maint, ghosts, crashes>>

ScopeClose(i) ==
    /\ scope[i] \in {"open", "late"}
    /\ scope' = [scope EXCEPT ![i] = "closed"]
    /\ doc' = [j \in Ids |-> IF doc[j] # None /\ (doc[j].scope = i \/ ~Permits(doc, doc[j]))
                             THEN Cancelled(doc[j]) ELSE doc[j]]
    /\ UNCHANGED <<dem, analysed, history, sub, maint, ghosts, crashes>>

\* The deadline of a scope passes; nothing is written.
ScopeLate(i) ==
    /\ scope[i] = "open"
    /\ scope' = [scope EXCEPT ![i] = "late"]
    /\ UNCHANGED <<dem, doc, analysed, history, sub, maint, ghosts, crashes>>

\* The supervisor's tick cancels what a deadline or an ended parent left behind.
TickCancel ==
    /\ CancelClosed(doc) # doc
    /\ doc' = CancelClosed(doc)
    /\ UNCHANGED <<dem, scope, analysed, history, sub, maint, ghosts, crashes>>

-----------------------------------------------------------------------------
(* Submission.                                                               *)

FindWork(d, w) == {i \in Live(d) : WorkOf[d[i].req] = w}
FindSubmission(d, q) == {i \in Live(d) : d[i].req = q}

\* lookup_invocation: an expired archive is not found.
Archived(i) == file[CallFile(i)] # None /\ ~(file[CallFile(i)].closed /\ i \in old)

LookupWork(w) == file[WorkFile(w)] # None /\ Archived(file[WorkFile(w)])
LookupSubmission(q) == file[SubmissionFile(q)] # None /\ Archived(file[SubmissionFile(q)])

\* A client whose earlier work with this id has expired may or may not use it again.
MayUse(q) == Reuse \/ \A i \in old \cap Ids : WorkOf[issued[i]] # WorkOf[q] \/ WorkOf[q] = None

\* WorkSubmission::submit reads the document; a known work id ends here.
SubmitRead(t, q) ==
    /\ sub[t].pc = "idle" /\ q \notin Nested /\ MayUse(q)
    /\ FindWork(doc, WorkOf[q]) = {}
    /\ sub' = [sub EXCEPT ![t] = [pc |-> "lookup", req |-> q]]
    /\ UNCHANGED <<dem, doc, scope, analysed, history, maint, ghosts, crashes>>

\* A model call from inside a workspace comes through the scoped gateway, which
\* reads that its capability is still known and goes straight to the update.
GatewaySubmit(t, q) ==
    /\ sub[t].pc = "idle" /\ q \in Nested
    /\ dem[ResOf[q]].state # "Gone"
    /\ sub' = [sub EXCEPT ![t] = [pc |-> "accept", req |-> q]]
    /\ UNCHANGED <<dem, doc, scope, analysed, history, maint, ghosts, crashes>>

Ended(t) == sub' = [sub EXCEPT ![t] = [pc |-> "idle", req |-> None]]

\* Then it looks the work id up in the archive, without the lock, and reads
\* which demand serves it.
SubmitLookup(t) ==
    /\ sub[t].pc = "lookup"
    /\ LET q == sub[t].req IN
         IF LookupWork(WorkOf[q]) \/ dem[ResOf[q]].state = "Gone"
         THEN Ended(t)
         ELSE sub' = [sub EXCEPT ![t].pc = "accept"]
    /\ UNCHANGED <<dem, doc, scope, analysed, history, maint, ghosts, crashes>>

\* Mutation of LookupNeeded: the archive is not asked while the reservation lives.
LookupNeededLate(r) == ~ActiveDemand(r)

\* A reservation that never accepted a call has nothing in the archive.
LookupNeeded(r) == ~ActiveDemand(r) \/ dem[r].accepted

Known(q) ==
    \/ q \notin Nested /\ FindWork(doc, WorkOf[q]) # {}
    \/ q \notin Nested /\ LookupNeeded(ResOf[q]) /\ LookupWork(WorkOf[q])
    \/ FindSubmission(doc, q) # {}
    \/ LookupNeeded(ResOf[q]) /\ LookupSubmission(q)

\* The scope a nested request is made in: that of the running parent.
ScopesOf(q) ==
    IF q \notin Nested THEN {None}
    ELSE {i \in Live(doc) : doc[i].req = ParentOf[q] /\ scope[i] # "none"}

Fresh == {i \in Ids : issued[i] = None}

\* Submission::submit under the lock: replay, or store the payload and queue.
\* A refusal leaves nothing behind.
Accept(t) ==
    /\ sub[t].pc = "accept"
    /\ Ended(t)
    /\ LET q == sub[t].req IN
         \/ /\ Known(q) \/ dem[ResOf[q]].state # "Ready" \/ dem[ResOf[q]].released
               \/ \A p \in ScopesOf(q) : p # None /\ ~(scope[p] = "open" /\ ParentOpen(doc[p]))
            /\ UNCHANGED <<dem, doc, payload, issued>>
         \/ \E p \in ScopesOf(q), i \in Fresh :
              LET c == [req |-> q, scope |-> p, cancel |-> FALSE, slots |-> {"request"},
                        state |-> "Queued", cause |-> None]
              IN /\ ~Known(q) /\ dem[ResOf[q]].state = "Ready" /\ ActiveDemand(ResOf[q])
                 /\ Permits(doc, c)
                 /\ i = Min(Fresh)
                 /\ dem' = [dem EXCEPT ![ResOf[q]].accepted = TRUE]
                 /\ doc' = [doc EXCEPT ![i] = c]
                 /\ StorePayload(i, {"request"})
                 /\ issued' = [issued EXCEPT ![i] = q]
    /\ UNCHANGED <<scope, analysed, file, old, maint, ran, crashes>>

-----------------------------------------------------------------------------
(* Dispatch, completion and cancellation of calls.                           *)

InflightCall(d, r) == \E i \in CallsOf(d, r) : /\ d[i].req \notin Workspaces
                                              /\ d[i].state \in {"Running", "Uncertain"}

\* Dispatch::run: the update that starts a call first settles every scope's fence.
Dispatch(i) ==
    /\ doc[i] # None /\ doc[i].state = "Queued"
    /\ LET d == CancelClosed(doc)
           r == ResOf[doc[i].req]
           free == /\ d[i].state = "Queued" /\ dem[r].state = "Ready" /\ ~InflightCall(d, r)
                   /\ d[i].req \in Workspaces =>
                        \A j \in CallsOf(d, r) : d[j].req \in Workspaces =>
                                                 d[j].state \notin {"Running", "Uncertain"}
       IN /\ dem[r].state = "Ready"
          /\ free \/ d # doc
          /\ doc' = IF free THEN [d EXCEPT ![i].state = "Running"] ELSE d
          /\ ran' = IF free THEN ran \cup {i} ELSE ran
    /\ UNCHANGED <<dem, scope, analysed, history, sub, maint, issued, crashes>>

\* A queued call whose waiting deadline passed or whose reservation ended.
DispatchExpire(i) ==
    /\ doc[i] # None /\ doc[i].state = "Queued"
    /\ doc' = [CancelClosed(doc) EXCEPT ![i].state = IF @ = "Queued" THEN "Expired" ELSE @]
    /\ UNCHANGED <<dem, scope, analysed, history, sub, maint, ghosts, crashes>>

Answers == {"valid"} \cup Faults

\* dispatch::save: the outcome of a nested call is not known.
UnknownChild(d, i) ==
    d[i].req \in Workspaces /\ \E c \in Children(d, i) : d[c].state \in {"Running", "Uncertain"}

\* Completion::save. The payload is stored before the record that names it.
Complete(i) ==
    /\ doc[i] # None /\ doc[i].state = "Running"
    /\ LET d == CancelClosed(doc) IN \E a \in Answers :
         LET held == UnknownChild(d, i)
             slot == IF a # "valid" THEN {}
                     ELSE IF held \/ d[i].cancel THEN {"late_result"} ELSE {"result"}
             state == CASE held -> "Uncertain"
                        [] ~held /\ a = "valid" -> IF d[i].cancel THEN "Cancelled" ELSE "Completed"
                        [] ~held /\ a = "error" -> "Failed"
                        [] OTHER -> "Uncertain"
         IN /\ doc' = [d EXCEPT ![i].state = state, ![i].slots = @ \cup slot,
                                ![i].cause = IF held THEN "child" ELSE @]
            /\ StorePayload(i, slot)
    /\ UNCHANGED <<dem, scope, analysed, file, old, sub, maint, ghosts, crashes>>

CancelInvocation(i) ==
    /\ doc[i] # None /\ Cancelled(doc[i]) # doc[i]
    /\ doc' = CancelClosed([doc EXCEPT ![i] = Cancelled(@)])
    /\ UNCHANGED <<dem, scope, analysed, history, sub, maint, ghosts, crashes>>

-----------------------------------------------------------------------------
(* The reservation's end, as far as retirement depends on it.                *)

\* reservation_control with Release (or Cancel, which also cancels what runs).
Close(r, cancelling) ==
    /\ dem[r].state # "Gone" /\ ~dem[r].closed
    /\ dem' = [dem EXCEPT ![r].closed = TRUE,
                          ![r].released = TRUE,
                          ![r].state = IF @ = "Ready" THEN "Releasing" ELSE @]
    /\ doc' = CancelClosed([i \in Ids |->
                 IF i \in CallsOf(doc, r) /\ ~dem[r].proven /\ (cancelling \/ doc[i].state = "Queued")
                 THEN Cancelled(doc[i]) ELSE doc[i]])
    /\ UNCHANGED <<scope, analysed, history, sub, maint, ghosts, crashes>>

\* Retirement::run: the backend is stopped once no call runs.
Retire(r) ==
    /\ dem[r].state = "Releasing" /\ ~InState(doc, r, {"Running"})
    /\ dem' = [dem EXCEPT ![r].state = "Retired"]
    /\ UNCHANGED <<doc, scope, analysed, history, sub, maint, ghosts, crashes>>

\* recovery::quarantine; a demand that is being released is left alone.
Quarantine(r) ==
    /\ dem[r].state = "Ready" /\ InState(doc, r, {"Uncertain"})
    /\ dem' = [dem EXCEPT ![r].state = "RecoveryRequired"]
    /\ doc' = CancelClosed(doc)
    /\ UNCHANGED <<scope, analysed, history, sub, maint, ghosts, crashes>>

\* Recovery::prepare.
RecoveryPrepare(r) ==
    /\ dem[r].state = "RecoveryRequired"
    /\ ~dem[r].released \/ InState(doc, r, {"Queued"})
    /\ dem' = [dem EXCEPT ![r].released = TRUE]
    /\ doc' = [i \in Ids |-> IF i \in CallsOf(doc, r) /\ doc[i].state = "Queued"
                             THEN Cancelled(doc[i]) ELSE doc[i]]
    /\ UNCHANGED <<scope, analysed, history, sub, maint, ghosts, crashes>>

ChildrenRecoverable(d, i) == \A c \in Children(d, i) : d[c].state \notin {"Queued", "Running"}

\* allows_recovery: the interrupted workspace was diagnosed and nothing in it can move.
AllowsRecovery(i) ==
    i \in analysed /\ ChildrenRecoverable(doc, i) /\ scope[i] \in {"closed", "late"}

\* Reconciliation::finish: the backend is proven absent.
RecoveryFinish(r) ==
    /\ dem[r].state = "RecoveryRequired" /\ dem[r].released
    /\ ~InState(doc, r, {"Queued", "Running"})
    /\ \A i \in CallsOf(doc, r) :
         doc[i].state = "Uncertain" /\ doc[i].req \in Workspaces => AllowsRecovery(i)
    /\ dem' = [dem EXCEPT ![r].state = "Retired", ![r].proven = TRUE]
    /\ UNCHANGED <<doc, scope, analysed, history, sub, maint, ghosts, crashes>>

\* workspace_recovery::candidates.
Candidate(i) ==
    /\ doc[i] # None /\ doc[i].req \in Workspaces /\ doc[i].state = "Uncertain"
    /\ dem[ResOf[doc[i].req]].state = "RecoveryRequired"
    /\ i \notin analysed

\* workspace_recovery::analyze: only the scoped calls are in doubt, the scope is
\* over, and the parent left a result that names its review packet.
Diagnosable(i) ==
    /\ Candidate(i)
    /\ doc[i].cause = "child"
    /\ scope[i] \in {"closed", "late"}
    /\ doc[i].slots \cap {"result", "late_result"} # {}

\* reconcile_closed_scope_confined_running_children.
ReconcileChildren(i) ==
    /\ Diagnosable(i) /\ \E c \in Children(doc, i) : doc[c].state = "Running"
    /\ doc' = [c \in Ids |-> IF c \in Children(doc, i) /\ doc[c].state = "Running"
                             THEN [Cancelled(doc[c]) EXCEPT !.state = "Uncertain"] ELSE doc[c]]
    /\ UNCHANGED <<dem, scope, analysed, history, sub, maint, ghosts, crashes>>

\* workspace_recovery::persist.
PersistAnalysis(i) ==
    /\ Diagnosable(i) /\ ChildrenRecoverable(doc, i)
    /\ analysed' = analysed \cup {i}
    /\ UNCHANGED <<dem, doc, scope, history, sub, maint, ghosts, crashes>>

-----------------------------------------------------------------------------
(* Maintenance: plan under the lock, stage and publish the files without it, *)
(* and remove the live records under the lock if they are still the same.    *)

\* workspace_dependencies_retirable.
DependenciesClear(i) ==
    LET p == doc[i].scope IN
    /\ p # None /\ scope[p] # "none" =>
         /\ scope[p] # "open"
         /\ doc[p] # None => doc[p].state \in Terminal
    /\ doc[i].req \in Workspaces => ChildrenRecoverable(doc, i)

\* Mutation of RetirableCall: an unresolved outcome does not hold the record.
RetirableUnproven(i) == doc[i].state \notin {"Queued", "Running"} /\ DependenciesClear(i)

\* invocation_retirable_after_closure.
RetirableCall(i) ==
    /\ doc[i].state \notin {"Queued", "Running"}
    /\ doc[i].state = "Uncertain" => dem[ResOf[doc[i].req]].proven
    /\ DependenciesClear(i)

\* closed_group_eligible, for reservations of one member.
GroupEligible(r) ==
    /\ dem[r].closed /\ dem[r].state = "Retired"
    /\ \A i \in Ids : issued[i] # None /\ ResOf[issued[i]] = r => scope[i] # "open"
    /\ \A i \in CallsOf(doc, r) : RetirableCall(i)

ActiveTerminal == {i \in Live(doc) : doc[i].state \in Terminal /\ DependenciesClear(i)}

\* expire(): archives that are closed and past their retention.
ExpiredCalls == {i \in Ids \cap old : file[CallFile(i)] # None}
ExpiredReservations == {r \in Reservations \cap old : file[ReservationFile(r)] # None}

Plan(kind, r, ids) ==
    [kind |-> kind, res |-> r, dem |-> IF r = None THEN None ELSE dem[r],
     recs |-> [i \in ids |-> doc[i]]]

\* What is staged is a function over positions <<section, whose, part>>; the
\* sections, the calls in them and the parts of a call are taken in order.
Before(a, b) ==
    \/ a[1] < b[1]
    \/ a[1] = b[1] /\ a[1] # 2 /\ (a[2] < b[2] \/ (a[2] = b[2] /\ a[3] < b[3]))
Leading(staged) == {a \in DOMAIN staged : \A b \in DOMAIN staged : ~Before(b, a)}
Without(staged, a) == [b \in DOMAIN staged \ {a} |-> staged[b]]
Nothing == [a \in {} |-> None]

Idle == [pc |-> "idle", plan |-> None, staged |-> Nothing]

\* plan_maintenance: closed groups first, then calls, then what has expired.
PlanMaintenance(m) ==
    /\ maint[m].pc = "idle"
    /\ LET groups == {r \in Reservations : GroupEligible(r)} IN
       \/ \E r \in groups :
            maint' = [maint EXCEPT ![m] = [@ EXCEPT !.pc = "prepare",
                                           !.plan = Plan("group", r, CallsOf(doc, r))]]
       \/ \E i \in ActiveTerminal :
            /\ groups = {}
            /\ maint' = [maint EXCEPT ![m] = [@ EXCEPT !.pc = "prepare",
                                             !.plan = Plan("call", ResOf[doc[i].req], {i})]]
       \/ /\ groups = {} /\ ActiveTerminal = {} /\ ExpiredCalls \cup ExpiredReservations # {}
          /\ maint' = [maint EXCEPT ![m] = [@ EXCEPT !.pc = "prepare",
                                           !.plan = Plan("expire", None, {})]]
    /\ UNCHANGED <<dem, doc, scope, analysed, history, sub, ghosts, crashes>>

Write(f, v) == [file |-> f, value |-> v, base |-> file[f]]

\* invocation_archive_from_snapshot: a record that was archived before is kept.
ArchiveOf(i, rec, closing) ==
    IF file[CallFile(i)] # None
    THEN [file[CallFile(i)] EXCEPT !.closed = @ \/ closing]
    ELSE [rec |-> rec, closed |-> closing]

\* The files of a call: its record and the two indexes, a nested call has no work.
Parts(q) == IF q \in Nested THEN 1 .. 2 ELSE 1 .. 3
PartOf(i, q, k) ==
    CASE k = 1 -> CallFile(i) [] k = 2 -> SubmissionFile(q) [] OTHER -> WorkFile(WorkOf[q])

ReservationArchive(r) ==
    IF file[ReservationFile(r)] = None THEN [calls |-> {}, closed |-> FALSE]
    ELSE file[ReservationFile(r)]

\* The calls of a closing reservation that were archived while it was open.
EarlierCalls(p) ==
    IF p.kind = "call" THEN {}
    ELSE {i \in ReservationArchive(p.res).calls \ DOMAIN p.recs : file[CallFile(i)] # None}

\* stage_invocation_archive for the calls of the plan, stage_reservation_archive,
\* and again the calls that were archived earlier.
Staged(p) ==
    LET ids == DOMAIN p.recs
        archive == [i \in ids \cup EarlierCalls(p) |->
            ArchiveOf(i, IF i \in ids THEN p.recs[i] ELSE file[CallFile(i)].rec, p.kind = "group")]
        entry == [calls |-> ReservationArchive(p.res).calls \cup ids,
                  closed |-> ReservationArchive(p.res).closed \/ p.kind = "group"]
        at == {<<IF i \in ids THEN 1 ELSE 3, i, k>> : i \in DOMAIN archive, k \in 1 .. 3}
    IN [a \in {x \in at : x[3] \in Parts(archive[x[2]].rec.req)} \cup {<<2, p.res, 1>>} |->
          IF a[1] = 2 THEN Write(ReservationFile(p.res), entry)
          ELSE Write(PartOf(a[2], archive[a[2]].rec.req, a[3]),
                     IF a[3] = 1 THEN archive[a[2]] ELSE a[2])]

\* The removals of expire(): payloads, archive, indexes, then the reservations.
Removals ==
    LET of(i) == file[CallFile(i)].rec.req
        at == {a \in {<<1, i, k>> : i \in ExpiredCalls, k \in 0 .. 3} : a[3] \in {0} \cup Parts(of(a[2]))}
    IN [a \in at \cup {<<2, r, 1>> : r \in ExpiredReservations} |->
          IF a[1] = 2 THEN ReservationFile(a[2])
          ELSE IF a[3] = 0 THEN <<"payload", a[2]>> ELSE PartOf(a[2], of(a[2]), a[3])]

PrepareMaintenance(m) ==
    /\ maint[m].pc = "prepare"
    /\ maint' = [maint EXCEPT ![m] =
         IF @.plan.kind = "expire" THEN [@ EXCEPT !.pc = "expire", !.staged = Removals]
         ELSE [@ EXCEPT !.pc = "check", !.staged = Staged(maint[m].plan)]]
    /\ UNCHANGED <<dem, doc, scope, analysed, history, sub, ghosts, crashes>>

\* prepared_maintenance_eligible: every snapshot is still the live record.
PreparedEligible(p) ==
    /\ \A i \in DOMAIN p.recs : doc[i] = p.recs[i]
    /\ p.kind = "call" => \A i \in DOMAIN p.recs : DependenciesClear(i)
    /\ p.kind = "group" => dem[p.res] = p.dem /\ GroupEligible(p.res)

CheckMaintenance(m) ==
    /\ maint[m].pc = "check"
    /\ maint' = [maint EXCEPT ![m] = IF PreparedEligible(@.plan)
                                     THEN [@ EXCEPT !.pc = "publish"] ELSE Idle]
    /\ UNCHANGED <<dem, doc, scope, analysed, history, sub, ghosts, crashes>>

\* Mutation of Publishable: only a file that does not exist yet is written.
PublishableNew(s) == file[s.file] \in {s.value, None}

\* publish_staged: the final file is what it was when the write was staged.
Publishable(s) == file[s.file] \in {s.value, s.base}

\* Mutation of Publish: the records are removed while files are still staged.
PublishLate(m) ==
    /\ maint[m].pc = "publish"
    /\ \E a \in Leading(maint[m].staged) : LET s == maint[m].staged[a] IN
         /\ file' = [file EXCEPT ![s.file] = s.value]
         /\ maint' = [maint EXCEPT ![m].staged = Without(@, a),
                                   ![m].pc = IF Cardinality(DOMAIN maint[m].staged) <= 2 THEN "commit" ELSE @]
    /\ UNCHANGED <<dem, doc, scope, analysed, payload, old, sub, ghosts, crashes>>

Publish(m) ==
    /\ maint[m].pc = "publish"
    /\ \E a \in Leading(maint[m].staged) : LET s == maint[m].staged[a] IN
         IF Publishable(s)
         THEN /\ file' = [file EXCEPT ![s.file] = s.value]
              /\ maint' = [maint EXCEPT ![m].staged = Without(@, a),
                                        ![m].pc = IF DOMAIN maint[m].staged = {a} THEN "commit" ELSE @]
         ELSE maint' = [maint EXCEPT ![m] = Idle] /\ UNCHANGED file
    /\ UNCHANGED <<dem, doc, scope, analysed, payload, old, sub, ghosts, crashes>>

\* commit_published_maintenance.
CommitMaintenance(m) ==
    /\ maint[m].pc = "commit"
    /\ LET p == maint[m].plan IN
         IF PreparedEligible(p)
         THEN /\ doc' = [i \in Ids |-> IF i \in DOMAIN p.recs THEN None ELSE doc[i]]
              /\ IF p.kind = "group"
                 THEN /\ dem' = [dem EXCEPT ![p.res].state = "Gone"]
                      /\ scope' = [i \in Ids |->
                           IF issued[i] # None /\ ResOf[issued[i]] = p.res THEN "none" ELSE scope[i]]
                 ELSE UNCHANGED <<dem, scope>>
         ELSE UNCHANGED <<dem, doc, scope>>
    /\ maint' = [maint EXCEPT ![m] = Idle]
    /\ UNCHANGED <<analysed, history, sub, ghosts, crashes>>

\* One removal of expire().
ExpireStep(m) ==
    /\ maint[m].pc = "expire"
    /\ LET todo == maint[m].staged IN
         \/ /\ DOMAIN todo = {}
            /\ maint' = [maint EXCEPT ![m] = Idle]
            /\ UNCHANGED <<file, payload>>
         \/ \E a \in Leading(todo) :
              /\ maint' = [maint EXCEPT ![m].staged = Without(@, a)]
              /\ IF a[1] = 1 /\ a[3] = 0
                 THEN payload' = [payload EXCEPT ![a[2]] = {}] /\ UNCHANGED file
                 ELSE file' = [file EXCEPT ![todo[a]] = None] /\ UNCHANGED payload
    /\ UNCHANGED <<dem, doc, scope, analysed, old, sub, ghosts, crashes>>

\* Fourteen days pass since an archive was closed. (The live record is gone by
\* then: retirement is retried every minute.)
Age(x) ==
    /\ x \notin old
    /\ IF x \in Ids
       THEN file[CallFile(x)] # None /\ file[CallFile(x)].closed /\ doc[x] = None
       ELSE /\ file[ReservationFile(x)] # None /\ file[ReservationFile(x)].closed
            /\ dem[x].state = "Gone"
    /\ old' = old \cup {x}
    /\ UNCHANGED <<dem, doc, scope, analysed, file, payload, sub, maint, ghosts, crashes>>

\* The receiver dies at any step and is started again: service::recover.
Restart ==
    /\ crashes < MaxCrashes
    /\ crashes' = crashes + 1
    /\ doc' = [i \in Ids |-> IF doc[i] # None /\ doc[i].state = "Running"
                             THEN [doc[i] EXCEPT !.state = "Uncertain", !.cause = "restart"]
                             ELSE doc[i]]
    /\ sub' = [t \in Threads |-> [pc |-> "idle", req |-> None]]
    /\ maint' = [m \in Maintainers |-> Idle]
    /\ UNCHANGED <<dem, scope, analysed, history, ghosts>>

-----------------------------------------------------------------------------
(* What the inspection of a work reports (work_execution_view.rs).           *)

\* load_by_work: the live record, or the archived one.
Snapshots(w) ==
    LET live == FindWork(doc, w)
        i == file[WorkFile(w)] IN
    IF live # {} THEN {[call |-> j, rec |-> doc[j]] : j \in live}
    ELSE IF LookupWork(w) THEN {[call |-> i, rec |-> file[CallFile(i)].rec]} ELSE {}

\* read_review_packet: the result, on time or late, names the packet.
ReviewPacket(c) == c.slots \cap {"result", "late_result"} # {}

\* workspace_packet_view, reduced to whether there is evidence.
Evidence(c) ==
    IF c.req \notin Workspaces THEN "none"
    ELSE IF ReviewPacket(c) THEN "recorded" ELSE "packet_unavailable"

\* outcome_category; a recorded packet adds its own verdict to "completed".
OutcomeCategory(c) ==
    CASE c.state = "Queued"    -> "pending"
      [] c.state = "Completed" -> IF Evidence(c) = "packet_unavailable"
                                  THEN "completed_evidence_unavailable" ELSE "completed"
      [] OTHER                 -> c.state

AttemptKnown(c) ==
    IF c.req \in Workspaces THEN Evidence(c) = "recorded"
    ELSE c.state \in Terminal

Outcome(c) ==
    [terminal |-> c.state \notin {"Queued", "Running"},
     known    |-> c.state # "Uncertain",
     category |-> OutcomeCategory(c),
     attempt  |-> AttemptKnown(c)]

Report(w) == {[call |-> s.call, outcome |-> Outcome(s.rec)] : s \in Snapshots(w)}

-----------------------------------------------------------------------------
Init ==
    /\ dem = [r \in Reservations |-> [state |-> "Ready", released |-> FALSE, closed |-> FALSE,
                                      proven |-> FALSE, accepted |-> FALSE]]
    /\ doc = [i \in Ids |-> None]
    /\ scope = [i \in Ids |-> "none"]
    /\ analysed = {}
    /\ file = [f \in Files |-> None]
    /\ payload = [i \in Ids |-> {}]
    /\ old = {}
    /\ sub = [t \in Threads |-> [pc |-> "idle", req |-> None]]
    /\ maint = [m \in Maintainers |-> Idle]
    /\ issued = [i \in Ids |-> None]
    /\ ran = {}
    /\ crashes = 0

Client ==
    \/ \E t \in Threads : SubmitLookup(t) \/ Accept(t) \/ \E q \in Request : SubmitRead(t, q) \/ GatewaySubmit(t, q)
    \/ \E i \in Ids : CancelInvocation(i) \/ ScopeOpen(i) \/ ScopeClose(i)
    \/ \E r \in Reservations, cancelling \in BOOLEAN : Close(r, cancelling)

Runtime ==
    \/ TickCancel
    \/ \E i \in Ids : \/ Dispatch(i) \/ DispatchExpire(i) \/ Complete(i)
                      \/ ReconcileChildren(i) \/ PersistAnalysis(i)
    \/ \E r \in Reservations : Retire(r) \/ Quarantine(r) \/ RecoveryPrepare(r) \/ RecoveryFinish(r)

Maintain(m) ==
    \/ PlanMaintenance(m) \/ PrepareMaintenance(m) \/ CheckMaintenance(m)
    \/ Publish(m) \/ CommitMaintenance(m) \/ ExpireStep(m)

Time == (\E i \in Ids : ScopeLate(i)) \/ \E x \in Ids \cup Reservations : Age(x)

Next == Client \/ Runtime \/ (\E m \in Maintainers : Maintain(m)) \/ Time \/ Restart

\* The maintenance thread runs every minute, or at once when it was asked for.
Spec == Init /\ [][Next]_vars /\ \A m \in Maintainers : WF_vars(Maintain(m))

TypeOK ==
    /\ dem \in [Reservations -> DemandRecord]
    /\ doc \in [Ids -> CallRecord \cup {None}]
    /\ scope \in [Ids -> {"none", "open", "late", "closed"}]
    /\ analysed \subseteq Ids /\ old \subseteq Ids \cup Reservations /\ ran \subseteq Ids
    /\ payload \in [Ids -> SUBSET Slots]
    /\ DOMAIN file = Files
    /\ sub \in [Threads -> [pc : {"idle", "lookup", "accept"}, req : Request \cup {None}]]
    /\ \A m \in Maintainers : maint[m].pc \in {"idle", "prepare", "check", "publish", "commit", "expire"}
    /\ issued \in [Ids -> Request \cup {None}]

\* The bodies a retained record refers to are on disk (payload_store.rs).
PayloadKept ==
    \A i \in Ids :
        /\ doc[i] # None => Hydrates(i, doc[i])
        /\ file[CallFile(i)] # None /\ i \notin old => Hydrates(i, file[CallFile(i)].rec)

\* Every accepted call is found by its submission and its work id, in the
\* document or in the archive, with the bodies it refers to, until its retention
\* has passed: whatever step of the publication a crash interrupts
\* (history_archive.rs).
NothingLost ==
    /\ PayloadKept
    /\ \A i \in Ids : issued[i] # None /\ i \notin old =>
         \/ doc[i] # None
         \/ /\ file[CallFile(i)] # None
            /\ file[SubmissionFile(issued[i])] = i
            /\ issued[i] \notin Nested => file[WorkFile(WorkOf[issued[i]])] = i
    /\ \A r \in Reservations :
         dem[r].state = "Gone" /\ r \notin old => file[ReservationFile(r)] # None

\* No work id runs twice within its retention, however its submissions, its
\* retirement and restarts interleave (inference.rs, work.rs).
RunsOnce ==
    \A i, j \in ran \ old :
        /\ issued[i] = issued[j] => i = j
        /\ WorkOf[issued[i]] # None /\ WorkOf[issued[i]] = WorkOf[issued[j]] => i = j

\* A workspace is reported as completed only when no model call nested in it
\* is running or of unknown outcome, and none starts later (dispatch.rs).
ParentSettled ==
    \A p \in Live(doc), c \in Live(doc) :
        doc[c].scope = p /\ doc[p].state \in {"Completed", "Failed"} =>
            doc[c].state \notin {"Running", "Uncertain"}

\* A record leaves the document only as it was archived, and an uncertain one
\* only after its backend was proven absent (commit_published_maintenance).
RetiredAsArchived ==
    [][\A i \in Ids : doc[i] # None /\ doc'[i] = None =>
          /\ file[CallFile(i)].rec.state = doc[i].state
          /\ file[CallFile(i)].rec.slots = doc[i].slots
          /\ doc[i].state = "Uncertain" => dem[ResOf[doc[i].req]].proven]_doc

\* A work that was once reported as over keeps the reported outcome until its
\* retention has passed, through late cancellation, recovery, restarts and the
\* move of its record and its evidence to the archive (work_execution_view.rs).
OutcomeKept ==
    [][\A w \in Works : \A s \in Report(w) :
          s.outcome.terminal /\ s.call \notin old' => Report(w)' = {s}]_<<doc, file>>

\* A closed reservation whose cleanup is verified does not stay in the document,
\* whatever a crash left half published (retire_history_once).
ClosedRetired == \A r \in Reservations : []<>~GroupEligible(r)
=============================================================================
