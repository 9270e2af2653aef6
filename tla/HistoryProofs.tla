---------------------------- MODULE HistoryProofs ----------------------------
(* What the document says of workspaces and the calls nested in them, and    *)
(* what the archive keeps of the calls that leave it, for any requests,      *)
(* reservations, threads, maintainers and crashes.                           *)
EXTENDS History, TLAPS

-----------------------------------------------------------------------------
(* The inductive invariant *)

\* The document, as far as the family of a call depends on it.
DocOK ==
    /\ doc \in [Ids -> CallRecord \cup {None}]
    /\ scope \in [Ids -> {"none", "open", "late", "closed"}]
    /\ issued \in [Ids -> Request \cup {None}]
    /\ dem \in [Reservations -> DemandRecord]
    /\ \A t \in Threads : sub[t].pc # "idle" => sub[t].req \in Request
    /\ sub \in [Threads -> [pc : {"idle", "lookup", "accept"}, req : Request \cup {None}]]

\* A record is that of an issued invocation, and a nested one names a workspace
\* of the same reservation, whose scope is not forgotten before it is gone.
Issued == \A i \in Live(doc) : issued[i] = doc[i].req
Family ==
    \A c \in Live(doc) : doc[c].scope # None =>
        /\ scope[doc[c].scope] # "none"
        /\ issued[doc[c].scope] \in Workspaces
        /\ ResOf[issued[doc[c].scope]] = ResOf[doc[c].req]

\* A closed reservation accepts no call, so the plan that retires it names all
\* its calls.
Shut == \A r \in Reservations : dem[r].closed => dem[r].released
Planned(m) ==
    maint[m].pc \in {"prepare", "check", "publish", "commit"} /\ maint[m].plan.kind = "group" =>
        /\ maint[m].plan.res \in Reservations
        /\ dem[maint[m].plan.res].released
        /\ CallsOf(doc, maint[m].plan.res) \subseteq DOMAIN maint[m].plan.recs
MaintOK ==
    /\ DOMAIN maint = Maintainers
    /\ \A m \in Maintainers :
         /\ DOMAIN maint[m] = {"pc", "plan", "staged"}
         /\ Planned(m)

ScopeInv == DocOK /\ Issued /\ Family /\ Shut /\ MaintOK /\ ParentSettled

-----------------------------------------------------------------------------
(* Steps on the records *)

\* A record that is cancelled stays that call's and does not come back to life.
LEMMA CancelledRecord ==
    ASSUME NEW c \in CallRecord
    PROVE  /\ Cancelled(c) \in CallRecord
           /\ Cancelled(c).req = c.req /\ Cancelled(c).scope = c.scope
           /\ Cancelled(c).state = c.state \/ Cancelled(c).state = "Cancelled"
BY DEF Cancelled, CallRecord, Terminal

\* What a step makes of a record: nothing, or the same call in a state that does
\* not disturb its family.
Follows(r, q) ==
    \/ q = None
    \/ /\ r # None /\ q \in CallRecord /\ q.req = r.req /\ q.scope = r.scope
       /\ \/ q.state = r.state
          \/ q.state \notin {"Running", "Uncertain", "Completed", "Failed"}
          \/ q.state = "Uncertain" /\ r.state \in {"Running", "Uncertain"}

\* The settled scopes, as every dispatch and completion sees them first.
LEMMA CancelClosedFollows ==
    ASSUME DocOK, NEW d \in [Ids -> CallRecord \cup {None}]
    PROVE  /\ CancelClosed(d) \in [Ids -> CallRecord \cup {None}]
           /\ \A i \in Ids : Follows(d[i], CancelClosed(d)[i])
           /\ \A i \in Ids : d[i] # None => CancelClosed(d)[i] \in {d[i], Cancelled(d[i])}
<1> SUFFICES ASSUME NEW i \in Ids
             PROVE  /\ CancelClosed(d)[i] \in CallRecord \cup {None}
                    /\ Follows(d[i], CancelClosed(d)[i])
                    /\ d[i] # None => CancelClosed(d)[i] \in {d[i], Cancelled(d[i])}
  <2>1. CancelClosed(d) = [i \in Ids |-> CancelClosed(d)[i]] BY DEF CancelClosed
  <2> QED BY <2>1
<1>1. CancelClosed(d)[i] = IF d[i] # None /\ ~Permits(d, d[i]) THEN Cancelled(d[i]) ELSE d[i] BY DEF CancelClosed
<1>2. CASE d[i] = None BY <1>1, <1>2 DEF Follows
<1>3. CASE d[i] # None
  <2>1. PICK c \in CallRecord : c = d[i] BY <1>3
  <2>2. CancelClosed(d)[i] \in {c, Cancelled(c)} BY <1>1, <2>1
  <2> QED BY <1>3, <2>1, <2>2, CancelledRecord DEF Follows
<1> QED BY <1>2, <1>3

\* Or it moves on, with its parent and its children in states that allow it.
Excused(i) ==
    /\ doc[i] # None /\ doc'[i] \in CallRecord /\ doc'[i].req = doc[i].req /\ doc'[i].scope = doc[i].scope
    /\ doc'[i].state \in {"Completed", "Failed"} =>
         \A c \in Live(doc') : doc'[c].scope = i => doc'[c].state \notin {"Running", "Uncertain"}
    /\ doc'[i].state \in {"Running", "Uncertain"} =>
         \A p \in Live(doc') : doc'[i].scope = p => doc'[p].state \notin {"Completed", "Failed"}

\* A step after which every record follows its former self or is excused, with
\* the scopes kept, keeps what is known of the families.
LEMMA FollowsKeeps ==
    ASSUME DocOK, Issued, Family, ParentSettled, issued' = issued,
           doc' \in [Ids -> CallRecord \cup {None}],
           \A i \in Ids : Follows(doc[i], doc'[i]) \/ Excused(i),
           \A p \in Ids : (\E c \in Live(doc') : doc'[c].scope = p) /\ scope[p] # "none" => scope'[p] # "none"
    PROVE  Issued' /\ Family' /\ ParentSettled'
<1>1. \A i \in Live(doc') : i \in Live(doc) /\ doc'[i].req = doc[i].req /\ doc'[i].scope = doc[i].scope
  BY DEF Live, Follows, Excused
<1>2. Issued' BY <1>1 DEF Issued, Live
<1>3. ASSUME NEW c \in Live(doc'), doc'[c].scope # None
      PROVE  /\ scope'[doc'[c].scope] # "none" /\ issued'[doc'[c].scope] \in Workspaces
             /\ ResOf[issued'[doc'[c].scope]] = ResOf[doc'[c].req]
  <2>1. PICK r \in CallRecord : r = doc'[c] BY <1>3 DEF Live
  <2>2. PICK p \in Ids : p = doc'[c].scope BY <1>3, <2>1 DEF CallRecord
  <2>3. scope[p] # "none" /\ issued[p] \in Workspaces /\ ResOf[issued[p]] = ResOf[doc[c].req]
    BY <1>1, <1>3, <2>2 DEF Family
  <2>4. scope'[p] # "none" BY <1>3, <2>2, <2>3
  <2> QED BY <1>1, <1>3, <2>2, <2>3, <2>4
<1>4. Family' BY <1>3 DEF Family
<1>5. ASSUME NEW p \in Live(doc'), NEW c \in Live(doc'),
             doc'[c].scope = p, doc'[p].state \in {"Completed", "Failed"}
      PROVE  doc'[c].state \notin {"Running", "Uncertain"}
  <2>0. p \in Ids /\ c \in Ids /\ doc'[p] # None /\ doc'[c] # None BY DEF Live
  <2>1. CASE Excused(p) \/ Excused(c) BY <1>5, <2>1 DEF Excused
  <2>2. CASE Follows(doc[p], doc'[p]) /\ Follows(doc[c], doc'[c])
    <3>1. doc[p].state = doc'[p].state BY <1>5, <2>0, <2>2 DEF Follows
    <3>2. doc[c].state \notin {"Running", "Uncertain"} BY <1>1, <1>5, <3>1 DEF ParentSettled
    <3> QED BY <2>0, <2>2, <3>2 DEF Follows
  <2> QED BY <2>0, <2>1, <2>2
<1>6. ParentSettled' BY <1>5 DEF ParentSettled, Live
<1> QED BY <1>2, <1>4, <1>6

\* The other parts: the maintenance waits, calls are settled or removed.
LEMMA PlansKept ==
    ASSUME DocOK, MaintOK, maint' = maint,
           \A i \in Ids : doc'[i] # None => doc[i] # None /\ doc'[i].req = doc[i].req,
           \A r \in Reservations : dem[r].released => dem'[r].released
    PROVE  MaintOK'
<1>1. \A r : CallsOf(doc, r)' \subseteq CallsOf(doc, r) BY DEF CallsOf, Live
<1>2. ASSUME NEW m \in Maintainers PROVE Planned(m)' BY <1>1 DEF MaintOK, Planned
<1> QED BY <1>2 DEF MaintOK

\* A step on the calls alone.
LEMMA CallStep ==
    ASSUME ScopeInv, dem' = dem, issued' = issued, sub' = sub, maint' = maint,
           doc' \in [Ids -> CallRecord \cup {None}],
           \A i \in Ids : Follows(doc[i], doc'[i]) \/ Excused(i),
           scope' \in [Ids -> {"none", "open", "late", "closed"}],
           \A p \in Ids : scope[p] # "none" => scope'[p] # "none"
    PROVE  ScopeInv'
<1>1. Issued' /\ Family' /\ ParentSettled' BY FollowsKeeps DEF ScopeInv
<1>2. MaintOK' BY PlansKept DEF ScopeInv, Follows, Excused
<1>3. DocOK' BY DEF ScopeInv, DocOK
<1> QED BY <1>1, <1>2, <1>3 DEF ScopeInv, Shut

-----------------------------------------------------------------------------
(* Scopes, dispatch, completion and cancellation *)

\* A record that stays follows itself, and so does a cancelled one.
LEMMA FollowsSelf ==
    ASSUME NEW c \in CallRecord \cup {None}
    PROVE  Follows(c, c) /\ (c # None => Follows(c, Cancelled(c)) /\ Cancelled(c) \in CallRecord)
BY CancelledRecord DEF Follows

\* The steps that only cancel.
LEMMA ScopesHold ==
    ASSUME ScopeInv, NEW i \in Ids, ScopeOpen(i) \/ ScopeClose(i) \/ ScopeLate(i) \/ TickCancel
    PROVE  ScopeInv'
<1>0. DocOK /\ doc \in [Ids -> CallRecord \cup {None}] /\ scope \in [Ids -> {"none", "open", "late", "closed"}]
  BY DEF ScopeInv, DocOK
<1>1. CASE ScopeOpen(i) \/ ScopeLate(i)
  <2>1. doc' = doc /\ UNCHANGED <<dem, issued, sub, maint>> BY <1>1 DEF ScopeOpen, ScopeLate, ghosts
  <2>2. scope' = [scope EXCEPT ![i] = "open"] \/ scope' = [scope EXCEPT ![i] = "late"]
    BY <1>1 DEF ScopeOpen, ScopeLate
  <2>3. \A j \in Ids : Follows(doc[j], doc'[j]) BY <1>0, <2>1, FollowsSelf
  <2> QED BY <1>0, <2>1, <2>2, <2>3, CallStep
<1>2. CASE ScopeClose(i)
  <2>1. UNCHANGED <<dem, issued, sub, maint>> /\ scope' = [scope EXCEPT ![i] = "closed"]
    BY <1>2 DEF ScopeClose, ghosts
  <2>2. ASSUME NEW j \in Ids PROVE doc'[j] \in CallRecord \cup {None} /\ Follows(doc[j], doc'[j])
    <3>1. doc'[j] = doc[j] \/ (doc[j] # None /\ doc'[j] = Cancelled(doc[j])) BY <1>2 DEF ScopeClose
    <3> QED BY <1>0, <3>1, FollowsSelf
  <2>3. doc' = [j \in Ids |-> doc'[j]] BY <1>2 DEF ScopeClose
  <2> QED BY <1>0, <2>1, <2>2, <2>3, CallStep
<1>3. CASE TickCancel
  <2>1. UNCHANGED <<dem, issued, sub, maint, scope>> /\ doc' = CancelClosed(doc) BY <1>3 DEF TickCancel, ghosts
  <2> QED BY <1>0, <2>1, CancelClosedFollows, CallStep
<1> QED BY <1>1, <1>2, <1>3

\* A call is started only while its workspace runs.
LEMMA DispatchHolds ==
    ASSUME ScopeInv, NEW i \in Ids, Dispatch(i) PROVE ScopeInv'
<1>0. DocOK /\ doc \in [Ids -> CallRecord \cup {None}] /\ scope \in [Ids -> {"none", "open", "late", "closed"}]
  BY DEF ScopeInv, DocOK
<1> DEFINE d == CancelClosed(doc)
<1>1. /\ d \in [Ids -> CallRecord \cup {None}]
      /\ \A j \in Ids : Follows(doc[j], d[j])
      /\ \A j \in Ids : doc[j] # None => d[j] \in {doc[j], Cancelled(doc[j])}
  BY <1>0, CancelClosedFollows
<1>2. UNCHANGED <<dem, issued, sub, maint, scope>> BY DEF Dispatch
<1>3. PICK c \in CallRecord : c = doc[i] /\ c.state = "Queued" BY <1>0 DEF Dispatch
<1>4. CASE doc' = d BY <1>1, <1>2, <1>4, CallStep, <1>0
<1>5. CASE doc' # d
  <2>1. d[i].state = "Queued" /\ doc' = [d EXCEPT ![i].state = "Running"] BY <1>5 DEF Dispatch
  <2>2. Permits(doc, c) /\ d[i] = c
    <3>1. d[i] = IF ~Permits(doc, c) THEN Cancelled(c) ELSE c BY <1>3 DEF CancelClosed, Dispatch
    <3>2. Cancelled(c).state = "Cancelled" BY <1>3 DEF Cancelled, CallRecord
    <3> QED BY <2>1, <3>1, <3>2
  <2> HIDE DEF d
  <2>3. /\ doc'[i] = [c EXCEPT !.state = "Running"]
        /\ \A j \in Ids \ {i} : doc'[j] = d[j]
    BY <1>1, <2>1, <2>2
  <2>4. [c EXCEPT !.state = "Running"] \in CallRecord BY DEF CallRecord, Terminal
  <2>5. doc' \in [Ids -> CallRecord \cup {None}] BY <1>1, <2>1, <2>3, <2>4
  <2>6. ASSUME NEW p \in Live(doc'), doc'[i].scope = p PROVE doc'[p].state \notin {"Completed", "Failed"}
    <3>1. p \in Ids /\ c.scope = p BY <2>3, <2>6 DEF Live, CallRecord
    <3>2. c.scope # None BY <3>1, HistoryAssumption
    <3>3. doc[p] # None /\ doc[p].state = "Running" BY <2>2, <3>1, <3>2 DEF Permits, ParentOpen
    <3>4. CASE p = i BY <2>3, <2>4, <3>4 DEF CallRecord
    <3>5. CASE p # i
      <4>1. doc'[p] \in {doc[p], Cancelled(doc[p])} BY <1>1, <2>3, <3>1, <3>3, <3>5
      <4>2. PICK q \in CallRecord : q = doc[p] BY <1>0, <3>1, <3>3
      <4> QED BY <3>3, <4>1, <4>2, CancelledRecord
    <3> QED BY <3>4, <3>5
  <2>7. Excused(i)
    <3>1. doc'[i].state = "Running" /\ doc'[i].req = c.req /\ doc'[i].scope = c.scope BY <2>3 DEF CallRecord
    <3>2. doc[i] # None BY DEF Dispatch
    <3> QED BY <1>3, <2>3, <2>4, <2>6, <3>1, <3>2 DEF Excused
  <2> QED BY <1>0, <1>1, <1>2, <2>3, <2>5, <2>7, CallStep
<1> QED BY <1>4, <1>5

\* A workspace is completed only when the calls nested in it are settled.
LEMMA CompleteHolds ==
    ASSUME ScopeInv, NEW i \in Ids, Complete(i) PROVE ScopeInv'
<1>0. /\ DocOK /\ doc \in [Ids -> CallRecord \cup {None}] /\ scope \in [Ids -> {"none", "open", "late", "closed"}]
      /\ Family /\ Issued
  BY DEF ScopeInv, DocOK
<1> DEFINE d == CancelClosed(doc)
<1>1. /\ d \in [Ids -> CallRecord \cup {None}]
      /\ \A j \in Ids : Follows(doc[j], d[j])
      /\ \A j \in Ids : doc[j] # None => d[j] \in {doc[j], Cancelled(doc[j])}
  BY <1>0, CancelClosedFollows
<1>2. UNCHANGED <<dem, issued, sub, maint, scope>> BY DEF Complete, ghosts
<1>3. PICK c \in CallRecord : c = doc[i] /\ c.state = "Running" BY <1>0 DEF Complete
<1>4. PICK e \in CallRecord : e = d[i] /\ e.req = c.req /\ e.scope = c.scope
  <2>1. doc[i] # None BY DEF Complete
  <2> QED BY <1>1, <1>3, <2>1, CancelledRecord
<1>5. PICK state \in {"Uncertain", "Cancelled", "Completed", "Failed"}, slot \in SUBSET Slots, cause \in {"child", e.cause} :
        /\ doc' = [d EXCEPT ![i] = [e EXCEPT !.state = state, !.slots = e.slots \cup slot, !.cause = cause]]
        /\ state \in {"Completed", "Failed"} => ~UnknownChild(d, i)
  <2> DEFINE held == UnknownChild(d, i)
             Slot(a) == IF a # "valid" THEN {}
                        ELSE IF held \/ d[i].cancel THEN {"late_result"} ELSE {"result"}
             State(a) == CASE held -> "Uncertain"
                           [] ~held /\ a = "valid" -> IF d[i].cancel THEN "Cancelled" ELSE "Completed"
                           [] ~held /\ a = "error" -> "Failed"
                           [] OTHER -> "Uncertain"
  <2>1. PICK a \in Answers :
          doc' = [d EXCEPT ![i].state = State(a), ![i].slots = @ \cup Slot(a),
                           ![i].cause = IF held THEN "child" ELSE @]
    BY DEF Complete
  <2>2. /\ State(a) \in {"Uncertain", "Cancelled", "Completed", "Failed"}
        /\ State(a) \in {"Completed", "Failed"} => ~held
    OBVIOUS
  <2>3. Slot(a) \in SUBSET Slots BY DEF Slots
  <2> HIDE DEF State, Slot, held, d
  <2>4. doc' = [d EXCEPT ![i] = [e EXCEPT !.state = State(a), !.slots = e.slots \cup Slot(a),
                                          !.cause = IF held THEN "child" ELSE e.cause]]
    BY <1>1, <1>4, <2>1 DEF CallRecord
  <2> USE DEF held
  <2> QED BY <2>2, <2>3, <2>4
<1> HIDE DEF d
<1> DEFINE f == [e EXCEPT !.state = state, !.slots = e.slots \cup slot, !.cause = cause]
<1>6. /\ f \in CallRecord /\ f.req = c.req /\ f.scope = c.scope /\ f.state = state
  BY <1>4, <1>5 DEF CallRecord, Terminal, Slots
<1>7. doc'[i] = f /\ \A j \in Ids \ {i} : doc'[j] = d[j] BY <1>1, <1>5
<1>8. doc' \in [Ids -> CallRecord \cup {None}] BY <1>1, <1>5, <1>6
<1> HIDE DEF f
<1>d. doc[i] # None BY DEF Complete
<1>9. CASE state \in {"Uncertain", "Cancelled"}
  <2>1. Follows(doc[i], doc'[i]) BY <1>3, <1>6, <1>7, <1>9, <1>d DEF Follows
  <2> QED BY <1>0, <1>1, <1>2, <1>7, <1>8, <2>1, CallStep
<1>10. CASE state \in {"Completed", "Failed"}
  <2>1. ASSUME NEW k \in Live(doc'), doc'[k].scope = i PROVE doc'[k].state \notin {"Running", "Uncertain"}
    <3>1. CASE k = i BY <1>6, <1>7, <1>10, <3>1
    <3>2. CASE k # i
      <4>1. k \in Ids /\ doc'[k] = d[k] /\ d[k] # None BY <1>7, <2>1, <3>2 DEF Live
      <4>2. doc[k] # None /\ doc[k].scope = i BY <1>1, <2>1, <4>1 DEF Follows
      <4>3. i # None BY HistoryAssumption
      <4>4. scope[i] # "none" /\ issued[i] \in Workspaces BY <1>0, <4>1, <4>2, <4>3 DEF Family, Live
      <4>5. e.req \in Workspaces BY <1>0, <1>3, <1>4, <1>d, <4>4 DEF Issued, Live
      <4>6. k \in Children(d, i) BY <2>1, <4>1, <4>4 DEF Children, Live
      <4> QED BY <1>4, <1>5, <1>10, <4>1, <4>5, <4>6 DEF UnknownChild
    <3> QED BY <3>1, <3>2
  <2>2. Excused(i) BY <1>3, <1>6, <1>7, <1>10, <1>d, <2>1 DEF Excused
  <2> QED BY <1>0, <1>1, <1>2, <1>7, <1>8, <2>2, CallStep
<1> QED BY <1>5, <1>9, <1>10

\* Cancelling and expiring, and the children a recovery settles.
LEMMA EndsHold ==
    ASSUME ScopeInv, NEW i \in Ids, CancelInvocation(i) \/ DispatchExpire(i) \/ ReconcileChildren(i)
    PROVE  ScopeInv'
<1>0. DocOK /\ doc \in [Ids -> CallRecord \cup {None}] /\ scope \in [Ids -> {"none", "open", "late", "closed"}]
  BY DEF ScopeInv, DocOK
<1>1. UNCHANGED <<dem, issued, sub, maint, scope>> BY DEF CancelInvocation, DispatchExpire, ReconcileChildren, ghosts
<1>2. CASE CancelInvocation(i)
  <2> DEFINE d == [doc EXCEPT ![i] = Cancelled(doc[i])]
  <2>1. PICK c \in CallRecord : c = doc[i] /\ c # None BY <1>0, <1>2 DEF CancelInvocation
  <2>2. d \in [Ids -> CallRecord \cup {None}] /\ \A j \in Ids : Follows(doc[j], d[j])
    BY <1>0, <2>1, FollowsSelf
  <2>3. doc' = CancelClosed(d) BY <1>2 DEF CancelInvocation
  <2> HIDE DEF d
  <2>4. doc' \in [Ids -> CallRecord \cup {None}] /\ \A j \in Ids : Follows(d[j], doc'[j])
    BY <1>0, <2>2, <2>3, CancelClosedFollows
  <2>5. \A j \in Ids : Follows(doc[j], doc'[j]) BY <2>2, <2>4 DEF Follows
  <2> QED BY <1>0, <1>1, <2>4, <2>5, CallStep
<1>3. CASE DispatchExpire(i)
  <2> DEFINE d == CancelClosed(doc)
  <2>1. d \in [Ids -> CallRecord \cup {None}] /\ \A j \in Ids : Follows(doc[j], d[j])
    BY <1>0, CancelClosedFollows
  <2>2. doc' = [d EXCEPT ![i].state = IF @ = "Queued" THEN "Expired" ELSE @] BY <1>3 DEF DispatchExpire
  <2>3. PICK c \in CallRecord : c = doc[i] /\ c # None BY <1>0, <1>3 DEF DispatchExpire
  <2>4. PICK e \in CallRecord :
          e = d[i] /\ e.req = c.req /\ e.scope = c.scope /\ (e.state = c.state \/ e.state = "Cancelled")
    BY <1>0, <2>3, CancelClosedFollows, CancelledRecord
  <2> HIDE DEF d
  <2> DEFINE f == [e EXCEPT !.state = IF e.state = "Queued" THEN "Expired" ELSE e.state]
  <2>5. /\ f \in CallRecord /\ f.req = e.req /\ f.scope = e.scope
        /\ f.state = (IF e.state = "Queued" THEN "Expired" ELSE e.state)
    BY DEF CallRecord, Terminal
  <2>6. doc' = [d EXCEPT ![i] = f] BY <2>1, <2>2, <2>4
  <2> HIDE DEF f
  <2>7. doc' \in [Ids -> CallRecord \cup {None}] BY <2>1, <2>5, <2>6
  <2>8. Follows(doc[i], doc'[i]) BY <2>1, <2>3, <2>4, <2>5, <2>6 DEF Follows
  <2>9. \A j \in Ids : Follows(doc[j], doc'[j]) BY <2>1, <2>6, <2>8
  <2> QED BY <1>0, <1>1, <2>7, <2>9, CallStep
<1>4. CASE ReconcileChildren(i)
  <2>1. ASSUME NEW k \in Ids PROVE doc'[k] \in CallRecord \cup {None} /\ Follows(doc[k], doc'[k])
    <3>1. CASE doc'[k] = doc[k] BY <1>0, <3>1, FollowsSelf
    <3>2. CASE /\ k \in Children(doc, i) /\ doc[k].state = "Running"
               /\ doc'[k] = [Cancelled(doc[k]) EXCEPT !.state = "Uncertain"]
      <4>1. PICK c \in CallRecord : c = doc[k] /\ c # None BY <1>0, <3>2 DEF Children, Live
      <4>2. Cancelled(c) \in CallRecord /\ Cancelled(c).req = c.req /\ Cancelled(c).scope = c.scope BY CancelledRecord
      <4>3. /\ doc'[k] \in CallRecord /\ doc'[k].req = c.req /\ doc'[k].scope = c.scope
            /\ doc'[k].state = "Uncertain"
        BY <3>2, <4>1, <4>2 DEF CallRecord
      <4> QED BY <3>2, <4>1, <4>3 DEF Follows
    <3> QED BY <1>4, <3>1, <3>2 DEF ReconcileChildren
  <2>2. doc' = [k \in Ids |-> doc'[k]] BY <1>4 DEF ReconcileChildren
  <2> QED BY <1>0, <1>1, <2>1, <2>2, CallStep
<1> QED BY <1>2, <1>3, <1>4

-----------------------------------------------------------------------------
(* The reservation's end *)

\* A step on a demand that takes nothing back, while calls only end.
LEMMA DemandStep ==
    ASSUME ScopeInv, NEW r \in Reservations, NEW e \in DemandRecord, dem' = [dem EXCEPT ![r] = e],
           dem[r].released => e.released, e.closed => e.released,
           issued' = issued, sub' = sub, maint' = maint, scope' = scope,
           doc' \in [Ids -> CallRecord \cup {None}],
           \A i \in Ids : Follows(doc[i], doc'[i])
    PROVE  ScopeInv'
<1>0. dem \in [Reservations -> DemandRecord] BY DEF ScopeInv, DocOK
<1>1. Issued' /\ Family' /\ ParentSettled' BY FollowsKeeps DEF ScopeInv
<1>2. dem' \in [Reservations -> DemandRecord] BY <1>0
<1>3. \A x \in Reservations : (dem[x].released => dem'[x].released) /\ (dem'[x].closed => dem'[x].released)
  BY <1>0 DEF ScopeInv, Shut
<1>4. MaintOK' BY <1>3, PlansKept DEF ScopeInv, Follows
<1>5. DocOK' BY <1>2 DEF ScopeInv, DocOK
<1>6. Shut' BY <1>3 DEF Shut
<1> QED BY <1>1, <1>4, <1>5, <1>6 DEF ScopeInv

\* Closing, retiring, quarantining and recovering a reservation.
LEMMA DemandHolds ==
    ASSUME ScopeInv, NEW r \in Reservations,
           (\E x \in BOOLEAN : Close(r, x)) \/ Retire(r) \/ Quarantine(r) \/ RecoveryPrepare(r) \/ RecoveryFinish(r)
    PROVE  ScopeInv'
<1>0. /\ DocOK /\ doc \in [Ids -> CallRecord \cup {None}]
      /\ dem \in [Reservations -> DemandRecord] /\ (dem[r].closed => dem[r].released)
  BY DEF ScopeInv, DocOK, Shut
<1>1. UNCHANGED <<issued, sub, maint, scope>>
  BY DEF Close, Retire, Quarantine, RecoveryPrepare, RecoveryFinish, ghosts
<1>2. doc' \in [Ids -> CallRecord \cup {None}] /\ \A i \in Ids : Follows(doc[i], doc'[i])
  <2>1. ASSUME NEW x \in BOOLEAN, Close(r, x) PROVE doc' \in [Ids -> CallRecord \cup {None}] /\ \A i \in Ids : Follows(doc[i], doc'[i])
    <3> DEFINE d == [i \in Ids |->
                 IF i \in CallsOf(doc, r) /\ ~dem[r].proven /\ (x \/ doc[i].state = "Queued")
                 THEN Cancelled(doc[i]) ELSE doc[i]]
    <3>1. \A i \in Ids : d[i] = doc[i] \/ (doc[i] # None /\ d[i] = Cancelled(doc[i])) BY DEF CallsOf, Live
    <3>2. doc' = CancelClosed(d) BY <2>1 DEF Close
    <3>3. d = [i \in Ids |-> d[i]] OBVIOUS
    <3> HIDE DEF d
    <3>4. d \in [Ids -> CallRecord \cup {None}] /\ \A i \in Ids : Follows(doc[i], d[i]) BY <1>0, <3>1, <3>3, FollowsSelf
    <3>5. doc' \in [Ids -> CallRecord \cup {None}] /\ \A i \in Ids : Follows(d[i], doc'[i])
      BY <1>0, <3>2, <3>4, CancelClosedFollows
    <3>6. \A i \in Ids : Follows(doc[i], doc'[i]) BY <3>4, <3>5 DEF Follows
    <3> QED BY <3>5, <3>6
  <2>2. CASE Retire(r) \/ RecoveryFinish(r) BY <1>0, <2>2, FollowsSelf DEF Retire, RecoveryFinish
  <2>3. CASE Quarantine(r) BY <1>0, <2>3, CancelClosedFollows DEF Quarantine
  <2>4. CASE RecoveryPrepare(r)
    <3>1. \A i \in Ids : doc'[i] = doc[i] \/ (doc[i] # None /\ doc'[i] = Cancelled(doc[i]))
      BY <2>4 DEF RecoveryPrepare, CallsOf, Live
    <3>2. doc' = [i \in Ids |-> doc'[i]] BY <2>4 DEF RecoveryPrepare
    <3> QED BY <1>0, <3>1, <3>2, FollowsSelf
  <2> QED BY <2>1, <2>2, <2>3, <2>4
<1>3. PICK d \in DemandRecord : d = dem[r] BY <1>0
<1>4. \E e \in DemandRecord :
         dem' = [dem EXCEPT ![r] = e] /\ (d.released => e.released) /\ (e.closed => e.released)
  <2> DEFINE E == {[d EXCEPT !.closed = TRUE, !.released = TRUE, !.state = IF d.state = "Ready" THEN "Releasing" ELSE d.state],
                   [d EXCEPT !.state = "Retired"], [d EXCEPT !.state = "RecoveryRequired"], [d EXCEPT !.released = TRUE],
                   [d EXCEPT !.state = "Retired", !.proven = TRUE]}
  <2>1. ASSUME NEW e \in E PROVE e \in DemandRecord /\ (d.released => e.released) /\ (e.closed => e.released)
    BY <1>0, <1>3 DEF DemandRecord
  <2>2. ASSUME NEW x \in BOOLEAN, Close(r, x)
        PROVE  dem' = [dem EXCEPT ![r] = [d EXCEPT !.closed = TRUE, !.released = TRUE,
                                                   !.state = IF d.state = "Ready" THEN "Releasing" ELSE d.state]]
    BY <1>0, <1>3, <2>2 DEF Close, DemandRecord
  <2>3. Retire(r) => dem' = [dem EXCEPT ![r] = [d EXCEPT !.state = "Retired"]] BY <1>0, <1>3 DEF Retire
  <2>4. Quarantine(r) => dem' = [dem EXCEPT ![r] = [d EXCEPT !.state = "RecoveryRequired"]] BY <1>0, <1>3 DEF Quarantine
  <2>5. RecoveryPrepare(r) => dem' = [dem EXCEPT ![r] = [d EXCEPT !.released = TRUE]] BY <1>0, <1>3 DEF RecoveryPrepare
  <2>6. RecoveryFinish(r) => dem' = [dem EXCEPT ![r] = [d EXCEPT !.state = "Retired", !.proven = TRUE]]
    BY <1>0, <1>3 DEF RecoveryFinish, DemandRecord
  <2>7. \E e \in E : dem' = [dem EXCEPT ![r] = e] BY <2>2, <2>3, <2>4, <2>5, <2>6
  <2> HIDE DEF E
  <2> QED BY <2>1, <2>7
<1> QED BY <1>1, <1>2, <1>3, <1>4, DemandStep

-----------------------------------------------------------------------------
(* Submission *)

\* A thread that submits has a request; nothing is written yet.
LEMMA SubmitHolds ==
    ASSUME ScopeInv, NEW t \in Threads, SubmitLookup(t) \/ \E q \in Request : SubmitRead(t, q) \/ GatewaySubmit(t, q)
    PROVE  ScopeInv'
<1>0. sub \in [Threads -> [pc : {"idle", "lookup", "accept"}, req : Request \cup {None}]] BY DEF ScopeInv, DocOK
<1>1. UNCHANGED <<dem, doc, scope, issued, maint>> BY DEF SubmitLookup, SubmitRead, GatewaySubmit, ghosts
<1>2. ASSUME NEW x \in Threads, sub'[x].pc # "idle" PROVE sub'[x].req \in Request
  <2>1. CASE x # t
    <3>1. sub'[x] = sub[x] BY <1>0, <2>1 DEF SubmitLookup, SubmitRead, GatewaySubmit, Ended
    <3> QED BY <1>2, <3>1 DEF ScopeInv, DocOK
  <2>2. CASE x = t
    <3>1. CASE SubmitLookup(t)
      <4>1. sub'[t].pc # "idle" => sub' = [sub EXCEPT ![t].pc = "accept"] BY <1>0, <3>1 DEF SubmitLookup, Ended
      <4>2. sub'[t].req = sub[t].req BY <1>0, <1>2, <2>2, <4>1
      <4>3. sub[t].req \in Request BY <3>1 DEF SubmitLookup, ScopeInv, DocOK
      <4> QED BY <2>2, <4>2, <4>3
    <3>2. ASSUME NEW q \in Request, SubmitRead(t, q) \/ GatewaySubmit(t, q) PROVE sub'[t].req \in Request
      BY <1>0, <3>2 DEF SubmitRead, GatewaySubmit
    <3> QED BY <2>2, <3>1, <3>2
  <2> QED BY <2>1, <2>2
<1>3. sub' \in [Threads -> [pc : {"idle", "lookup", "accept"}, req : Request \cup {None}]]
  BY <1>0 DEF SubmitLookup, SubmitRead, GatewaySubmit, Ended
<1>4. DocOK' BY <1>1, <1>2, <1>3 DEF ScopeInv, DocOK
<1>5. MaintOK' BY <1>1, PlansKept DEF ScopeInv, Live
<1> QED BY <1>1, <1>4, <1>5 DEF ScopeInv, Issued, Family, Shut, ParentSettled, Live

\* A call nested in a workspace is accepted while the workspace runs, and into
\* its reservation.
LEMMA AcceptHolds == ASSUME ScopeInv, NEW t \in Threads, Accept(t) PROVE ScopeInv'
<1>0. /\ doc \in [Ids -> CallRecord \cup {None}] /\ issued \in [Ids -> Request \cup {None}]
      /\ dem \in [Reservations -> DemandRecord]
      /\ sub \in [Threads -> [pc : {"idle", "lookup", "accept"}, req : Request \cup {None}]]
      /\ Issued /\ Family /\ ParentSettled /\ Shut /\ MaintOK
  BY DEF ScopeInv, DocOK
<1>q. PICK q \in Request : q = sub[t].req BY DEF Accept, ScopeInv, DocOK
<1>1. /\ sub' \in [Threads -> [pc : {"idle", "lookup", "accept"}, req : Request \cup {None}]]
      /\ \A x \in Threads : sub'[x].pc # "idle" => sub'[x].req \in Request
  BY <1>0 DEF Accept, Ended, ScopeInv, DocOK
<1>2. UNCHANGED <<scope, maint>> BY DEF Accept
<1>3. CASE UNCHANGED <<dem, doc, issued>>
  <2>1. DocOK' BY <1>1, <1>2, <1>3 DEF ScopeInv, DocOK
  <2>2. MaintOK' BY <1>2, <1>3, PlansKept DEF ScopeInv, Live
  <2> QED BY <1>2, <1>3, <2>1, <2>2 DEF ScopeInv, Issued, Family, Shut, ParentSettled, Live
<1>4. ASSUME NEW p \in ScopesOf(q), NEW i \in Fresh, NEW c,
             c = [req |-> q, scope |-> p, cancel |-> FALSE, slots |-> {"request"}, state |-> "Queued", cause |-> None],
             ActiveDemand(ResOf[q]), dem' = [dem EXCEPT ![ResOf[q]].accepted = TRUE],
             doc' = [doc EXCEPT ![i] = c], issued' = [issued EXCEPT ![i] = q]
      PROVE  ScopeInv'
  <2>1. i \in Ids /\ issued[i] = None /\ doc[i] = None
    <3>1. i \in Ids /\ issued[i] = None BY DEF Fresh
    <3>2. doc[i] # None => issued[i] \in Request BY <1>0, <3>1 DEF Issued, Live, CallRecord
    <3> QED BY <3>1, <3>2, HistoryAssumption
  <2>2. \/ p = None
        \/ p \in Live(doc) /\ scope[p] # "none" /\ issued[p] \in Workspaces /\ ResOf[issued[p]] = ResOf[q]
    BY <1>0, HistoryAssumption DEF ScopesOf, Issued
  <2>3. p \in Ids \cup {None} /\ c \in CallRecord BY <1>4, <2>2 DEF Live, CallRecord, Slots
  <2>4. /\ doc'[i] = c /\ issued'[i] = q
        /\ \A j \in Ids \ {i} : doc'[j] = doc[j] /\ issued'[j] = issued[j]
    BY <1>0, <1>4, <2>1
  <2>5. \A j \in Live(doc') \ {i} : j \in Live(doc) /\ doc'[j] = doc[j] BY <2>4 DEF Live
  <2>6. Issued' BY <1>0, <1>4, <2>4, <2>5 DEF Issued, Live
  <2>7. ASSUME NEW j \in Live(doc'), doc'[j].scope # None
        PROVE  /\ scope'[doc'[j].scope] # "none" /\ issued'[doc'[j].scope] \in Workspaces
               /\ ResOf[issued'[doc'[j].scope]] = ResOf[doc'[j].req]
    <3>1. CASE j = i
      <4>1. p # i BY <2>1, <2>2, HistoryAssumption DEF Live
      <4> QED BY <1>2, <1>4, <2>2, <2>4, <2>7, <3>1, <4>1 DEF Live
    <3>2. CASE j # i
      <4>1. j \in Live(doc) /\ doc'[j] = doc[j] BY <2>5, <3>2
      <4>2. PICK r \in CallRecord : r = doc[j] BY <1>0, <4>1 DEF Live
      <4>3. r.scope \in Ids BY <2>7, <4>1, <4>2 DEF CallRecord
      <4>4. scope[r.scope] # "none" /\ issued[r.scope] \in Workspaces /\ ResOf[issued[r.scope]] = ResOf[r.req]
        BY <1>0, <2>7, <4>1, <4>2 DEF Family
      <4>5. r.scope # i BY <2>1, <4>4, HistoryAssumption
      <4> QED BY <1>2, <2>4, <4>1, <4>2, <4>3, <4>4, <4>5
    <3> QED BY <3>1, <3>2
  <2>8. Family' BY <2>7 DEF Family
  <2>9. ASSUME NEW x \in Live(doc'), NEW y \in Live(doc'), doc'[y].scope = x, doc'[x].state \in {"Completed", "Failed"}
        PROVE  doc'[y].state \notin {"Running", "Uncertain"}
    <3>1. x # i BY <1>4, <2>4, <2>9
    <3>2. CASE y = i BY <1>4, <2>4, <3>2
    <3>3. CASE y # i BY <1>0, <2>5, <2>9, <3>1, <3>3 DEF ParentSettled
    <3> QED BY <3>2, <3>3
  <2>10. ParentSettled' BY <2>9 DEF ParentSettled, Live
  <2>11. /\ dem' \in [Reservations -> DemandRecord]
         /\ \A r \in Reservations : dem'[r].released = dem[r].released /\ dem'[r].closed = dem[r].closed
    <3>1. ResOf[q] \in Reservations BY HistoryAssumption
    <3>2. PICK e \in DemandRecord : e = dem[ResOf[q]] BY <1>0, <3>1
    <3>3. dem' = [dem EXCEPT ![ResOf[q]] = [e EXCEPT !.accepted = TRUE]] BY <1>0, <1>4, <3>1, <3>2
    <3>4. /\ [e EXCEPT !.accepted = TRUE] \in DemandRecord
          /\ [e EXCEPT !.accepted = TRUE].released = e.released
          /\ [e EXCEPT !.accepted = TRUE].closed = e.closed
      BY DEF DemandRecord
    <3> QED BY <1>0, <3>1, <3>2, <3>3, <3>4
  <2>12. ASSUME NEW m \in Maintainers PROVE Planned(m)'
    <3> SUFFICES ASSUME maint[m].pc \in {"prepare", "check", "publish", "commit"}, maint[m].plan.kind = "group"
                 PROVE  /\ maint[m].plan.res \in Reservations /\ dem'[maint[m].plan.res].released
                        /\ CallsOf(doc', maint[m].plan.res) \subseteq DOMAIN maint[m].plan.recs
      BY <1>2 DEF Planned, CallsOf, Live
    <3>1. /\ maint[m].plan.res \in Reservations /\ dem[maint[m].plan.res].released
          /\ CallsOf(doc, maint[m].plan.res) \subseteq DOMAIN maint[m].plan.recs
      BY <1>0 DEF MaintOK, Planned
    <3>2. ResOf[q] # maint[m].plan.res BY <1>4, <3>1 DEF ActiveDemand
    <3>3. CallsOf(doc', maint[m].plan.res) \subseteq CallsOf(doc, maint[m].plan.res)
      <4> SUFFICES ASSUME NEW j \in CallsOf(doc', maint[m].plan.res)
                   PROVE  j \in CallsOf(doc, maint[m].plan.res)
        OBVIOUS
      <4>1. j \in Ids /\ doc'[j] # None /\ ResOf[doc'[j].req] = maint[m].plan.res BY DEF CallsOf, Live
      <4>2. c.req = q BY <1>4
      <4>3. j # i BY <2>4, <3>2, <4>1, <4>2
      <4>4. doc'[j] = doc[j] BY <2>4, <4>1, <4>3
      <4> QED BY <4>1, <4>4 DEF CallsOf, Live
    <3> QED BY <2>11, <3>1, <3>3
  <2>13. MaintOK' BY <1>0, <1>2, <2>12 DEF MaintOK
  <2>14. DocOK'
    <3>1. doc' \in [Ids -> CallRecord \cup {None}] /\ issued' \in [Ids -> Request \cup {None}]
      BY <1>0, <1>4, <2>3
    <3> QED BY <1>1, <1>2, <2>11, <3>1 DEF ScopeInv, DocOK
  <2>15. Shut' BY <1>0, <2>11 DEF Shut
  <2> QED BY <2>6, <2>8, <2>10, <2>13, <2>14, <2>15 DEF ScopeInv
<1>5. UNCHANGED <<dem, doc, issued>> \/ \E p \in ScopesOf(q), i \in Fresh :
         /\ ActiveDemand(ResOf[q]) /\ dem' = [dem EXCEPT ![ResOf[q]].accepted = TRUE]
         /\ doc' = [doc EXCEPT ![i] = [req |-> q, scope |-> p, cancel |-> FALSE, slots |-> {"request"},
                                      state |-> "Queued", cause |-> None]]
         /\ issued' = [issued EXCEPT ![i] = q]
  <2>1. CASE UNCHANGED <<dem, doc, issued>> BY <2>1
  <2>2. CASE ~UNCHANGED <<dem, doc, issued>>
    <3>1. PICK p \in ScopesOf(q), i \in Fresh :
              LET c == [req |-> q, scope |-> p, cancel |-> FALSE, slots |-> {"request"},
                        state |-> "Queued", cause |-> None]
              IN /\ ActiveDemand(ResOf[q]) /\ dem' = [dem EXCEPT ![ResOf[q]].accepted = TRUE]
                 /\ doc' = [doc EXCEPT ![i] = c] /\ issued' = [issued EXCEPT ![i] = q]
      BY <1>q, <2>2 DEF Accept
    <3> QED BY <3>1
  <2> QED BY <2>1, <2>2
<1> QED BY <1>3, <1>4, <1>5

-----------------------------------------------------------------------------
(* Maintenance *)

\* A step that only writes what a maintainer remembers.
LEMMA MaintStep ==
    ASSUME ScopeInv, NEW m \in Maintainers, NEW o, DOMAIN o = {"pc", "plan", "staged"},
           maint' = [maint EXCEPT ![m] = o],
           UNCHANGED <<dem, doc, scope, issued, sub>>,
           o.pc \in {"prepare", "check", "publish", "commit"} /\ o.plan.kind = "group" =>
               /\ o.plan.res \in Reservations /\ dem[o.plan.res].released
               /\ CallsOf(doc, o.plan.res) \subseteq DOMAIN o.plan.recs
    PROVE  ScopeInv'
<1>0. DOMAIN maint = Maintainers BY DEF ScopeInv, MaintOK
<1>1. ASSUME NEW x \in Maintainers
      PROVE  DOMAIN maint'[x] = {"pc", "plan", "staged"} /\ Planned(x)'
  <2>1. CASE x = m
    <3>1. maint'[x] = o BY <1>0, <2>1
    <3> QED BY <3>1 DEF Planned, CallsOf, Live
  <2>2. CASE x # m
    <3>1. maint'[x] = maint[x] BY <1>0, <2>2
    <3> QED BY <3>1 DEF ScopeInv, MaintOK, Planned, CallsOf, Live
  <2> QED BY <2>1, <2>2
<1>2. MaintOK' BY <1>0, <1>1 DEF MaintOK
<1> QED BY <1>2 DEF ScopeInv, DocOK, Issued, Family, Shut, ParentSettled, Live

\* A maintainer that keeps its plan, or gives it up.
LEMMA KeptPlanStep ==
    ASSUME ScopeInv, NEW m \in Maintainers, NEW o,
           \/ o = Idle
           \/ /\ DOMAIN o = {"pc", "plan", "staged"} /\ o.plan = maint[m].plan
              /\ o.pc = "expire" \/ maint[m].pc \in {"prepare", "check", "publish", "commit"},
           maint' = [maint EXCEPT ![m] = o],
           UNCHANGED <<dem, doc, scope, issued, sub>>
    PROVE  ScopeInv'
<1>1. Planned(m) BY DEF ScopeInv, MaintOK
<1>2. CASE o = Idle
  <2>1. DOMAIN o = {"pc", "plan", "staged"} /\ o.pc = "idle" BY <1>2 DEF Idle
  <2> QED BY <2>1, MaintStep
<1>3. CASE o # Idle BY <1>1, <1>3, MaintStep DEF Planned
<1> QED BY <1>2, <1>3

\* A group is planned when it is closed, and then whole.
LEMMA PlanHolds == ASSUME ScopeInv, NEW m \in Maintainers, PlanMaintenance(m) PROVE ScopeInv'
<1>0. DOMAIN maint = Maintainers /\ DOMAIN maint[m] = {"pc", "plan", "staged"} BY DEF ScopeInv, MaintOK
<1>1. UNCHANGED <<dem, doc, scope, issued, sub>> BY DEF PlanMaintenance, ghosts
<1>2. ASSUME NEW plan, maint' = [maint EXCEPT ![m] = [@ EXCEPT !.pc = "prepare", !.plan = plan]],
             plan.kind = "group" => /\ plan.res \in Reservations /\ dem[plan.res].released
                                    /\ CallsOf(doc, plan.res) \subseteq DOMAIN plan.recs
      PROVE  ScopeInv'
  <2> DEFINE o == [maint[m] EXCEPT !.pc = "prepare", !.plan = plan]
  <2>1. maint' = [maint EXCEPT ![m] = o] BY <1>0, <1>2
  <2>2. DOMAIN o = {"pc", "plan", "staged"} /\ o.pc = "prepare" /\ o.plan = plan BY <1>0
  <2> HIDE DEF o
  <2> QED BY <1>1, <1>2, <2>1, <2>2, MaintStep
<1>3. ASSUME NEW r \in Reservations, GroupEligible(r),
             maint' = [maint EXCEPT ![m] = [@ EXCEPT !.pc = "prepare", !.plan = Plan("group", r, CallsOf(doc, r))]]
      PROVE  ScopeInv'
  <2> DEFINE plan == Plan("group", r, CallsOf(doc, r))
  <2>1. plan.res = r /\ DOMAIN plan.recs = CallsOf(doc, r) BY DEF Plan
  <2>2. dem[r].released BY <1>3 DEF GroupEligible, ScopeInv, Shut
  <2> HIDE DEF plan
  <2>3. maint' = [maint EXCEPT ![m] = [@ EXCEPT !.pc = "prepare", !.plan = plan]] BY <1>3 DEF plan
  <2> QED BY <1>2, <2>1, <2>2, <2>3
<1>4. ASSUME NEW kind \in {"call", "expire"}, NEW r, NEW ids,
             maint' = [maint EXCEPT ![m] = [@ EXCEPT !.pc = "prepare", !.plan = Plan(kind, r, ids)]]
      PROVE  ScopeInv'
  <2> DEFINE plan == Plan(kind, r, ids)
  <2>1. plan.kind # "group" BY DEF Plan
  <2> HIDE DEF plan
  <2>2. maint' = [maint EXCEPT ![m] = [@ EXCEPT !.pc = "prepare", !.plan = plan]] BY <1>4 DEF plan
  <2> QED BY <1>2, <2>1, <2>2
<1> QED BY <1>3, <1>4 DEF PlanMaintenance

\* What is staged, published or removed from the files does not touch the document.
LEMMA FilesHold ==
    ASSUME ScopeInv, NEW m \in Maintainers,
           PrepareMaintenance(m) \/ CheckMaintenance(m) \/ Publish(m) \/ ExpireStep(m)
    PROVE  ScopeInv'
<1>0. DOMAIN maint = Maintainers /\ DOMAIN maint[m] = {"pc", "plan", "staged"} BY DEF ScopeInv, MaintOK
<1>1. UNCHANGED <<dem, doc, scope, issued, sub>>
  BY DEF PrepareMaintenance, CheckMaintenance, Publish, ExpireStep, ghosts, history
<1>2. ASSUME NEW o, maint' = [maint EXCEPT ![m] = o],
             \/ o = Idle
             \/ /\ DOMAIN o = {"pc", "plan", "staged"} /\ o.plan = maint[m].plan
                /\ o.pc = "expire" \/ maint[m].pc \in {"prepare", "check", "publish", "commit"}
      PROVE  ScopeInv'
  BY <1>1, <1>2, KeptPlanStep
<1>3. CASE PrepareMaintenance(m)
  <2>1. CASE maint[m].plan.kind = "expire"
    <3> DEFINE o == [maint[m] EXCEPT !.pc = "expire", !.staged = Removals]
    <3>1. maint' = [maint EXCEPT ![m] = o] BY <1>0, <1>3, <2>1 DEF PrepareMaintenance
    <3>2. DOMAIN o = {"pc", "plan", "staged"} /\ o.pc = "expire" /\ o.plan = maint[m].plan BY <1>0
    <3> HIDE DEF o
    <3> QED BY <1>2, <3>1, <3>2
  <2>2. CASE maint[m].plan.kind # "expire"
    <3> DEFINE o == [maint[m] EXCEPT !.pc = "check", !.staged = Staged(maint[m].plan)]
    <3>1. maint' = [maint EXCEPT ![m] = o] BY <1>0, <1>3, <2>2 DEF PrepareMaintenance
    <3>2. DOMAIN o = {"pc", "plan", "staged"} /\ o.plan = maint[m].plan BY <1>0
    <3>3. maint[m].pc = "prepare" BY <1>3 DEF PrepareMaintenance
    <3> HIDE DEF o
    <3> QED BY <1>2, <3>1, <3>2, <3>3
  <2> QED BY <2>1, <2>2
<1>4. CASE CheckMaintenance(m)
  <2>1. CASE PreparedEligible(maint[m].plan)
    <3> DEFINE o == [maint[m] EXCEPT !.pc = "publish"]
    <3>1. maint' = [maint EXCEPT ![m] = o] BY <1>0, <1>4, <2>1 DEF CheckMaintenance
    <3>2. DOMAIN o = {"pc", "plan", "staged"} /\ o.plan = maint[m].plan BY <1>0
    <3>3. maint[m].pc = "check" BY <1>4 DEF CheckMaintenance
    <3> HIDE DEF o
    <3> QED BY <1>2, <3>1, <3>2, <3>3
  <2>2. CASE ~PreparedEligible(maint[m].plan)
    <3>1. maint' = [maint EXCEPT ![m] = Idle] BY <1>0, <1>4, <2>2 DEF CheckMaintenance
    <3> QED BY <1>2, <3>1
  <2> QED BY <2>1, <2>2
<1>5. CASE Publish(m)
  <2>1. maint[m].pc = "publish" BY <1>5 DEF Publish
  <2>2. PICK a : IF Publishable(maint[m].staged[a])
                 THEN maint' = [maint EXCEPT ![m].staged = Without(@, a),
                                             ![m].pc = IF DOMAIN maint[m].staged = {a} THEN "commit" ELSE @]
                 ELSE maint' = [maint EXCEPT ![m] = Idle]
    BY <1>5 DEF Publish
  <2> DEFINE pc == IF DOMAIN maint[m].staged = {a} THEN "commit" ELSE maint[m].pc
             o == [maint[m] EXCEPT !.staged = Without(maint[m].staged, a), !.pc = pc]
  <2>3. maint' = [maint EXCEPT ![m] = o] \/ maint' = [maint EXCEPT ![m] = Idle] BY <1>0, <2>2
  <2>4. DOMAIN o = {"pc", "plan", "staged"} /\ o.plan = maint[m].plan BY <1>0
  <2> HIDE DEF o, pc
  <2> QED BY <1>2, <2>1, <2>3, <2>4
<1>6. CASE ExpireStep(m)
  <2>1. maint[m].pc = "expire" BY <1>6 DEF ExpireStep
  <2>2. CASE maint' = [maint EXCEPT ![m] = Idle] BY <1>2, <2>2
  <2>3. CASE maint' # [maint EXCEPT ![m] = Idle]
    <3>1. PICK a : maint' = [maint EXCEPT ![m].staged = Without(@, a)] BY <1>6, <2>3 DEF ExpireStep
    <3> DEFINE o == [maint[m] EXCEPT !.staged = Without(maint[m].staged, a)]
    <3>2. maint' = [maint EXCEPT ![m] = o] BY <1>0, <3>1
    <3>3. DOMAIN o = {"pc", "plan", "staged"} /\ o.plan = maint[m].plan /\ o.pc = maint[m].pc BY <1>0
    <3> HIDE DEF o
    <3> QED BY <1>2, <2>1, <3>2, <3>3
  <2> QED BY <2>2, <2>3
<1> QED BY <1>3, <1>4, <1>5, <1>6

\* The records of a plan leave the document; a scope is forgotten only with its
\* reservation, whose calls the plan names.
LEMMA CommitHolds == ASSUME ScopeInv, NEW m \in Maintainers, CommitMaintenance(m) PROVE ScopeInv'
<1> DEFINE p == maint[m].plan
<1>0. /\ DocOK /\ Issued /\ Family /\ ParentSettled /\ Shut /\ MaintOK /\ Planned(m)
      /\ doc \in [Ids -> CallRecord \cup {None}] /\ scope \in [Ids -> {"none", "open", "late", "closed"}]
      /\ dem \in [Reservations -> DemandRecord] /\ DOMAIN maint = Maintainers
  BY DEF ScopeInv, DocOK, MaintOK
<1>1. /\ maint' = [maint EXCEPT ![m] = Idle] /\ UNCHANGED <<issued, sub>> /\ maint[m].pc = "commit"
  BY DEF CommitMaintenance, ghosts
<1>2. \A i \in Ids : doc'[i] \in {None, doc[i]} BY DEF CommitMaintenance
<1>3. doc' \in [Ids -> CallRecord \cup {None}]
  <2>1. doc' = [i \in Ids |-> doc'[i]] BY <1>0 DEF CommitMaintenance
  <2> QED BY <1>0, <1>2, <2>1
<1>4. /\ dem' \in [Reservations -> DemandRecord] /\ scope' \in [Ids -> {"none", "open", "late", "closed"}]
      /\ \A r \in Reservations : dem'[r].released = dem[r].released /\ dem'[r].closed = dem[r].closed
      /\ \A x \in Ids : (\E c \in Live(doc') : doc'[c].scope = x) /\ scope[x] # "none" => scope'[x] # "none"
  <2>1. CASE PreparedEligible(p) /\ p.kind = "group"
    <3>1. /\ doc' = [i \in Ids |-> IF i \in DOMAIN p.recs THEN None ELSE doc[i]]
          /\ dem' = [dem EXCEPT ![p.res].state = "Gone"]
          /\ scope' = [i \in Ids |-> IF issued[i] # None /\ ResOf[issued[i]] = p.res THEN "none" ELSE scope[i]]
      BY <2>1 DEF CommitMaintenance
    <3>2. p.res \in Reservations /\ CallsOf(doc, p.res) \subseteq DOMAIN p.recs BY <1>0, <1>1, <2>1 DEF Planned
    <3> HIDE DEF p
    <3>3. scope' \in [Ids -> {"none", "open", "late", "closed"}] BY <1>0, <3>1
    <3>4. ASSUME NEW x \in Ids, NEW c \in Live(doc'), doc'[c].scope = x, scope[x] # "none" PROVE scope'[x] # "none"
      <4>1. c \in Live(doc) /\ doc'[c] = doc[c] BY <1>2 DEF Live
      <4>2. x # None BY HistoryAssumption
      <4>3. ResOf[issued[x]] = ResOf[doc[c].req] BY <1>0, <3>4, <4>1, <4>2 DEF Family
      <4>4. ResOf[doc[c].req] # p.res
        <5>1. c \notin DOMAIN p.recs BY <3>1 DEF Live
        <5> QED BY <3>2, <4>1, <5>1 DEF CallsOf
      <4> QED BY <3>1, <3>4, <4>3, <4>4
    <3>5. PICK e \in DemandRecord : e = dem[p.res] BY <1>0, <3>2
    <3>6. [e EXCEPT !.state = "Gone"] \in DemandRecord /\ [e EXCEPT !.state = "Gone"].released = e.released
          /\ [e EXCEPT !.state = "Gone"].closed = e.closed
      BY DEF DemandRecord
    <3>7. /\ dem' \in [Reservations -> DemandRecord]
          /\ \A r \in Reservations : dem'[r].released = dem[r].released /\ dem'[r].closed = dem[r].closed
      BY <1>0, <3>1, <3>2, <3>5, <3>6
    <3> QED BY <3>3, <3>4, <3>7
  <2>2. CASE ~(PreparedEligible(p) /\ p.kind = "group")
    <3>1. UNCHANGED <<dem, scope>> BY <2>2 DEF CommitMaintenance
    <3> QED BY <1>0, <3>1
  <2> QED BY <2>1, <2>2
<1>5. \A i \in Ids : Follows(doc[i], doc'[i]) BY <1>0, <1>2, FollowsSelf DEF Follows
<1>6. Issued' /\ Family' /\ ParentSettled' BY <1>0, <1>1, <1>3, <1>4, <1>5, FollowsKeeps
<1>7. MaintOK'
  <2>1. \A r : CallsOf(doc, r)' \subseteq CallsOf(doc, r) BY <1>2 DEF CallsOf, Live
  <2>2. ASSUME NEW x \in Maintainers PROVE DOMAIN maint'[x] = {"pc", "plan", "staged"} /\ Planned(x)'
    <3>1. CASE x = m
      <4>1. maint'[x] = Idle BY <1>0, <1>1, <3>1
      <4> QED BY <4>1 DEF Idle, Planned
    <3>2. CASE x # m
      <4>1. maint'[x] = maint[x] BY <1>0, <1>1, <3>2
      <4> QED BY <1>0, <1>4, <2>1, <4>1 DEF MaintOK, Planned
    <3> QED BY <3>1, <3>2
  <2> QED BY <1>0, <1>1, <2>2 DEF MaintOK
<1>8. DocOK' BY <1>0, <1>1, <1>3, <1>4 DEF DocOK
<1>9. Shut' BY <1>0, <1>4 DEF Shut
<1> QED BY <1>6, <1>7, <1>8, <1>9 DEF ScopeInv

\* Calls that ran when the receiver died are of unknown outcome, on both sides
\* of a family; what the threads and the maintainers remembered is lost.
LEMMA RestartHolds == ASSUME ScopeInv, Restart PROVE ScopeInv'
<1>0. DocOK /\ doc \in [Ids -> CallRecord \cup {None}] BY DEF ScopeInv, DocOK
<1>1. UNCHANGED <<dem, scope, issued>> BY DEF Restart, ghosts
<1>2. ASSUME NEW i \in Ids PROVE doc'[i] \in CallRecord \cup {None} /\ Follows(doc[i], doc'[i])
  <2>1. CASE doc[i] # None /\ doc[i].state = "Running"
    <3>1. PICK c \in CallRecord : c = doc[i] BY <1>0, <2>1
    <3>2. doc'[i] = [c EXCEPT !.state = "Uncertain", !.cause = "restart"] BY <2>1, <3>1 DEF Restart
    <3>3. /\ [c EXCEPT !.state = "Uncertain", !.cause = "restart"] \in CallRecord
          /\ doc'[i].state = "Uncertain" /\ doc'[i].req = c.req /\ doc'[i].scope = c.scope
      BY <3>2 DEF CallRecord
    <3> QED BY <2>1, <3>1, <3>2, <3>3 DEF Follows
  <2>2. CASE ~(doc[i] # None /\ doc[i].state = "Running")
    <3>1. doc'[i] = doc[i] BY <2>2 DEF Restart
    <3> QED BY <1>0, <3>1, FollowsSelf
  <2> QED BY <2>1, <2>2
<1>3. doc' \in [Ids -> CallRecord \cup {None}]
  <2>1. doc' = [i \in Ids |-> doc'[i]] BY DEF Restart
  <2> QED BY <1>2, <2>1
<1>4. Issued' /\ Family' /\ ParentSettled' BY <1>1, <1>2, <1>3, FollowsKeeps DEF ScopeInv
<1>5. MaintOK' BY DEF Restart, MaintOK, Planned, Idle
<1>6. DocOK' BY <1>0, <1>1, <1>3 DEF Restart, DocOK
<1> QED BY <1>1, <1>4, <1>5, <1>6 DEF ScopeInv, Shut

-----------------------------------------------------------------------------
(* The specification *)

\* A state that differs in what the invariant does not speak of.
LEMMA ScopeSame ==
    ASSUME ScopeInv, UNCHANGED <<dem, doc, scope, issued, sub, maint>> PROVE ScopeInv'
BY DEF ScopeInv, DocOK, Issued, Family, Shut, MaintOK, Planned, CallsOf, ParentSettled, Live

\* The document starts empty, with every reservation open.
LEMMA ScopeInit == Init => ScopeInv
<1> SUFFICES ASSUME Init PROVE ScopeInv OBVIOUS
<1>1. Live(doc) = {} BY DEF Init, Live
<1>2. DocOK BY DEF Init, DocOK, DemandRecord
<1>3. Issued /\ Family /\ ParentSettled BY <1>1 DEF Issued, Family, ParentSettled
<1>4. Shut /\ MaintOK BY DEF Init, Shut, MaintOK, Planned, Idle
<1> QED BY <1>2, <1>3, <1>4 DEF ScopeInv

\* Every step keeps it.
LEMMA ScopeNext == ScopeInv /\ [Next]_vars => ScopeInv'
<1> SUFFICES ASSUME ScopeInv, [Next]_vars PROVE ScopeInv' OBVIOUS
<1>1. CASE Client BY <1>1, SubmitHolds, AcceptHolds, EndsHold, ScopesHold, DemandHolds DEF Client
<1>2. CASE Runtime
  <2>1. CASE TickCancel
    <3>1. PICK i : i \in Ids BY HistoryAssumption DEF Ids
    <3> QED BY <2>1, <3>1, ScopesHold
  <2>2. ASSUME NEW i \in Ids, Dispatch(i) \/ DispatchExpire(i) \/ Complete(i) \/ ReconcileChildren(i) PROVE ScopeInv'
    BY <2>2, DispatchHolds, CompleteHolds, EndsHold
  <2>3. ASSUME NEW i \in Ids, PersistAnalysis(i) PROVE ScopeInv'
    BY <2>3, ScopeSame DEF PersistAnalysis, ghosts
  <2>4. ASSUME NEW r \in Reservations, Retire(r) \/ Quarantine(r) \/ RecoveryPrepare(r) \/ RecoveryFinish(r) PROVE ScopeInv'
    BY <2>4, DemandHolds
  <2> QED BY <1>2, <2>1, <2>2, <2>3, <2>4 DEF Runtime
<1>3. ASSUME NEW m \in Maintainers, Maintain(m) PROVE ScopeInv'
  BY <1>3, PlanHolds, FilesHold, CommitHolds DEF Maintain
<1>4. CASE Time
  <2>1. ASSUME NEW x, Age(x) PROVE ScopeInv' BY <2>1, ScopeSame DEF Age, ghosts
  <2> QED BY <1>4, <2>1, ScopesHold DEF Time
<1>5. CASE Restart BY <1>5, RestartHolds
<1>6. CASE UNCHANGED vars BY <1>6, ScopeSame DEF vars, ghosts
<1> QED BY <1>1, <1>2, <1>3, <1>4, <1>5, <1>6 DEF Next

\* A workspace is reported as completed only when no model call nested in it is
\* running or of unknown outcome, and none starts later: for any requests,
\* threads, maintainers and restarts (dispatch.rs, workspace_scope.rs).
THEOREM ParentSettledHolds == Spec => []ParentSettled
<1>1. ScopeInv => ParentSettled BY DEF ScopeInv
<1> QED BY <1>1, ScopeInit, ScopeNext, PTL DEF Spec

-----------------------------------------------------------------------------
(* The archive: what its files, plans and staged writes say of the calls     *)

\* A maintainer between its plan and its commit, and between staging and commit.
HasPlan(m) == maint[m].pc \in {"prepare", "check", "publish", "commit"} /\ maint[m].plan.kind # "expire"
HasStaged(m) == maint[m].pc \in {"check", "publish", "commit"}

\* A copy of the record of a call: in the archive, in a plan, or staged. Two
\* maintainers may hold one at once, and a copy may be older than the archive.
IsCopy(i, c) ==
    \/ file[CallFile(i)] # None /\ c = file[CallFile(i)].rec
    \/ \E m \in Maintainers :
         HasPlan(m) /\ i \in DOMAIN maint[m].plan.recs /\ c = maint[m].plan.recs[i]
    \/ \E m \in Maintainers, b \in {1, 3} :
         /\ HasStaged(m) /\ <<b, i, 1>> \in DOMAIN maint[m].staged
         /\ c = maint[m].staged[<<b, i, 1>>].value.rec

Alike(c, d) == c.state = d.state /\ c.slots = d.slots

\* A copy is that of a settled call: it agrees with the live record as long as
\* there is one, and the bodies it names are on disk until its retention passes.
Settled(i, c) ==
    /\ c \in CallRecord /\ issued[i] = c.req
    /\ c.state \notin {"Queued", "Running"}
    /\ c.state = "Uncertain" => dem[ResOf[c.req]].proven
    /\ i \notin old => c.slots \subseteq payload[i]
    /\ doc[i] # None => Alike(c, doc[i])

CopiesOK ==
    /\ \A i \in Ids : \A c : IsCopy(i, c) => Settled(i, c)
    /\ \A i \in Ids : \A c, d : IsCopy(i, c) /\ IsCopy(i, d) => Alike(c, d)

\* A call entered for a reservation, and one whose reservation was closed.
Entered(r, i) == issued[i] # None /\ ResOf[issued[i]] = r
Closable(i) == issued[i] # None /\ dem[ResOf[issued[i]]].closed

\* A plan names settled calls of one reservation.
PlanOK(m) == HasPlan(m) =>
    /\ maint[m].plan.kind \in {"call", "group"} /\ maint[m].plan.res \in Reservations
    /\ DOMAIN maint[m].plan.recs \subseteq Ids
    /\ \A i \in DOMAIN maint[m].plan.recs : ResOf[maint[m].plan.recs[i].req] = maint[m].plan.res
    /\ maint[m].plan.kind = "group" => dem[maint[m].plan.res].closed

\* A staged write is meant for the file of its position, and names the call it
\* is staged for; nothing is staged any more at the commit.
Placed(r, a, s) ==
    \/ /\ a = <<2, r, 1>> /\ s.file = ReservationFile(r) /\ s.value \in ReservationRecord
       /\ \A i \in s.value.calls : Entered(r, i)
    \/ \E i \in Ids, b \in {1, 3}, k \in 1 .. 3 :
        /\ a = <<b, i, k>> /\ issued[i] # None /\ k \in Parts(issued[i])
        /\ s.file = PartOf(i, issued[i], k)
        /\ k = 1 => s.value \in ArchiveRecord /\ (s.value.closed => Closable(i))
        /\ k # 1 => s.value = i
StagedOK(m) == HasStaged(m) =>
    /\ maint[m].plan.kind # "expire"
    /\ \A a \in DOMAIN maint[m].staged : Placed(maint[m].plan.res, a, maint[m].staged[a])
    /\ maint[m].pc = "commit" => DOMAIN maint[m].staged = {}

\* The clients name a work of one reservation only. (The code does not ask for
\* it: docs/reservation-work.md:104 promises that a work id is known everywhere.)
WorkPerReservation == \A p, q \in Request \ Nested : WorkOf[p] = WorkOf[q] => ResOf[p] = ResOf[q]

\* The k-th file of a call is in its place.
Stands(i, k) ==
    /\ k = 1 => file[CallFile(i)] # None
    /\ k = 2 => file[SubmissionFile(issued[i])] = i
    /\ k = 3 /\ WorkPerReservation => file[WorkFile(WorkOf[issued[i]])] = i
\* What a plan has to write is staged or stands, so that at the commit all of it
\* stands.
Written(m) == HasStaged(m) =>
    /\ \A i \in DOMAIN maint[m].plan.recs \ old : \A k \in Parts(maint[m].plan.recs[i].req) :
         <<1, i, k>> \in DOMAIN maint[m].staged \/ Stands(i, k)
    /\ \/ maint[m].plan.res \in old
       \/ <<2, maint[m].plan.res, 1>> \in DOMAIN maint[m].staged
       \/ file[ReservationFile(maint[m].plan.res)] # None

\* What expiry still has to remove has passed its retention.
Removing(m) == maint[m].pc = "expire" =>
    \A a \in DOMAIN maint[m].staged :
       \/ \E r \in Reservations \cap old : a = <<2, r, 1>> /\ maint[m].staged[a] = ReservationFile(r)
       \/ \E i \in Ids \cap old, k \in 0 .. 3 :
            /\ a = <<1, i, k>> /\ issued[i] # None
            /\ k # 0 => k \in Parts(issued[i]) /\ maint[m].staged[a] = PartOf(i, issued[i], k)

MaintInv == \A m \in Maintainers : PlanOK(m) /\ StagedOK(m) /\ Written(m) /\ Removing(m)

\* A file holds what its name says.
FilesOK ==
    /\ DOMAIN file = Files /\ payload \in [Ids -> SUBSET Slots] /\ old \subseteq Ids \cup Reservations
    /\ \A i \in Ids : file[CallFile(i)] # None =>
         file[CallFile(i)] \in ArchiveRecord /\ (file[CallFile(i)].closed => Closable(i))
    /\ \A q \in Request : file[SubmissionFile(q)] # None =>
         file[SubmissionFile(q)] \in Ids /\ issued[file[SubmissionFile(q)]] = q
    /\ \A w \in Works : file[WorkFile(w)] # None =>
         /\ file[WorkFile(w)] \in Ids /\ issued[file[WorkFile(w)]] \in Request \ Nested
         /\ WorkOf[issued[file[WorkFile(w)]]] = w
    /\ \A r \in Reservations : file[ReservationFile(r)] # None =>
         /\ file[ReservationFile(r)] \in ReservationRecord
         /\ \A i \in file[ReservationFile(r)].calls : Entered(r, i)

\* No submission, and no work, was accepted twice.
Once ==
    \A i, j \in Ids : issued[i] # None /\ issued[j] # None =>
        /\ issued[i] = issued[j] => i = j
        /\ WorkPerReservation /\ WorkOf[issued[i]] # None /\ WorkOf[issued[i]] = WorkOf[issued[j]] => i = j

\* What has passed its retention is closed and retired.
Ages ==
    /\ \A i \in Ids \cap old : doc[i] = None /\ Closable(i)
    /\ \A i \in Ids : issued[i] # None => dem[ResOf[issued[i]]].accepted
    /\ ran \subseteq {i \in Ids : issued[i] # None}
    /\ \A i \in Ids : doc[i] # None => doc[i].slots \subseteq payload[i]

\* What has left the document is in the archive, with its indexes.
Indexed ==
    /\ \A i \in Ids : issued[i] # None /\ i \notin old /\ doc[i] = None =>
         \A k \in Parts(issued[i]) : Stands(i, k)
    /\ \A r \in Reservations :
         dem[r].state = "Gone" /\ r \notin old => file[ReservationFile(r)] # None

ArchiveInv == ScopeInv /\ FilesOK /\ CopiesOK /\ MaintInv /\ Once /\ Ages /\ Indexed

-----------------------------------------------------------------------------
\* What no step takes back.
Onward ==
    /\ \A i \in Ids : issued[i] # None => issued'[i] = issued[i]
    /\ \A r \in Reservations : /\ dem[r].closed => dem'[r].closed
                               /\ dem[r].proven => dem'[r].proven
                               /\ dem[r].accepted => dem'[r].accepted
    /\ old \subseteq old'

\* A call that was accepted stays that call.
LEMMA OnwardCall ==
    ASSUME DocOK, Onward, NEW i \in Ids, issued[i] # None
    PROVE  /\ issued'[i] = issued[i] /\ issued[i] \in Request /\ ResOf[issued[i]] \in Reservations
           /\ Closable(i) => Closable(i)'
           /\ \A r : Entered(r, i) => Entered(r, i)'
           /\ Parts(issued[i])' = Parts(issued[i])
<1>1. issued[i] \in Request /\ ResOf[issued[i]] \in Reservations BY HistoryAssumption DEF DocOK
<1>2. issued'[i] = issued[i] BY DEF Onward
<1> QED BY <1>1, <1>2 DEF Onward, Closable, Entered, Parts, Nested

\* A staged write stays where it belongs.
LEMMA PlacedKept ==
    ASSUME DocOK, Onward, NEW r, NEW a, NEW s, Placed(r, a, s) PROVE Placed(r, a, s)'
<1>1. CASE /\ a = <<2, r, 1>> /\ s.file = ReservationFile(r) /\ s.value \in ReservationRecord
           /\ \A i \in s.value.calls : Entered(r, i)
  <2>1. \A i \in s.value.calls : Entered(r, i)'
    <3> SUFFICES ASSUME NEW i \in s.value.calls PROVE Entered(r, i)' OBVIOUS
    <3>1. i \in Ids BY <1>1 DEF ReservationRecord
    <3>2. Entered(r, i) BY <1>1
    <3> QED BY <3>1, <3>2, OnwardCall DEF Entered
  <2> QED BY <1>1, <2>1 DEF Placed, ReservationFile
<1>2. CASE \E i \in Ids, b \in {1, 3}, k \in 1 .. 3 :
             /\ a = <<b, i, k>> /\ issued[i] # None /\ k \in Parts(issued[i])
             /\ s.file = PartOf(i, issued[i], k)
             /\ k = 1 => s.value \in ArchiveRecord /\ (s.value.closed => Closable(i))
             /\ k # 1 => s.value = i
  <2>1. PICK i \in Ids, b \in {1, 3}, k \in 1 .. 3 :
             /\ a = <<b, i, k>> /\ issued[i] # None /\ k \in Parts(issued[i])
             /\ s.file = PartOf(i, issued[i], k)
             /\ k = 1 => s.value \in ArchiveRecord /\ (s.value.closed => Closable(i))
             /\ k # 1 => s.value = i
    BY <1>2
  <2>2. issued'[i] = issued[i] /\ (Closable(i) => Closable(i)') BY <2>1, OnwardCall
  <2> QED BY <2>1, <2>2 DEF Placed, PartOf, Parts, CallFile, SubmissionFile, WorkFile, Nested
<1> QED BY <1>1, <1>2 DEF Placed

\* A maintainer that does not move, while nothing is taken back.
LEMMA MaintKept ==
    ASSUME DocOK, Onward, NEW m \in Maintainers, maint'[m] = maint[m], PlanOK(m), StagedOK(m), Removing(m)
    PROVE  PlanOK(m)' /\ StagedOK(m)' /\ Removing(m)'
<1>1. PlanOK(m)' BY DEF PlanOK, HasPlan, Onward
<1>2. StagedOK(m)'
  <2>1. PICK r, st : r = maint[m].plan.res /\ st = maint[m].staged OBVIOUS
  <2>2. ASSUME HasStaged(m), NEW a \in DOMAIN st PROVE Placed(r, a, st[a])'
    <3>1. PICK s : s = st[a] OBVIOUS
    <3>2. Placed(r, a, s) BY <2>1, <2>2, <3>1 DEF StagedOK
    <3>3. Placed(r, a, s)' BY <3>2, PlacedKept
    <3> QED BY <3>1, <3>3
  <2>3. maint'[m].plan.res = r /\ maint'[m].staged = st BY <2>1
  <2> QED BY <2>1, <2>2, <2>3 DEF StagedOK, HasStaged, Placed
<1>3. Removing(m)'
  <2> SUFFICES ASSUME maint[m].pc = "expire", NEW a \in DOMAIN maint[m].staged
               PROVE  \/ \E r \in Reservations \cap old' : a = <<2, r, 1>> /\ maint[m].staged[a] = ReservationFile(r)
                      \/ \E i \in Ids \cap old', k \in 0 .. 3 :
                           /\ a = <<1, i, k>> /\ issued'[i] # None
                           /\ k # 0 => k \in Parts(issued'[i]) /\ maint[m].staged[a] = PartOf(i, issued'[i], k)
    BY DEF Removing, ReservationFile, PartOf, Parts, CallFile, SubmissionFile, WorkFile, Nested
  <2>1. CASE \E r \in Reservations \cap old : a = <<2, r, 1>> /\ maint[m].staged[a] = ReservationFile(r)
    BY <2>1 DEF Onward
  <2>2. CASE \E i \in Ids \cap old, k \in 0 .. 3 :
               /\ a = <<1, i, k>> /\ issued[i] # None
               /\ k # 0 => k \in Parts(issued[i]) /\ maint[m].staged[a] = PartOf(i, issued[i], k)
    BY <2>2 DEF Onward
  <2> QED BY <2>1, <2>2 DEF Removing
<1> QED BY <1>1, <1>2, <1>3

\* What stands in the archive stands until its retention has passed.
FilesStay ==
    /\ \A i \in Ids \ old' : issued[i] # None => \A k \in Parts(issued[i]) : Stands(i, k) => Stands(i, k)'
    /\ \A r \in Reservations \ old' : file[ReservationFile(r)] # None => file'[ReservationFile(r)] # None

\* What a resting maintainer has written stays written.
LEMMA WrittenKept ==
    ASSUME DocOK, Onward, FilesStay, CopiesOK, NEW m \in Maintainers, maint'[m] = maint[m], PlanOK(m), StagedOK(m), Written(m)
    PROVE  Written(m)'
<1> SUFFICES ASSUME HasStaged(m)
             PROVE  /\ \A i \in DOMAIN maint[m].plan.recs \ old' : \A k \in Parts(maint[m].plan.recs[i].req) :
                         <<1, i, k>> \in DOMAIN maint[m].staged \/ Stands(i, k)'
                    /\ \/ maint[m].plan.res \in old'
                       \/ <<2, maint[m].plan.res, 1>> \in DOMAIN maint[m].staged
                       \/ file'[ReservationFile(maint[m].plan.res)] # None
  BY DEF Written, HasStaged, Parts, ReservationFile, Nested, Stands, CallFile, SubmissionFile, WorkFile
<1>1. HasPlan(m) BY DEF StagedOK, HasStaged, HasPlan
<1>2. ASSUME NEW i \in DOMAIN maint[m].plan.recs \ old', NEW k \in Parts(maint[m].plan.recs[i].req),
             <<1, i, k>> \notin DOMAIN maint[m].staged
      PROVE  Stands(i, k)'
  <2>1. i \in Ids \ old' /\ i \notin old BY <1>1 DEF PlanOK, Onward
  <2>2. issued[i] # None /\ issued[i] = maint[m].plan.recs[i].req
    <3>1. IsCopy(i, maint[m].plan.recs[i]) BY <1>1 DEF IsCopy
    <3>2. Settled(i, maint[m].plan.recs[i]) BY <2>1, <3>1 DEF CopiesOK
    <3> QED BY <3>2, HistoryAssumption DEF Settled, CallRecord
  <2>3. Stands(i, k) BY <1>2, <2>1 DEF Written
  <2> QED BY <2>1, <2>2, <2>3 DEF FilesStay
<1>3. \/ maint[m].plan.res \in old'
      \/ <<2, maint[m].plan.res, 1>> \in DOMAIN maint[m].staged
      \/ file'[ReservationFile(maint[m].plan.res)] # None
  <2>1. maint[m].plan.res \in Reservations BY <1>1 DEF PlanOK
  <2> QED BY <2>1 DEF Written, FilesStay, Onward
<1> QED BY <1>2, <1>3

\* A call's record goes on: it is not brought back, and once settled it stays
\* what it is.
Moves(i) ==
    /\ doc'[i] # None => doc[i] # None /\ (doc[i].state \notin {"Queued", "Running"} => Alike(doc[i], doc'[i]))
    /\ i \notin old' => payload[i] \subseteq payload'[i]

\* What every step does for what was accepted, and most do for what is live.
HistoryKept ==
    /\ Onward /\ \A i \in Ids : issued[i] # None => Moves(i)
    /\ \A i \in Ids : file'[CallFile(i)] # None => IsCopy(i, file'[CallFile(i)].rec)
NoneRetired == \A i \in Ids : doc[i] # None => doc'[i] # None

\* Copies stay true to their calls when no copy is made.
LEMMA CopiesKept ==
    ASSUME DocOK, Onward, CopiesOK, \A i \in Ids : issued[i] # None => Moves(i),
           \A i \in Ids : \A c : IsCopy(i, c)' => IsCopy(i, c)
    PROVE  CopiesOK'
<1>1. ASSUME NEW i \in Ids, NEW c, IsCopy(i, c)' PROVE Settled(i, c)'
  <2>1. Settled(i, c) BY <1>1 DEF CopiesOK
  <2>2. c.req \in Request /\ issued[i] # None BY <2>1, HistoryAssumption DEF Settled, CallRecord
  <2>3. issued'[i] = c.req /\ ResOf[c.req] \in Reservations BY <2>1, <2>2, OnwardCall DEF Settled
  <2>4. Moves(i) BY <2>2
  <2>5. i \notin old' => c.slots \subseteq payload'[i] BY <2>1, <2>4 DEF Settled, Moves, Onward
  <2>6. doc'[i] # None => Alike(c, doc'[i]) BY <2>1, <2>4 DEF Settled, Moves, Alike
  <2>7. c.state = "Uncertain" => dem'[ResOf[c.req]].proven BY <2>1, <2>3 DEF Settled, Onward
  <2> QED BY <2>1, <2>3, <2>5, <2>6, <2>7 DEF Settled, Alike
<1>2. \A i \in Ids : \A c, d : IsCopy(i, c)' /\ IsCopy(i, d)' => Alike(c, d) BY DEF CopiesOK
<1> QED BY <1>1, <1>2 DEF CopiesOK, Alike

\* The files stay what their names say when none is written.
LEMMA FilesKept ==
    ASSUME DocOK, Onward, FilesOK, file' = file, payload' \in [Ids -> SUBSET Slots], old' \subseteq Ids \cup Reservations
    PROVE  FilesOK'
<1>1. \A i \in Ids : file[CallFile(i)] # None =>
         file[CallFile(i)] \in ArchiveRecord /\ (file[CallFile(i)].closed => Closable(i)')
  BY OnwardCall DEF FilesOK, Closable
<1>2. \A q \in Request : file[SubmissionFile(q)] # None =>
         file[SubmissionFile(q)] \in Ids /\ issued'[file[SubmissionFile(q)]] = q
  BY HistoryAssumption DEF FilesOK, Onward
<1>3. \A w \in Works : file[WorkFile(w)] # None =>
         /\ file[WorkFile(w)] \in Ids /\ issued'[file[WorkFile(w)]] \in Request \ Nested
         /\ WorkOf[issued'[file[WorkFile(w)]]] = w
  BY HistoryAssumption DEF FilesOK, Onward
<1>4. \A r \in Reservations : file[ReservationFile(r)] # None =>
         /\ file[ReservationFile(r)] \in ReservationRecord
         /\ \A i \in file[ReservationFile(r)].calls : Entered(r, i)'
  <2> SUFFICES ASSUME NEW r \in Reservations, file[ReservationFile(r)] # None, NEW i \in file[ReservationFile(r)].calls
               PROVE  file[ReservationFile(r)] \in ReservationRecord /\ Entered(r, i)'
    BY DEF FilesOK
  <2>1. file[ReservationFile(r)] \in ReservationRecord /\ Entered(r, i) BY DEF FilesOK
  <2>2. i \in Ids BY <2>1 DEF ReservationRecord
  <2> QED BY <2>1, <2>2, OnwardCall DEF Entered
<1> QED BY <1>1, <1>2, <1>3, <1>4 DEF FilesOK, CallFile, SubmissionFile, WorkFile, ReservationFile, Files

\* A step on the document alone.
LEMMA DocumentStep ==
    ASSUME ArchiveInv, ScopeInv', UNCHANGED <<file, old, maint, issued>>,
           payload' \in [Ids -> SUBSET Slots], ran' \subseteq ran \cup Live(doc),
           \A r \in Reservations : /\ dem[r].closed => dem'[r].closed
                                   /\ dem[r].proven => dem'[r].proven
                                   /\ dem[r].accepted => dem'[r].accepted
                                   /\ dem'[r].state = "Gone" => dem[r].state = "Gone",
           \A i \in Ids : Moves(i) /\ (doc[i] # None => doc'[i] # None),
           \A i \in Ids : doc'[i] # None => doc'[i].slots \subseteq payload'[i]
    PROVE  ArchiveInv' /\ HistoryKept /\ NoneRetired
<1>0. DocOK /\ Issued /\ FilesOK /\ CopiesOK /\ MaintInv /\ Once /\ Ages /\ Indexed
  BY DEF ArchiveInv, ScopeInv
<1>1. Onward BY DEF Onward
<1>2. \A i : \A c : IsCopy(i, c)' => IsCopy(i, c) BY DEF IsCopy, HasPlan, HasStaged, CallFile
<1>3. CopiesOK' BY <1>0, <1>1, <1>2, CopiesKept
<1>4. FilesOK'
  <2>1. old' \subseteq Ids \cup Reservations BY <1>0 DEF FilesOK
  <2> QED BY <1>0, <1>1, <2>1, FilesKept
<1>5. FilesStay BY DEF FilesStay, Stands, CallFile, SubmissionFile, WorkFile, ReservationFile
<1>6. MaintInv'
  <2>1. ASSUME NEW m \in Maintainers PROVE PlanOK(m)' /\ StagedOK(m)' /\ Written(m)' /\ Removing(m)'
    <3>1. PlanOK(m) /\ StagedOK(m) /\ Written(m) /\ Removing(m) BY <1>0 DEF MaintInv
    <3>2. maint'[m] = maint[m] OBVIOUS
    <3> QED BY <1>0, <1>1, <1>5, <3>1, <3>2, MaintKept, WrittenKept
  <2> QED BY <2>1 DEF MaintInv
<1>7. Once' BY <1>0 DEF Once
<1>8. Ages'
  <2>1. \A i \in Ids \cap old : doc'[i] = None /\ Closable(i)'
    BY <1>0, <1>1, OnwardCall DEF Ages, Moves, Closable
  <2>2. \A i \in Ids : issued[i] # None => dem'[ResOf[issued[i]]].accepted
    BY <1>0, <1>1, OnwardCall DEF Ages
  <2>3. ran' \subseteq {i \in Ids : issued[i] # None}
    <3>1. \A i \in Live(doc) : i \in Ids /\ issued[i] # None
      <4> SUFFICES ASSUME NEW i \in Live(doc) PROVE i \in Ids /\ issued[i] # None OBVIOUS
      <4>1. i \in Ids /\ doc[i] \in CallRecord /\ issued[i] = doc[i].req BY <1>0 DEF Live, Issued, DocOK
      <4> QED BY <4>1, HistoryAssumption DEF CallRecord
    <3> QED BY <1>0, <3>1 DEF Ages
  <2> QED BY <2>1, <2>2, <2>3 DEF Ages
<1>9. Indexed'
  <2>1. \A i, k : Stands(i, k) => Stands(i, k)' BY DEF Stands, CallFile, SubmissionFile, WorkFile
  <2>2. \A i \in Ids : doc'[i] = None => doc[i] = None OBVIOUS
  <2> QED BY <1>0, <2>1, <2>2 DEF Indexed, Parts, Nested, ReservationFile
<1>10. HistoryKept /\ NoneRetired BY <1>1 DEF HistoryKept, NoneRetired, IsCopy
<1> QED BY <1>3, <1>4, <1>6, <1>7, <1>8, <1>9, <1>10 DEF ArchiveInv

-----------------------------------------------------------------------------
\* What a step makes of a record whose payload it leaves alone.
Keeps(r, q) ==
    \/ q = r
    \/ /\ r # None /\ q \in CallRecord /\ q.slots = r.slots
       /\ r.state \notin {"Queued", "Running"} => q.state = r.state

\* A cancellation takes nothing from a record, and does not move a settled one.
LEMMA CancelledKeeps == ASSUME NEW c \in CallRecord PROVE Keeps(c, Cancelled(c))
BY NoneAssumption DEF Keeps, Cancelled, CallRecord, Terminal

\* Nor does the fence of a closed scope.
LEMMA CancelClosedKeeps ==
    ASSUME NEW d \in [Ids -> CallRecord \cup {None}] PROVE \A i \in Ids : Keeps(d[i], CancelClosed(d)[i])
<1> SUFFICES ASSUME NEW i \in Ids PROVE Keeps(d[i], CancelClosed(d)[i]) OBVIOUS
<1>1. CancelClosed(d)[i] = IF d[i] # None /\ ~Permits(d, d[i]) THEN Cancelled(d[i]) ELSE d[i] BY DEF CancelClosed
<1>2. CASE d[i] # None /\ ~Permits(d, d[i])
  <2>1. PICK c \in CallRecord : c = d[i] BY <1>2
  <2> QED BY <1>1, <1>2, <2>1, CancelledKeeps
<1>3. CASE ~(d[i] # None /\ ~Permits(d, d[i])) BY <1>1, <1>3 DEF Keeps
<1> QED BY <1>2, <1>3

\* A step on the records that stores no payload.
LEMMA KeepStep ==
    ASSUME ArchiveInv, ScopeInv', UNCHANGED <<file, old, maint, issued, payload>>, ran' \subseteq ran \cup Live(doc),
           \A r \in Reservations : /\ dem[r].closed => dem'[r].closed
                                   /\ dem[r].proven => dem'[r].proven
                                   /\ dem[r].accepted => dem'[r].accepted
                                   /\ dem'[r].state = "Gone" => dem[r].state = "Gone",
           \A i \in Ids : Keeps(doc[i], doc'[i])
    PROVE  ArchiveInv' /\ HistoryKept /\ NoneRetired
<1>0. DocOK /\ Ages /\ FilesOK BY DEF ArchiveInv, ScopeInv
<1>1. ASSUME NEW i \in Ids
      PROVE  /\ Moves(i) /\ (doc[i] # None => doc'[i] # None)
             /\ doc'[i] # None => doc'[i].slots \subseteq payload'[i]
  <2>1. Keeps(doc[i], doc'[i]) OBVIOUS
  <2>2. doc[i] # None => doc[i].slots \subseteq payload[i] BY <1>0 DEF Ages
  <2>3. doc'[i] = doc[i] \/ (doc[i] # None /\ doc'[i] # None) BY <2>1, NoneAssumption DEF Keeps
  <2> QED BY <2>1, <2>2, <2>3 DEF Keeps, Moves, Alike
<1>2. payload' \in [Ids -> SUBSET Slots] BY <1>0 DEF FilesOK
<1> QED BY <1>1, <1>2, DocumentStep

\* Scopes, cancellation and dispatch.
LEMMA CallsKeep ==
    ASSUME ArchiveInv, ScopeInv', NEW i \in Ids,
           \/ ScopeOpen(i) \/ ScopeClose(i) \/ ScopeLate(i) \/ TickCancel
           \/ CancelInvocation(i) \/ DispatchExpire(i) \/ ReconcileChildren(i) \/ Dispatch(i) \/ PersistAnalysis(i)
    PROVE  ArchiveInv' /\ HistoryKept /\ NoneRetired
<1>0. doc \in [Ids -> CallRecord \cup {None}] BY DEF ArchiveInv, ScopeInv, DocOK
<1>1. UNCHANGED <<file, old, maint, issued, payload, dem>>
  BY DEF ScopeOpen, ScopeClose, ScopeLate, TickCancel, CancelInvocation, DispatchExpire, ReconcileChildren,
         Dispatch, PersistAnalysis, history, ghosts
<1>2. \A j \in Ids : doc[j] # None => doc[j] \in CallRecord /\ Keeps(doc[j], Cancelled(doc[j]))
  BY <1>0, CancelledKeeps
<1>c. \A j \in Ids : Keeps(doc[j], CancelClosed(doc)[j]) BY <1>0, CancelClosedKeeps
<1>3. ran' \subseteq ran \cup Live(doc)
  BY DEF ScopeOpen, ScopeClose, ScopeLate, TickCancel, CancelInvocation, DispatchExpire, ReconcileChildren,
         Dispatch, PersistAnalysis, ghosts, Live
<1>4. \A j \in Ids : Keeps(doc[j], doc'[j])
  <2>1. CASE ScopeOpen(i) \/ ScopeLate(i) \/ PersistAnalysis(i)
    BY <2>1 DEF ScopeOpen, ScopeLate, PersistAnalysis, Keeps
  <2>2. CASE ScopeClose(i)
    <3>1. \A j \in Ids : doc'[j] = doc[j] \/ (doc[j] # None /\ doc'[j] = Cancelled(doc[j])) BY <2>2 DEF ScopeClose
    <3> QED BY <3>1, <1>2 DEF Keeps
  <2>3. CASE TickCancel BY <1>c, <2>3 DEF TickCancel
  <2>4. CASE CancelInvocation(i)
    <3> DEFINE d == [doc EXCEPT ![i] = Cancelled(doc[i])]
    <3>1. doc[i] # None /\ doc' = CancelClosed(d) BY <2>4 DEF CancelInvocation
    <3>2. Cancelled(doc[i]) \in CallRecord BY <1>2, <3>1, CancelledRecord
    <3>3. d \in [Ids -> CallRecord \cup {None}] /\ \A j \in Ids : Keeps(doc[j], d[j])
      BY <1>0, <1>2, <3>1, <3>2 DEF Keeps
    <3> HIDE DEF d
    <3>4. \A j \in Ids : Keeps(d[j], doc'[j]) BY <3>1, <3>3, CancelClosedKeeps
    <3> QED BY <3>3, <3>4, NoneAssumption DEF Keeps
  <2>5. CASE DispatchExpire(i)
    <3> DEFINE d == CancelClosed(doc)
    <3>1. /\ doc' = [d EXCEPT ![i].state = IF @ = "Queued" THEN "Expired" ELSE @]
          /\ doc[i] # None /\ doc[i].state = "Queued"
      BY <2>5 DEF DispatchExpire
    <3>2. d \in [Ids -> CallRecord \cup {None}] BY <1>0, CancelClosedFollows DEF ArchiveInv, ScopeInv
    <3>3. PICK e \in CallRecord : e = d[i] /\ e.slots = doc[i].slots
      <4>1. doc[i] \in CallRecord BY <1>2, <3>1
      <4> QED BY <1>c, <4>1 DEF Keeps
    <3> HIDE DEF d
    <3>4. \A j \in Ids \ {i} : doc'[j] = d[j] BY <3>1, <3>2
    <3>5. doc'[i] = [e EXCEPT !.state = IF e.state = "Queued" THEN "Expired" ELSE e.state] BY <3>1, <3>2, <3>3
    <3>6. doc'[i] \in CallRecord /\ doc'[i].slots = e.slots BY <3>5 DEF CallRecord, Terminal
    <3>7. Keeps(doc[i], doc'[i]) BY <3>1, <3>3, <3>6 DEF Keeps
    <3> QED BY <1>c, <3>4, <3>7 DEF d
  <2>6. CASE ReconcileChildren(i)
    <3> SUFFICES ASSUME NEW j \in Ids PROVE Keeps(doc[j], doc'[j]) OBVIOUS
    <3>1. CASE doc'[j] = doc[j] BY <3>1 DEF Keeps
    <3>2. CASE doc'[j] # doc[j]
      <4>1. /\ doc[j] # None /\ doc[j].state = "Running"
            /\ doc'[j] = [Cancelled(doc[j]) EXCEPT !.state = "Uncertain"]
        BY <2>6, <3>2 DEF ReconcileChildren, Children, Live
      <4>2. PICK c \in CallRecord : c = Cancelled(doc[j]) /\ c.slots = doc[j].slots
        BY <1>2, <4>1, CancelledRecord DEF Keeps
      <4>3. doc'[j] \in CallRecord /\ doc'[j].slots = c.slots BY <4>1, <4>2 DEF CallRecord
      <4> QED BY <4>1, <4>2, <4>3 DEF Keeps
    <3> QED BY <3>1, <3>2
  <2>7. CASE Dispatch(i)
    <3> DEFINE d == CancelClosed(doc)
    <3>1. doc[i] # None /\ doc[i].state = "Queued" /\ (doc' = d \/ doc' = [d EXCEPT ![i].state = "Running"])
      BY <2>7 DEF Dispatch
    <3>2. d \in [Ids -> CallRecord \cup {None}] BY <1>0, CancelClosedFollows DEF ArchiveInv, ScopeInv
    <3>3. PICK e \in CallRecord : e = d[i] /\ e.slots = doc[i].slots
      <4>1. doc[i] \in CallRecord BY <1>2, <3>1
      <4> QED BY <1>c, <4>1 DEF Keeps
    <3>4. CASE doc' = d BY <1>c, <3>4
    <3> HIDE DEF d
    <3>5. CASE doc' = [d EXCEPT ![i].state = "Running"]
      <4>1. \A j \in Ids \ {i} : doc'[j] = d[j] BY <3>2, <3>5
      <4>2. doc'[i] = [e EXCEPT !.state = "Running"] BY <3>2, <3>3, <3>5
      <4>3. doc'[i] \in CallRecord /\ doc'[i].slots = e.slots BY <4>2 DEF CallRecord
      <4>4. Keeps(doc[i], doc'[i]) BY <3>1, <3>3, <4>3 DEF Keeps
      <4> QED BY <1>c, <4>1, <4>4 DEF d
    <3> QED BY <3>1, <3>4, <3>5
  <2> QED BY <2>1, <2>2, <2>3, <2>4, <2>5, <2>6, <2>7
<1> QED BY <1>1, <1>3, <1>4, KeepStep

\* The end of a reservation takes nothing back.
LEMMA DemandsKeep ==
    ASSUME ArchiveInv, ScopeInv', NEW r \in Reservations,
           (\E x \in BOOLEAN : Close(r, x)) \/ Retire(r) \/ Quarantine(r) \/ RecoveryPrepare(r) \/ RecoveryFinish(r)
    PROVE  ArchiveInv' /\ HistoryKept /\ NoneRetired
<1>0. doc \in [Ids -> CallRecord \cup {None}] /\ dem \in [Reservations -> DemandRecord]
  BY DEF ArchiveInv, ScopeInv, DocOK
<1>1. UNCHANGED <<file, old, maint, issued, payload, ran>>
  BY DEF Close, Retire, Quarantine, RecoveryPrepare, RecoveryFinish, history, ghosts
<1>2. \A j \in Ids : doc[j] # None => doc[j] \in CallRecord /\ Cancelled(doc[j]) \in CallRecord /\ Keeps(doc[j], Cancelled(doc[j]))
  BY <1>0, CancelledKeeps, CancelledRecord
<1>3. \A j \in Ids : Keeps(doc[j], doc'[j])
  <2>1. ASSUME NEW x \in BOOLEAN, Close(r, x) PROVE \A j \in Ids : Keeps(doc[j], doc'[j])
    <3> DEFINE d == [i \in Ids |->
                 IF i \in CallsOf(doc, r) /\ ~dem[r].proven /\ (x \/ doc[i].state = "Queued")
                 THEN Cancelled(doc[i]) ELSE doc[i]]
    <3>1. \A i \in Ids : d[i] = doc[i] \/ (doc[i] # None /\ d[i] = Cancelled(doc[i])) BY DEF CallsOf, Live
    <3>2. doc' = CancelClosed(d) BY <2>1 DEF Close
    <3>3. d = [i \in Ids |-> d[i]] OBVIOUS
    <3> HIDE DEF d
    <3>4. d \in [Ids -> CallRecord \cup {None}] /\ \A i \in Ids : Keeps(doc[i], d[i])
      BY <1>0, <1>2, <3>1, <3>3 DEF Keeps
    <3>5. \A i \in Ids : Keeps(d[i], doc'[i]) BY <3>2, <3>4, CancelClosedKeeps
    <3> QED BY <3>4, <3>5, NoneAssumption DEF Keeps
  <2>2. CASE Retire(r) \/ RecoveryFinish(r) BY <2>2 DEF Retire, RecoveryFinish, Keeps
  <2>3. CASE Quarantine(r) BY <1>0, <2>3, CancelClosedKeeps DEF Quarantine
  <2>4. CASE RecoveryPrepare(r)
    <3>1. \A i \in Ids : doc'[i] = doc[i] \/ (doc[i] # None /\ doc'[i] = Cancelled(doc[i]))
      BY <2>4 DEF RecoveryPrepare, CallsOf, Live
    <3> QED BY <1>2, <3>1 DEF Keeps
  <2> QED BY <2>1, <2>2, <2>3, <2>4
<1>4. PICK d \in DemandRecord : d = dem[r] BY <1>0
<1>5. PICK e \in DemandRecord :
        /\ dem' = [dem EXCEPT ![r] = e]
        /\ (d.closed => e.closed) /\ (d.proven => e.proven) /\ (d.accepted => e.accepted)
        /\ e.state = "Gone" => d.state = "Gone"
  <2> DEFINE E == {[d EXCEPT !.closed = TRUE, !.released = TRUE, !.state = IF d.state = "Ready" THEN "Releasing" ELSE d.state],
                   [d EXCEPT !.state = "Retired"], [d EXCEPT !.state = "RecoveryRequired"], [d EXCEPT !.released = TRUE],
                   [d EXCEPT !.state = "Retired", !.proven = TRUE]}
  <2>1. ASSUME NEW e \in E
        PROVE  /\ e \in DemandRecord
               /\ (d.closed => e.closed) /\ (d.proven => e.proven) /\ (d.accepted => e.accepted)
               /\ e.state = "Gone" => d.state = "Gone"
    BY DEF DemandRecord
  <2>2. ASSUME NEW x \in BOOLEAN, Close(r, x)
        PROVE  dem' = [dem EXCEPT ![r] = [d EXCEPT !.closed = TRUE, !.released = TRUE,
                                                   !.state = IF d.state = "Ready" THEN "Releasing" ELSE d.state]]
    BY <1>0, <1>4, <2>2 DEF Close, DemandRecord
  <2>3. Retire(r) => dem' = [dem EXCEPT ![r] = [d EXCEPT !.state = "Retired"]] BY <1>0, <1>4 DEF Retire
  <2>4. Quarantine(r) => dem' = [dem EXCEPT ![r] = [d EXCEPT !.state = "RecoveryRequired"]] BY <1>0, <1>4 DEF Quarantine
  <2>5. RecoveryPrepare(r) => dem' = [dem EXCEPT ![r] = [d EXCEPT !.released = TRUE]] BY <1>0, <1>4 DEF RecoveryPrepare
  <2>6. RecoveryFinish(r) => dem' = [dem EXCEPT ![r] = [d EXCEPT !.state = "Retired", !.proven = TRUE]]
    BY <1>0, <1>4 DEF RecoveryFinish, DemandRecord
  <2>7. \E e \in E : dem' = [dem EXCEPT ![r] = e] BY <2>2, <2>3, <2>4, <2>5, <2>6
  <2> HIDE DEF E
  <2> QED BY <2>1, <2>7
<1>6. \A x \in Reservations : /\ dem[x].closed => dem'[x].closed
                              /\ dem[x].proven => dem'[x].proven
                              /\ dem[x].accepted => dem'[x].accepted
                              /\ dem'[x].state = "Gone" => dem[x].state = "Gone"
  BY <1>0, <1>4, <1>5
<1> QED BY <1>1, <1>3, <1>6, KeepStep

\* A completion stores its payload with the record that names it.
LEMMA CompleteKeeps ==
    ASSUME ArchiveInv, ScopeInv', NEW i \in Ids, Complete(i) PROVE ArchiveInv' /\ HistoryKept /\ NoneRetired
<1>0. /\ DocOK /\ doc \in [Ids -> CallRecord \cup {None}] /\ payload \in [Ids -> SUBSET Slots] /\ Ages
  BY DEF ArchiveInv, ScopeInv, DocOK, FilesOK
<1> DEFINE d == CancelClosed(doc)
<1>1. d \in [Ids -> CallRecord \cup {None}] /\ \A j \in Ids : Keeps(doc[j], d[j])
  BY <1>0, CancelClosedFollows, CancelClosedKeeps
<1>2. UNCHANGED <<file, old, maint, issued, dem, ran>> BY DEF Complete, ghosts
<1>3. doc[i] # None /\ doc[i].state = "Running" BY DEF Complete
<1>4. PICK e \in CallRecord : e = d[i] /\ e.slots = doc[i].slots BY <1>0, <1>1, <1>3 DEF Keeps
<1>5. PICK state \in {"Uncertain", "Cancelled", "Completed", "Failed"}, slot \in SUBSET Slots, cause \in {"child", e.cause} :
        /\ doc' = [d EXCEPT ![i] = [e EXCEPT !.state = state, !.slots = e.slots \cup slot, !.cause = cause]]
        /\ payload' = [payload EXCEPT ![i] = @ \cup slot]
  <2> DEFINE held == UnknownChild(d, i)
             Slot(a) == IF a # "valid" THEN {}
                        ELSE IF held \/ d[i].cancel THEN {"late_result"} ELSE {"result"}
             State(a) == CASE held -> "Uncertain"
                           [] ~held /\ a = "valid" -> IF d[i].cancel THEN "Cancelled" ELSE "Completed"
                           [] ~held /\ a = "error" -> "Failed"
                           [] OTHER -> "Uncertain"
  <2>1. PICK a \in Answers :
          /\ doc' = [d EXCEPT ![i].state = State(a), ![i].slots = @ \cup Slot(a),
                              ![i].cause = IF held THEN "child" ELSE @]
          /\ payload' = [payload EXCEPT ![i] = @ \cup Slot(a)]
    BY DEF Complete, StorePayload
  <2>2. State(a) \in {"Uncertain", "Cancelled", "Completed", "Failed"} OBVIOUS
  <2>3. Slot(a) \in SUBSET Slots BY DEF Slots
  <2> HIDE DEF State, Slot, held, d
  <2>4. doc' = [d EXCEPT ![i] = [e EXCEPT !.state = State(a), !.slots = e.slots \cup Slot(a),
                                          !.cause = IF held THEN "child" ELSE e.cause]]
    BY <1>1, <1>4, <2>1 DEF CallRecord
  <2> QED BY <2>1, <2>2, <2>3, <2>4
<1> HIDE DEF d
<1> DEFINE f == [e EXCEPT !.state = state, !.slots = e.slots \cup slot, !.cause = cause]
<1>6. f \in CallRecord /\ f.slots = e.slots \cup slot BY <1>5 DEF CallRecord, Terminal, Slots
<1>7. doc'[i] = f /\ \A j \in Ids \ {i} : doc'[j] = d[j] BY <1>1, <1>5
<1> HIDE DEF f
<1>8. payload' \in [Ids -> SUBSET Slots] /\ \A j \in Ids : payload[j] \subseteq payload'[j] BY <1>0, <1>5
<1>9. ASSUME NEW j \in Ids
      PROVE  /\ Moves(j) /\ (doc[j] # None => doc'[j] # None)
             /\ doc'[j] # None => doc'[j].slots \subseteq payload'[j]
  <2>0. doc[j] # None => doc[j].slots \subseteq payload[j] BY <1>0 DEF Ages
  <2>1. CASE j = i
    <3>1. doc'[i] # None BY <1>6, <1>7, NoneAssumption
    <3>2. payload'[i] = payload[i] \cup slot BY <1>0, <1>5
    <3>3. doc'[i].slots \subseteq payload'[i] BY <1>3, <1>4, <1>6, <1>7, <2>0, <2>1, <3>2
    <3> QED BY <1>3, <1>8, <2>1, <3>1, <3>3 DEF Moves
  <2>2. CASE j # i
    <3>1. Keeps(doc[j], doc'[j]) BY <1>1, <1>7, <2>2
    <3>2. doc'[j] = doc[j] \/ (doc[j] # None /\ doc'[j] # None) BY <3>1, NoneAssumption DEF Keeps
    <3> QED BY <1>8, <2>0, <3>1, <3>2 DEF Keeps, Moves, Alike
  <2> QED BY <2>1, <2>2
<1> QED BY <1>2, <1>8, <1>9, DocumentStep

\* What a thread reads before the lock changes nothing that is kept.
LEMMA ReadsKeep ==
    ASSUME ArchiveInv, ScopeInv', UNCHANGED <<dem, doc, file, payload, old, maint, issued, ran>> PROVE ArchiveInv' /\ HistoryKept /\ NoneRetired
BY KeepStep DEF Keeps

-----------------------------------------------------------------------------
\* What was accepted for an open reservation is found again.
LEMMA KnownAgain ==
    ASSUME ArchiveInv, NEW q \in Request, NEW j \in Ids, issued[j] # None, ActiveDemand(ResOf[q]),
           \/ issued[j] = q
           \/ WorkPerReservation /\ WorkOf[q] # None /\ WorkOf[issued[j]] = WorkOf[q]
    PROVE  Known(q)
<1>0. /\ DocOK /\ Issued /\ Shut /\ FilesOK /\ Ages /\ Indexed
      /\ issued[j] \in Request /\ ResOf[q] \in Reservations
  BY HistoryAssumption DEF ArchiveInv, ScopeInv, DocOK
<1>1. ResOf[issued[j]] = ResOf[q] BY <1>0 DEF WorkPerReservation, Nested
<1>2. j \notin old BY <1>0, <1>1 DEF Ages, Closable, Shut, ActiveDemand
<1>3. LookupNeeded(ResOf[q]) BY <1>0, <1>1 DEF Ages, LookupNeeded
<1>4. j # None BY HistoryAssumption
<1>5. CASE doc[j] # None
  <2>1. j \in Live(doc) /\ doc[j].req = issued[j] BY <1>0, <1>5 DEF Live, Issued
  <2>2. issued[j] = q => j \in FindSubmission(doc, q) BY <2>1 DEF FindSubmission
  <2>3. issued[j] # q => j \in FindWork(doc, WorkOf[q]) /\ q \notin Nested BY <2>1 DEF FindWork, Nested
  <2> QED BY <2>2, <2>3 DEF Known
<1>6. CASE doc[j] = None
  <2>1. \A k \in Parts(issued[j]) : Stands(j, k) BY <1>0, <1>2, <1>6 DEF Indexed
  <2>2. 1 \in Parts(issued[j]) /\ 2 \in Parts(issued[j]) /\ (issued[j] \notin Nested => 3 \in Parts(issued[j]))
    BY DEF Parts
  <2>3. Archived(j) BY <1>2, <2>1, <2>2 DEF Stands, Archived
  <2>4. CASE issued[j] = q
    <3>1. file[SubmissionFile(q)] = j BY <2>1, <2>2, <2>4 DEF Stands
    <3> QED BY <1>3, <1>4, <2>3, <3>1 DEF Known, LookupSubmission
  <2>5. CASE issued[j] # q
    <3>1. issued[j] \notin Nested /\ q \notin Nested BY <1>0, <2>5 DEF Nested
    <3>2. file[WorkFile(WorkOf[q])] = j BY <2>1, <2>2, <2>5, <3>1 DEF Stands
    <3> QED BY <1>3, <1>4, <2>3, <3>1, <3>2 DEF Known, LookupWork
  <2> QED BY <2>4, <2>5
<1> QED BY <1>5, <1>6

\* The maintainers that rest while another moves.
LEMMA OthersKept ==
    ASSUME DocOK, Onward, FilesStay, CopiesOK, MaintInv, NEW m \in Maintainers, maint'[m] = maint[m]
    PROVE  PlanOK(m)' /\ StagedOK(m)' /\ Written(m)' /\ Removing(m)'
<1>1. PlanOK(m) /\ StagedOK(m) /\ Written(m) /\ Removing(m) BY DEF MaintInv
<1> QED BY <1>1, MaintKept, WrittenKept

\* An accepted call is the only one of its submission and its work.
LEMMA AcceptKeeps ==
    ASSUME ArchiveInv, ScopeInv', NEW t \in Threads, Accept(t) PROVE ArchiveInv' /\ HistoryKept /\ NoneRetired
<1> DEFINE q == sub[t].req
<1>0. /\ DocOK /\ Issued /\ FilesOK /\ CopiesOK /\ MaintInv /\ Once /\ Ages /\ Indexed
      /\ doc \in [Ids -> CallRecord \cup {None}] /\ dem \in [Reservations -> DemandRecord]
      /\ issued \in [Ids -> Request \cup {None}] /\ payload \in [Ids -> SUBSET Slots]
  BY DEF ArchiveInv, ScopeInv, DocOK, FilesOK
<1>1. UNCHANGED <<file, old, maint, ran>> BY DEF Accept
<1>q. q \in Request /\ ResOf[q] \in Reservations /\ q # None BY <1>0, HistoryAssumption DEF Accept, DocOK
<1>2. CASE UNCHANGED <<dem, doc, payload, issued>> BY <1>1, <1>2, ReadsKeep
<1>3. CASE ~UNCHANGED <<dem, doc, payload, issued>>
  <2> DEFINE C(p) == [req |-> q, scope |-> p, cancel |-> FALSE, slots |-> {"request"},
                      state |-> "Queued", cause |-> None]
  <2>1. PICK p \in ScopesOf(q), i \in Fresh :
          /\ ~Known(q) /\ ActiveDemand(ResOf[q])
          /\ dem' = [dem EXCEPT ![ResOf[q]].accepted = TRUE]
          /\ doc' = [doc EXCEPT ![i] = C(p)]
          /\ StorePayload(i, {"request"})
          /\ issued' = [issued EXCEPT ![i] = q]
    BY <1>3 DEF Accept
  <2>2. p \in Ids \cup {None} /\ i \in Ids /\ issued[i] = None BY <2>1 DEF ScopesOf, Live, Fresh
  <2>3. C(p) \in CallRecord /\ C(p) # None /\ C(p).slots = {"request"}
    <3>1. C(p) \in CallRecord BY <1>q, <2>2 DEF CallRecord, Slots, Terminal
    <3> QED BY <3>1, NoneAssumption
  <2>4. doc'[i] = C(p) /\ \A j \in Ids \ {i} : doc'[j] = doc[j] BY <1>0, <2>1, <2>2
  <2> HIDE DEF q, C
  <2>5. issued'[i] = q /\ \A j \in Ids \ {i} : issued'[j] = issued[j] BY <1>0, <2>1, <2>2
  <2>6. /\ payload' \in [Ids -> SUBSET Slots] /\ "request" \in payload'[i]
        /\ \A j \in Ids : payload[j] \subseteq payload'[j]
    BY <1>0, <2>1, <2>2 DEF StorePayload, Slots
  <2>7. \A r \in Reservations :
          /\ dem'[r].closed = dem[r].closed /\ dem'[r].proven = dem[r].proven /\ dem'[r].state = dem[r].state
          /\ dem[r].accepted \/ r = ResOf[q] => dem'[r].accepted
    <3>1. PICK e \in DemandRecord : e = dem[ResOf[q]] BY <1>0, <1>q DEF q
    <3>2. dem' = [dem EXCEPT ![ResOf[q]] = [e EXCEPT !.accepted = TRUE]] BY <1>0, <2>1, <3>1
    <3> QED BY <1>0, <1>q, <3>1, <3>2 DEF DemandRecord, q
  <2>8. Onward BY <1>1, <2>2, <2>5, <2>7 DEF Onward
  <2>9. \A j \in Ids : issued[j] # None => j # i /\ Moves(j)
    <3> SUFFICES ASSUME NEW j \in Ids, issued[j] # None PROVE j # i /\ Moves(j) OBVIOUS
    <3> QED BY <2>2, <2>4, <2>6 DEF Moves, Alike
  <2>10. \A j \in Ids : \A c : IsCopy(j, c)' => IsCopy(j, c) BY <1>1 DEF IsCopy, HasPlan, HasStaged, CallFile
  <2>11. CopiesOK' BY <1>0, <2>8, <2>9, <2>10, CopiesKept
  <2>12. FilesOK'
    <3>1. old' \subseteq Ids \cup Reservations BY <1>0, <1>1 DEF FilesOK
    <3> QED BY <1>0, <1>1, <2>6, <2>8, <3>1, FilesKept
  <2>13. \A j \in Ids : \A k : issued[j] # None /\ Stands(j, k) => Stands(j, k)'
    BY <1>1, <2>8 DEF Stands, CallFile, SubmissionFile, WorkFile, Onward
  <2>14. FilesStay BY <1>1, <2>13 DEF FilesStay, ReservationFile
  <2>15. MaintInv' BY <1>0, <1>1, <2>8, <2>14, OthersKept DEF MaintInv
  <2>16. Once'
    <3>1. ASSUME NEW j \in Ids \ {i}, issued[j] # None
          PROVE  /\ issued[j] # q
                 /\ ~(WorkPerReservation /\ WorkOf[q] # None /\ WorkOf[issued[j]] = WorkOf[q])
      BY <1>q, <2>1, <3>1, KnownAgain DEF q
    <3> SUFFICES ASSUME NEW j \in Ids, NEW k \in Ids, issued'[j] # None, issued'[k] # None
                 PROVE  /\ issued'[j] = issued'[k] => j = k
                        /\ WorkPerReservation /\ WorkOf[issued'[j]] # None /\ WorkOf[issued'[j]] = WorkOf[issued'[k]] => j = k
      BY DEF Once
    <3>2. CASE j = i /\ k # i BY <2>5, <3>1, <3>2
    <3>3. CASE j # i /\ k = i BY <2>5, <3>1, <3>3
    <3>4. CASE j # i /\ k # i BY <1>0, <2>5, <3>4 DEF Once
    <3> QED BY <3>2, <3>3, <3>4
  <2>17. Ages'
    <3>1. \A j \in Ids \cap old : doc'[j] = None /\ Closable(j)'
      <4> SUFFICES ASSUME NEW j \in Ids \cap old PROVE doc'[j] = None /\ Closable(j)' OBVIOUS
      <4>1. doc[j] = None /\ Closable(j) BY <1>0 DEF Ages
      <4>2. issued[j] # None BY <4>1 DEF Closable
      <4> QED BY <1>0, <2>4, <2>8, <2>9, <4>1, <4>2, OnwardCall
    <3>2. \A j \in Ids : issued'[j] # None => dem'[ResOf[issued'[j]]].accepted
      <4> SUFFICES ASSUME NEW j \in Ids, issued'[j] # None PROVE dem'[ResOf[issued'[j]]].accepted OBVIOUS
      <4>1. CASE j = i BY <1>q, <2>5, <2>7, <4>1 DEF q
      <4>2. CASE j # i
        <5>1. issued[j] # None /\ issued'[j] = issued[j] BY <2>5, <4>2
        <5>2. ResOf[issued[j]] \in Reservations BY <1>0, <2>8, <5>1, OnwardCall
        <5> QED BY <1>0, <2>7, <5>1, <5>2 DEF Ages
      <4> QED BY <4>1, <4>2
    <3>3. ran' \subseteq {j \in Ids : issued'[j] # None} BY <1>0, <1>1, <2>2, <2>5 DEF Ages
    <3>4. \A j \in Ids : doc'[j] # None => doc'[j].slots \subseteq payload'[j]
      <4> SUFFICES ASSUME NEW j \in Ids, doc'[j] # None PROVE doc'[j].slots \subseteq payload'[j] OBVIOUS
      <4>1. CASE j = i BY <2>3, <2>4, <2>6, <4>1
      <4>2. CASE j # i BY <1>0, <2>4, <2>6, <4>2 DEF Ages
      <4> QED BY <4>1, <4>2
    <3> QED BY <1>1, <3>1, <3>2, <3>3, <3>4 DEF Ages
  <2>18. Indexed'
    <3>1. ASSUME NEW j \in Ids, issued'[j] # None, j \notin old, doc'[j] = None, NEW k \in Parts(issued'[j])
          PROVE  Stands(j, k)'
      <4>1. j # i BY <2>3, <2>4, <3>1
      <4>2. issued[j] # None /\ issued'[j] = issued[j] /\ doc[j] = None BY <2>4, <2>5, <3>1, <4>1
      <4>3. Stands(j, k) BY <1>0, <3>1, <4>2 DEF Indexed
      <4> QED BY <2>13, <4>2, <4>3
    <3>2. \A r \in Reservations : dem'[r].state = "Gone" /\ r \notin old => file[ReservationFile(r)] # None
      BY <1>0, <2>7 DEF Indexed
    <3> QED BY <1>1, <3>1, <3>2 DEF Indexed, Parts, Nested, ReservationFile
  <2>19. HistoryKept BY <1>1, <2>8, <2>9 DEF HistoryKept, IsCopy
  <2>20. NoneRetired BY <2>3, <2>4 DEF NoneRetired
  <2> QED BY <2>11, <2>12, <2>15, <2>16, <2>17, <2>18, <2>19, <2>20 DEF ArchiveInv
<1> QED BY <1>2, <1>3

-----------------------------------------------------------------------------
\* A step of a maintainer that leaves the document alone.
LEMMA MaintenanceStep ==
    ASSUME ArchiveInv, ScopeInv', UNCHANGED <<dem, doc, issued, ran, old>>, NEW m \in Maintainers,
           \A x \in Maintainers \ {m} : maint'[x] = maint[x],
           PlanOK(m)', StagedOK(m)', Written(m)', Removing(m)', CopiesOK', FilesOK', FilesStay,
           \A i \in Ids : file'[CallFile(i)] # None => IsCopy(i, file'[CallFile(i)].rec),
           \A i \in Ids \ old : payload'[i] = payload[i]
    PROVE  ArchiveInv' /\ HistoryKept /\ NoneRetired
<1>0. DocOK /\ FilesOK /\ CopiesOK /\ MaintInv /\ Once /\ Ages /\ Indexed BY DEF ArchiveInv, ScopeInv
<1>1. Onward BY DEF Onward
<1>2. MaintInv' BY <1>0, <1>1, OthersKept DEF MaintInv
<1>3. Once' BY <1>0 DEF Once
<1>4. Ages'
  <2>1. \A i \in Ids : doc[i] # None => i \notin old BY <1>0 DEF Ages
  <2> QED BY <1>0, <2>1 DEF Ages, Closable
<1>5. Indexed'
  <2>1. ASSUME NEW i \in Ids, issued[i] # None, i \notin old, doc[i] = None, NEW k \in Parts(issued[i]) PROVE Stands(i, k)'
    <3>1. Stands(i, k) BY <1>0, <2>1 DEF Indexed
    <3> QED BY <2>1, <3>1 DEF FilesStay
  <2>2. \A r \in Reservations : dem[r].state = "Gone" /\ r \notin old => file'[ReservationFile(r)] # None
    BY <1>0 DEF Indexed, FilesStay
  <2> QED BY <2>1, <2>2 DEF Indexed, Parts, Nested, ReservationFile
<1>6. HistoryKept /\ NoneRetired BY <1>1 DEF HistoryKept, NoneRetired, Moves, Alike
<1> QED BY <1>2, <1>3, <1>4, <1>5, <1>6 DEF ArchiveInv

\* Where no file changes.
LEMMA QuietStep ==
    ASSUME ArchiveInv, ScopeInv', UNCHANGED <<dem, doc, issued, ran, old, file, payload>>, NEW m \in Maintainers,
           \A x \in Maintainers \ {m} : maint'[x] = maint[x],
           PlanOK(m)', StagedOK(m)', Written(m)', Removing(m)', CopiesOK'
    PROVE  ArchiveInv' /\ HistoryKept /\ NoneRetired
<1>1. DocOK /\ FilesOK BY DEF ArchiveInv, ScopeInv
<1>2. Onward BY DEF Onward
<1>3. payload' \in [Ids -> SUBSET Slots] /\ old' \subseteq Ids \cup Reservations BY <1>1 DEF FilesOK
<1>4. FilesOK' BY <1>1, <1>2, <1>3, FilesKept
<1>5. FilesStay BY DEF FilesStay, Stands, CallFile, SubmissionFile, WorkFile, ReservationFile
<1>6. \A i \in Ids : file'[CallFile(i)] # None => IsCopy(i, file'[CallFile(i)].rec) BY DEF IsCopy
<1> QED BY <1>4, <1>5, <1>6, MaintenanceStep

\* A maintainer without a plan claims nothing.
LEMMA IdleOK == ASSUME NEW m, maint'[m] = Idle PROVE PlanOK(m)' /\ StagedOK(m)' /\ Written(m)' /\ Removing(m)'
<1>1. maint'[m].pc = "idle" BY DEF Idle
<1> QED BY <1>1 DEF PlanOK, StagedOK, Written, Removing, HasPlan, HasStaged

\* A maintainer that gives its plan up, or keeps it and what is staged.
LEMMA IdleStep ==
    ASSUME ArchiveInv, ScopeInv', UNCHANGED <<dem, doc, issued, ran, old, file, payload>>, NEW m \in Maintainers,
           maint' = [maint EXCEPT ![m] = Idle]
    PROVE  ArchiveInv' /\ HistoryKept /\ NoneRetired
<1>0. DocOK /\ CopiesOK /\ DOMAIN maint = Maintainers BY DEF ArchiveInv, ScopeInv, MaintOK
<1>1. maint'[m] = Idle /\ maint'[m].pc = "idle" /\ \A x \in Maintainers \ {m} : maint'[x] = maint[x] BY <1>0 DEF Idle
<1>2. ~HasPlan(m)' /\ ~HasStaged(m)' BY <1>1 DEF HasPlan, HasStaged
<1>3. \A i : \A c : IsCopy(i, c)' => IsCopy(i, c)
  <2>1. \A x \in Maintainers : HasPlan(x)' => HasPlan(x) /\ maint'[x] = maint[x] BY <1>1, <1>2 DEF HasPlan
  <2>2. \A x \in Maintainers : HasStaged(x)' => HasStaged(x) /\ maint'[x] = maint[x] BY <1>1, <1>2 DEF HasStaged
  <2> QED BY <2>1, <2>2 DEF IsCopy, CallFile
<1>4. Onward /\ \A i \in Ids : Moves(i) BY DEF Onward, Moves, Alike
<1>5. CopiesOK' BY <1>0, <1>3, <1>4, CopiesKept
<1> QED BY <1>1, <1>5, IdleOK, QuietStep

\* The check drops the plan or lets it go on.
LEMMA CheckKeeps == ASSUME ArchiveInv, ScopeInv', NEW m \in Maintainers, CheckMaintenance(m) PROVE ArchiveInv' /\ HistoryKept /\ NoneRetired
<1>0. /\ DocOK /\ CopiesOK /\ MaintInv /\ DOMAIN maint = Maintainers /\ DOMAIN maint[m] = {"pc", "plan", "staged"}
  BY DEF ArchiveInv, ScopeInv, MaintOK
<1>1. UNCHANGED <<dem, doc, issued, ran, old, file, payload>> /\ maint[m].pc = "check"
  BY DEF CheckMaintenance, history, ghosts
<1>2. CASE maint' = [maint EXCEPT ![m] = Idle] BY <1>1, <1>2, IdleStep
<1>3. CASE maint' # [maint EXCEPT ![m] = Idle]
  <2>1. maint' = [maint EXCEPT ![m] = [maint[m] EXCEPT !.pc = "publish"]] BY <1>0, <1>3 DEF CheckMaintenance
  <2>2. /\ maint'[m].pc = "publish" /\ maint'[m].plan = maint[m].plan /\ maint'[m].staged = maint[m].staged
        /\ \A x \in Maintainers \ {m} : maint'[x] = maint[x]
    BY <1>0, <2>1
  <2>3. \A x \in Maintainers : /\ (HasPlan(x)' <=> HasPlan(x)) /\ (HasStaged(x)' <=> HasStaged(x))
                               /\ maint'[x].plan = maint[x].plan /\ maint'[x].staged = maint[x].staged
    BY <1>1, <2>2 DEF HasPlan, HasStaged
  <2>4. \A i : \A c : IsCopy(i, c)' => IsCopy(i, c) BY <1>1, <2>3 DEF IsCopy, CallFile
  <2>5. Onward /\ \A i \in Ids : Moves(i) BY <1>1 DEF Onward, Moves, Alike
  <2>6. CopiesOK' BY <1>0, <2>4, <2>5, CopiesKept
  <2>7. PlanOK(m) /\ StagedOK(m) /\ Written(m) BY <1>0 DEF MaintInv
  <2>8. PlanOK(m)' BY <1>1, <2>3, <2>7 DEF PlanOK
  <2>9. StagedOK(m)'
    <3>1. PICK r, st : r = maint[m].plan.res /\ st = maint[m].staged OBVIOUS
    <3>2. ASSUME HasStaged(m), NEW a \in DOMAIN st PROVE Placed(r, a, st[a])'
      <4>1. PICK s : s = st[a] OBVIOUS
      <4>2. Placed(r, a, s) BY <2>7, <3>1, <3>2, <4>1 DEF StagedOK
      <4>3. Placed(r, a, s)' BY <1>0, <2>5, <4>2, PlacedKept
      <4> QED BY <4>1, <4>3
    <3> QED BY <2>2, <2>3, <2>7, <3>1, <3>2 DEF StagedOK, Placed
  <2>10. Written(m)'
    BY <1>1, <2>3, <2>7 DEF Written, Parts, Nested, Stands, CallFile, SubmissionFile, WorkFile, ReservationFile
  <2>11. Removing(m)' BY <2>2 DEF Removing
  <2> QED BY <1>1, <2>2, <2>6, <2>8, <2>9, <2>10, <2>11, QuietStep
<1> QED BY <1>2, <1>3

\* What a plan remembers of a call is its settled record.
LEMMA PlanStep ==
    ASSUME ArchiveInv, ScopeInv', UNCHANGED <<dem, doc, issued, ran, old, file, payload>>, NEW m \in Maintainers, NEW p,
           maint[m].pc = "idle", maint' = [maint EXCEPT ![m] = [@ EXCEPT !.pc = "prepare", !.plan = p]],
           p.kind # "expire" =>
               /\ p.kind \in {"call", "group"} /\ p.res \in Reservations /\ DOMAIN p.recs \subseteq Ids
               /\ p.kind = "group" => dem[p.res].closed
               /\ \A i \in DOMAIN p.recs :
                    /\ doc[i] # None /\ p.recs[i] = doc[i] /\ ResOf[doc[i].req] = p.res
                    /\ doc[i].state \notin {"Queued", "Running"}
                    /\ doc[i].state = "Uncertain" => dem[ResOf[doc[i].req]].proven
    PROVE  ArchiveInv' /\ HistoryKept /\ NoneRetired
<1>0. /\ DocOK /\ Issued /\ CopiesOK /\ Ages /\ DOMAIN maint = Maintainers /\ DOMAIN maint[m] = {"pc", "plan", "staged"}
  BY DEF ArchiveInv, ScopeInv, MaintOK
<1>1. /\ maint'[m].pc = "prepare" /\ maint'[m].plan = p
      /\ \A x \in Maintainers \ {m} : maint'[x] = maint[x]
  BY <1>0
<1>2. ~HasStaged(m)' /\ (HasPlan(m)' <=> p.kind # "expire") BY <1>1 DEF HasStaged, HasPlan
<1>3. PlanOK(m)' /\ StagedOK(m)' /\ Written(m)' /\ Removing(m)'
  <2>1. PlanOK(m)' BY <1>1, <1>2 DEF PlanOK
  <2>2. StagedOK(m)' /\ Written(m)' BY <1>2 DEF StagedOK, Written
  <2>3. Removing(m)' BY <1>1 DEF Removing
  <2> QED BY <2>1, <2>2, <2>3
<1>4. \A i \in Ids : \A c : IsCopy(i, c)' => IsCopy(i, c) \/ (p.kind # "expire" /\ i \in DOMAIN p.recs /\ c = doc[i])
  <2>1. \A x \in Maintainers \ {m} : (HasPlan(x)' => HasPlan(x)) /\ (HasStaged(x)' => HasStaged(x))
    BY <1>1 DEF HasPlan, HasStaged
  <2> SUFFICES ASSUME NEW i \in Ids, NEW c, IsCopy(i, c)'
               PROVE  IsCopy(i, c) \/ (p.kind # "expire" /\ i \in DOMAIN p.recs /\ c = doc[i])
    OBVIOUS
  <2>2. CASE file[CallFile(i)] # None /\ c = file[CallFile(i)].rec BY <2>2 DEF IsCopy
  <2>3. CASE \E x \in Maintainers : HasPlan(x)' /\ i \in DOMAIN maint'[x].plan.recs /\ c = maint'[x].plan.recs[i]
    <3>1. PICK x \in Maintainers : HasPlan(x)' /\ i \in DOMAIN maint'[x].plan.recs /\ c = maint'[x].plan.recs[i]
      BY <2>3
    <3>2. CASE x = m BY <1>1, <1>2, <3>1, <3>2
    <3>3. CASE x # m BY <1>1, <2>1, <3>1, <3>3 DEF IsCopy
    <3> QED BY <3>2, <3>3
  <2>4. CASE \E x \in Maintainers, b \in {1, 3} :
               /\ HasStaged(x)' /\ <<b, i, 1>> \in DOMAIN maint'[x].staged
               /\ c = maint'[x].staged[<<b, i, 1>>].value.rec
    <3>1. PICK x \in Maintainers, b \in {1, 3} :
               /\ HasStaged(x)' /\ <<b, i, 1>> \in DOMAIN maint'[x].staged
               /\ c = maint'[x].staged[<<b, i, 1>>].value.rec
      BY <2>4
    <3>2. x # m BY <1>2, <3>1
    <3>3. HasStaged(x) /\ maint'[x] = maint[x] BY <1>1, <2>1, <3>1, <3>2
    <3>4. <<b, i, 1>> \in DOMAIN maint[x].staged /\ c = maint[x].staged[<<b, i, 1>>].value.rec BY <3>1, <3>3
    <3> QED BY <3>3, <3>4 DEF IsCopy
  <2> QED BY <2>2, <2>3, <2>4 DEF IsCopy, CallFile
<1>5. ASSUME NEW i \in Ids, NEW c, IsCopy(i, c)' PROVE Settled(i, c)
  <2>1. CASE IsCopy(i, c) BY <1>0, <2>1 DEF CopiesOK
  <2>2. CASE p.kind # "expire" /\ i \in DOMAIN p.recs /\ c = doc[i]
    <3>1. doc[i] # None /\ doc[i] \in CallRecord /\ issued[i] = doc[i].req /\ doc[i].slots \subseteq payload[i]
      BY <1>0, <2>2 DEF DocOK, Issued, Ages, Live
    <3> QED BY <2>2, <3>1 DEF Settled, Alike
  <2> QED BY <1>4, <1>5, <2>1, <2>2
<1>6. ASSUME NEW i \in Ids, NEW c, NEW d, IsCopy(i, c)', IsCopy(i, d)' PROVE Alike(c, d)
  <2>1. Settled(i, c) /\ Settled(i, d) BY <1>5, <1>6
  <2>2. CASE doc[i] # None BY <2>1, <2>2 DEF Settled, Alike
  <2>3. CASE doc[i] = None
    <3>1. IsCopy(i, c) /\ IsCopy(i, d) BY <1>4, <1>6, <2>3
    <3> QED BY <1>0, <3>1 DEF CopiesOK
  <2> QED BY <2>2, <2>3
<1>7. CopiesOK' BY <1>5, <1>6 DEF CopiesOK, Settled, Alike
<1> QED BY <1>1, <1>3, <1>7, QuietStep

\* plan_maintenance takes only calls that may leave.
LEMMA PlanKeeps == ASSUME ArchiveInv, ScopeInv', NEW m \in Maintainers, PlanMaintenance(m) PROVE ArchiveInv' /\ HistoryKept /\ NoneRetired
<1>0. DocOK BY DEF ArchiveInv, ScopeInv
<1>1. UNCHANGED <<dem, doc, issued, ran, old, file, payload>> /\ maint[m].pc = "idle"
  BY DEF PlanMaintenance, history, ghosts
<1>2. ASSUME NEW r \in Reservations, GroupEligible(r),
             maint' = [maint EXCEPT ![m] = [@ EXCEPT !.pc = "prepare", !.plan = Plan("group", r, CallsOf(doc, r))]]
      PROVE  ArchiveInv' /\ HistoryKept /\ NoneRetired
  <2> DEFINE p == Plan("group", r, CallsOf(doc, r))
  <2>1. p.kind = "group" /\ p.res = r /\ DOMAIN p.recs = CallsOf(doc, r) /\ \A i \in CallsOf(doc, r) : p.recs[i] = doc[i]
    BY DEF Plan
  <2>2. \A i \in CallsOf(doc, r) : /\ i \in Ids /\ doc[i] # None /\ ResOf[doc[i].req] = r
                                   /\ doc[i].state \notin {"Queued", "Running"}
                                   /\ doc[i].state = "Uncertain" => dem[ResOf[doc[i].req]].proven
    BY <1>2 DEF GroupEligible, RetirableCall, CallsOf, Live
  <2>3. dem[r].closed BY <1>2 DEF GroupEligible
  <2>4. maint' = [maint EXCEPT ![m] = [@ EXCEPT !.pc = "prepare", !.plan = p]] BY <1>2
  <2> HIDE DEF p
  <2> QED BY <1>1, <2>1, <2>2, <2>3, <2>4, PlanStep
<1>3. ASSUME NEW i \in ActiveTerminal,
             maint' = [maint EXCEPT ![m] = [@ EXCEPT !.pc = "prepare", !.plan = Plan("call", ResOf[doc[i].req], {i})]]
      PROVE  ArchiveInv' /\ HistoryKept /\ NoneRetired
  <2> DEFINE p == Plan("call", ResOf[doc[i].req], {i})
  <2>1. p.kind = "call" /\ p.res = ResOf[doc[i].req] /\ DOMAIN p.recs = {i} /\ p.recs[i] = doc[i] BY DEF Plan
  <2>2. i \in Ids /\ doc[i] # None /\ doc[i] \in CallRecord /\ doc[i].state \in Terminal
    BY <1>0 DEF ActiveTerminal, Live, DocOK
  <2>3. ResOf[doc[i].req] \in Reservations BY <2>2, HistoryAssumption DEF CallRecord
  <2>4. doc[i].state \notin {"Queued", "Running", "Uncertain"} BY <2>2 DEF Terminal
  <2>5. maint' = [maint EXCEPT ![m] = [@ EXCEPT !.pc = "prepare", !.plan = p]] BY <1>3
  <2> HIDE DEF p
  <2> QED BY <1>1, <2>1, <2>2, <2>3, <2>4, <2>5, PlanStep
<1>4. ASSUME maint' = [maint EXCEPT ![m] = [@ EXCEPT !.pc = "prepare", !.plan = Plan("expire", None, {})]]
      PROVE  ArchiveInv' /\ HistoryKept /\ NoneRetired
  <2> DEFINE p == Plan("expire", None, {})
  <2>1. p.kind = "expire" BY DEF Plan
  <2>2. maint' = [maint EXCEPT ![m] = [@ EXCEPT !.pc = "prepare", !.plan = p]] BY <1>4
  <2> HIDE DEF p
  <2> QED BY <1>1, <2>1, <2>2, PlanStep
<1> QED BY <1>2, <1>3, <1>4 DEF PlanMaintenance

-----------------------------------------------------------------------------
\* The record a plan writes for a call, and the entry of its reservation.
ArchiveFor(p, i) ==
    ArchiveOf(i, IF i \in DOMAIN p.recs THEN p.recs[i] ELSE file[CallFile(i)].rec, p.kind = "group")
EntryFor(p) == [calls |-> ReservationArchive(p.res).calls \cup DOMAIN p.recs,
                closed |-> ReservationArchive(p.res).closed \/ p.kind = "group"]

\* Every staged write is that of the reservation or of a part of a call.
LEMMA StagedWrites ==
    ASSUME NEW p, NEW a \in DOMAIN Staged(p)
    PROVE  \/ a = <<2, p.res, 1>> /\ Staged(p)[a] = Write(ReservationFile(p.res), EntryFor(p))
           \/ \E i \in DOMAIN p.recs \cup EarlierCalls(p), k \in 1 .. 3 :
                /\ a = <<IF i \in DOMAIN p.recs THEN 1 ELSE 3, i, k>>
                /\ k \in Parts(ArchiveFor(p, i).rec.req)
                /\ Staged(p)[a] = Write(PartOf(i, ArchiveFor(p, i).rec.req, k), IF k = 1 THEN ArchiveFor(p, i) ELSE i)
<1> DEFINE ids == DOMAIN p.recs
           archive == [i \in ids \cup EarlierCalls(p) |->
               ArchiveOf(i, IF i \in ids THEN p.recs[i] ELSE file[CallFile(i)].rec, p.kind = "group")]
           at == {<<IF i \in ids THEN 1 ELSE 3, i, k>> : i \in DOMAIN archive, k \in 1 .. 3}
           all == {x \in at : x[3] \in Parts(archive[x[2]].rec.req)} \cup {<<2, p.res, 1>>}
           W(x) == IF x[1] = 2 THEN Write(ReservationFile(p.res), EntryFor(p))
                   ELSE Write(PartOf(x[2], archive[x[2]].rec.req, x[3]),
                              IF x[3] = 1 THEN archive[x[2]] ELSE x[2])
<1>1. Staged(p) = [x \in all |-> W(x)] BY DEF Staged, EntryFor
<1>2. \A i \in ids \cup EarlierCalls(p) : archive[i] = ArchiveFor(p, i) BY DEF ArchiveFor
<1>3. DOMAIN archive = ids \cup EarlierCalls(p) OBVIOUS
<1> HIDE DEF archive
<1>4. \A x : W(x) = IF x[1] = 2 THEN Write(ReservationFile(p.res), EntryFor(p))
                    ELSE Write(PartOf(x[2], archive[x[2]].rec.req, x[3]),
                               IF x[3] = 1 THEN archive[x[2]] ELSE x[2])
  OBVIOUS
<1> HIDE DEF W
<1>5. a \in all /\ Staged(p)[a] = W(a) BY <1>1
<1>6. CASE a = <<2, p.res, 1>>
  <2>1. a[1] = 2 BY <1>6
  <2> QED BY <1>4, <1>5, <1>6, <2>1
<1>7. CASE a # <<2, p.res, 1>>
  <2>1. a \in at /\ a[3] \in Parts(archive[a[2]].rec.req) BY <1>5, <1>7
  <2>2. PICK i \in ids \cup EarlierCalls(p), k \in 1 .. 3 : a = <<IF i \in ids THEN 1 ELSE 3, i, k>> BY <1>3, <2>1
  <2>3. a[1] # 2 /\ a[2] = i /\ a[3] = k BY <2>2
  <2>4. Staged(p)[a] = Write(PartOf(i, archive[i].rec.req, k), IF k = 1 THEN archive[i] ELSE i)
    BY <1>4, <1>5, <2>3
  <2> QED BY <1>2, <2>1, <2>2, <2>3, <2>4
<1> QED BY <1>6, <1>7

\* Every part of a planned call is staged, and the entry of the reservation.
LEMMA StagedCovers ==
    ASSUME NEW p
    PROVE  /\ <<2, p.res, 1>> \in DOMAIN Staged(p)
           /\ \A i \in DOMAIN p.recs : \A k \in Parts(ArchiveFor(p, i).rec.req) : <<1, i, k>> \in DOMAIN Staged(p)
<1> DEFINE ids == DOMAIN p.recs
           archive == [i \in ids \cup EarlierCalls(p) |->
               ArchiveOf(i, IF i \in ids THEN p.recs[i] ELSE file[CallFile(i)].rec, p.kind = "group")]
           at == {<<IF i \in ids THEN 1 ELSE 3, i, k>> : i \in DOMAIN archive, k \in 1 .. 3}
<1>1. DOMAIN Staged(p) = {x \in at : x[3] \in Parts(archive[x[2]].rec.req)} \cup {<<2, p.res, 1>>} BY DEF Staged
<1>2. \A i \in ids : i \in DOMAIN archive /\ archive[i] = ArchiveFor(p, i) BY DEF ArchiveFor
<1> HIDE DEF archive
<1>3. ASSUME NEW i \in ids, NEW k \in Parts(ArchiveFor(p, i).rec.req) PROVE <<1, i, k>> \in DOMAIN Staged(p)
  <2>1. k \in 1 .. 3 BY DEF Parts
  <2>2. <<1, i, k>> \in at BY <1>2, <2>1
  <2>3. <<1, i, k>>[3] \in Parts(archive[<<1, i, k>>[2]].rec.req) BY <1>2
  <2> QED BY <1>1, <2>2, <2>3
<1> QED BY <1>1, <1>3

\* What a plan writes for a call is a copy of its record, closed only with its
\* reservation.
LEMMA ArchiveForOK ==
    ASSUME DocOK, FilesOK, CopiesOK, NEW m \in Maintainers, HasPlan(m), PlanOK(m), NEW p, p = maint[m].plan,
           NEW i \in DOMAIN p.recs \cup EarlierCalls(p)
    PROVE  /\ i \in Ids /\ ArchiveFor(p, i) \in ArchiveRecord
           /\ IsCopy(i, ArchiveFor(p, i).rec) /\ issued[i] = ArchiveFor(p, i).rec.req /\ issued[i] # None
           /\ ArchiveFor(p, i).closed => Closable(i)
<1> DEFINE f == file[CallFile(i)]
           e == file[ReservationFile(p.res)]
<1>0. p.res \in Reservations /\ DOMAIN p.recs \subseteq Ids /\ (p.kind = "group" => dem[p.res].closed) BY DEF PlanOK
<1>1. i \in EarlierCalls(p) => e # None /\ i \in e.calls /\ f # None BY DEF EarlierCalls, ReservationArchive
<1>2. i \in EarlierCalls(p) => i \in Ids /\ Entered(p.res, i)
  BY <1>0, <1>1 DEF FilesOK, ReservationRecord
<1>3. i \in Ids BY <1>0, <1>2
<1>4. f # None => f \in ArchiveRecord /\ (f.closed => Closable(i)) BY <1>3 DEF FilesOK
<1>5. i \in DOMAIN p.recs => IsCopy(i, p.recs[i]) BY DEF IsCopy
<1>6. f # None => IsCopy(i, f.rec) BY DEF IsCopy
<1>7. i \in DOMAIN p.recs => p.recs[i] \in CallRecord /\ issued[i] = p.recs[i].req /\ ResOf[p.recs[i].req] = p.res
  BY <1>3, <1>5 DEF CopiesOK, Settled, PlanOK
<1>8. p.kind = "group" => Closable(i)
  <2>1. issued[i] # None /\ ResOf[issued[i]] = p.res BY <1>2, <1>7, HistoryAssumption DEF Entered, CallRecord
  <2> QED BY <1>0, <2>1 DEF Closable
<1> HIDE DEF f
<1>9. CASE f # None
  <2>1. ArchiveFor(p, i) = [f EXCEPT !.closed = @ \/ p.kind = "group"] BY <1>9 DEF ArchiveFor, ArchiveOf, f
  <2>2. PICK b \in BOOLEAN : b = (f.closed \/ p.kind = "group") BY <1>4, <1>9 DEF ArchiveRecord
  <2>3. ArchiveFor(p, i) = [f EXCEPT !.closed = b] BY <2>1, <2>2
  <2>4. ArchiveFor(p, i) \in ArchiveRecord /\ ArchiveFor(p, i).rec = f.rec /\ ArchiveFor(p, i).closed = b
    BY <1>4, <1>9, <2>3 DEF ArchiveRecord
  <2>5. Settled(i, f.rec) BY <1>3, <1>6, <1>9 DEF CopiesOK
  <2>6. issued[i] = f.rec.req /\ issued[i] # None BY <2>5, HistoryAssumption DEF Settled, CallRecord
  <2> QED BY <1>3, <1>4, <1>6, <1>8, <1>9, <2>2, <2>4, <2>6
<1>10. CASE f = None
  <2>1. i \in DOMAIN p.recs BY <1>1, <1>10 DEF f
  <2>2. ArchiveFor(p, i) = [rec |-> p.recs[i], closed |-> p.kind = "group"] BY <1>10, <2>1 DEF ArchiveFor, ArchiveOf, f
  <2>3. ArchiveFor(p, i) \in ArchiveRecord BY <1>7, <2>1, <2>2 DEF ArchiveRecord
  <2>4. issued[i] # None BY <1>7, <2>1, HistoryAssumption DEF CallRecord
  <2>5. ArchiveFor(p, i).rec = p.recs[i] /\ ArchiveFor(p, i).closed = (p.kind = "group") BY <2>2
  <2>6. IsCopy(i, ArchiveFor(p, i).rec) /\ issued[i] = ArchiveFor(p, i).rec.req BY <1>5, <1>7, <2>1, <2>5
  <2> QED BY <1>3, <1>8, <2>3, <2>4, <2>5, <2>6
<1> QED BY <1>9, <1>10

\* The entry of the reservation names calls of the reservation.
LEMMA EntryForOK ==
    ASSUME DocOK, FilesOK, CopiesOK, NEW m \in Maintainers, HasPlan(m), PlanOK(m), NEW p, p = maint[m].plan
    PROVE  EntryFor(p) \in ReservationRecord /\ \A i \in EntryFor(p).calls : Entered(p.res, i)
<1> DEFINE e == ReservationArchive(p.res)
<1>0. p.res \in Reservations /\ DOMAIN p.recs \subseteq Ids BY DEF PlanOK
<1>1. e \in ReservationRecord /\ \A i \in e.calls : Entered(p.res, i)
  BY <1>0 DEF FilesOK, ReservationArchive, ReservationRecord
<1>2. \A i \in DOMAIN p.recs : Entered(p.res, i)
  <2> SUFFICES ASSUME NEW i \in DOMAIN p.recs PROVE Entered(p.res, i) OBVIOUS
  <2>1. IsCopy(i, p.recs[i]) /\ i \in Ids BY <1>0 DEF IsCopy
  <2>2. p.recs[i] \in CallRecord /\ issued[i] = p.recs[i].req BY <2>1 DEF CopiesOK, Settled
  <2>3. ResOf[p.recs[i].req] = p.res BY DEF PlanOK
  <2> QED BY <2>2, <2>3, HistoryAssumption DEF Entered, CallRecord
<1> HIDE DEF e
<1>3. EntryFor(p) = [calls |-> e.calls \cup DOMAIN p.recs, closed |-> e.closed \/ p.kind = "group"] BY DEF EntryFor, e
<1>4. EntryFor(p) \in ReservationRecord BY <1>0, <1>1, <1>3 DEF ReservationRecord
<1> QED BY <1>1, <1>2, <1>3, <1>4

\* What is staged by a plan lies where it belongs.
LEMMA StagedPlaced ==
    ASSUME DocOK, FilesOK, CopiesOK, NEW m \in Maintainers, HasPlan(m), PlanOK(m), NEW p, p = maint[m].plan,
           NEW a \in DOMAIN Staged(p), NEW s, s = Staged(p)[a]
    PROVE  Placed(p.res, a, s)
<1>1. CASE a = <<2, p.res, 1>> /\ Staged(p)[a] = Write(ReservationFile(p.res), EntryFor(p))
  <2>1. s.file = ReservationFile(p.res) /\ s.value = EntryFor(p) BY <1>1 DEF Write
  <2>2. EntryFor(p) \in ReservationRecord /\ \A i \in EntryFor(p).calls : Entered(p.res, i) BY EntryForOK
  <2> QED BY <1>1, <2>1, <2>2 DEF Placed
<1>2. CASE \E i \in DOMAIN p.recs \cup EarlierCalls(p), k \in 1 .. 3 :
             /\ a = <<IF i \in DOMAIN p.recs THEN 1 ELSE 3, i, k>>
             /\ k \in Parts(ArchiveFor(p, i).rec.req)
             /\ Staged(p)[a] = Write(PartOf(i, ArchiveFor(p, i).rec.req, k), IF k = 1 THEN ArchiveFor(p, i) ELSE i)
  <2>1. PICK i \in DOMAIN p.recs \cup EarlierCalls(p), k \in 1 .. 3 :
             /\ a = <<IF i \in DOMAIN p.recs THEN 1 ELSE 3, i, k>>
             /\ k \in Parts(ArchiveFor(p, i).rec.req)
             /\ Staged(p)[a] = Write(PartOf(i, ArchiveFor(p, i).rec.req, k), IF k = 1 THEN ArchiveFor(p, i) ELSE i)
    BY <1>2
  <2>2. /\ i \in Ids /\ ArchiveFor(p, i) \in ArchiveRecord
        /\ issued[i] = ArchiveFor(p, i).rec.req /\ issued[i] # None
        /\ ArchiveFor(p, i).closed => Closable(i)
    BY ArchiveForOK
  <2>3. s.file = PartOf(i, issued[i], k) /\ s.value = IF k = 1 THEN ArchiveFor(p, i) ELSE i BY <2>1, <2>2 DEF Write
  <2>4. \E b \in {1, 3} : a = <<b, i, k>> BY <2>1
  <2>5. k \in Parts(issued[i]) BY <2>1, <2>2
  <2>6. PICK v : v = ArchiveFor(p, i) OBVIOUS
  <2>7. v \in ArchiveRecord /\ (v.closed => Closable(i)) /\ s.value = IF k = 1 THEN v ELSE i BY <2>2, <2>3, <2>6
  <2>8. PICK b \in {1, 3} : a = <<b, i, k>> BY <2>4
  <2> QED BY <2>1, <2>2, <2>3, <2>5, <2>7, <2>8 DEF Placed
<1> QED BY <1>1, <1>2, StagedWrites

\* What expiry removes has passed its retention.
LEMMA RemovalsOld ==
    ASSUME DocOK, FilesOK, CopiesOK, NEW a \in DOMAIN Removals
    PROVE  \/ \E r \in Reservations \cap old : a = <<2, r, 1>> /\ Removals[a] = ReservationFile(r)
           \/ \E i \in Ids \cap old, k \in 0 .. 3 :
                /\ a = <<1, i, k>> /\ issued[i] # None
                /\ k # 0 => k \in Parts(issued[i]) /\ Removals[a] = PartOf(i, issued[i], k)
<1> DEFINE of(i) == file[CallFile(i)].rec.req
           at == {x \in {<<1, i, k>> : i \in ExpiredCalls, k \in 0 .. 3} : x[3] \in {0} \cup Parts(of(x[2]))}
           R(x) == IF x[1] = 2 THEN ReservationFile(x[2])
                   ELSE IF x[3] = 0 THEN <<"payload", x[2]>> ELSE PartOf(x[2], of(x[2]), x[3])
           all == at \cup {<<2, r, 1>> : r \in ExpiredReservations}
<1>1. Removals = [x \in all |-> R(x)] BY DEF Removals
<1>2. \A x : R(x) = IF x[1] = 2 THEN ReservationFile(x[2])
                    ELSE IF x[3] = 0 THEN <<"payload", x[2]>> ELSE PartOf(x[2], of(x[2]), x[3])
  OBVIOUS
<1>3. \A i : of(i) = file[CallFile(i)].rec.req OBVIOUS
<1> HIDE DEF R, of
<1>4. a \in all /\ Removals[a] = R(a) BY <1>1
<1>5. CASE a \in at
  <2>1. PICK i \in ExpiredCalls, k \in 0 .. 3 : a = <<1, i, k>> BY <1>5
  <2>2. a[1] = 1 /\ a[2] = i /\ a[3] = k /\ k \in {0} \cup Parts(of(i)) BY <1>5, <2>1
  <2>3. i \in Ids \cap old /\ file[CallFile(i)] # None BY DEF ExpiredCalls
  <2>4. IsCopy(i, file[CallFile(i)].rec) BY <2>3 DEF IsCopy
  <2>5. of(i) = issued[i] /\ issued[i] # None
    <3>1. Settled(i, file[CallFile(i)].rec) BY <2>3, <2>4 DEF CopiesOK
    <3> QED BY <1>3, <3>1, HistoryAssumption DEF Settled, CallRecord
  <2>6. k # 0 => k \in Parts(issued[i]) /\ R(a) = PartOf(i, issued[i], k) BY <1>2, <2>2, <2>5
  <2> QED BY <1>4, <2>1, <2>3, <2>5, <2>6
<1>6. CASE a \notin at
  <2>1. PICK r \in ExpiredReservations : a = <<2, r, 1>> BY <1>4, <1>6
  <2>2. a[1] = 2 /\ a[2] = r BY <2>1
  <2> QED BY <1>2, <1>4, <2>1, <2>2 DEF ExpiredReservations
<1> QED BY <1>5, <1>6

\* A maintainer that moves and makes no copy that was not there.
LEMMA NoNewCopy ==
    ASSUME UNCHANGED file, NEW m \in Maintainers, \A x \in Maintainers \ {m} : maint'[x] = maint[x],
           \A i \in Ids : HasPlan(m)' /\ i \in DOMAIN maint'[m].plan.recs => IsCopy(i, maint'[m].plan.recs[i]),
           \A i \in Ids, b \in {1, 3} : HasStaged(m)' /\ <<b, i, 1>> \in DOMAIN maint'[m].staged
                                         => IsCopy(i, maint'[m].staged[<<b, i, 1>>].value.rec)
    PROVE  \A i \in Ids : \A c : IsCopy(i, c)' => IsCopy(i, c)
<1> SUFFICES ASSUME NEW i \in Ids, NEW c, IsCopy(i, c)' PROVE IsCopy(i, c) OBVIOUS
<1>1. CASE file[CallFile(i)] # None /\ c = file[CallFile(i)].rec BY <1>1 DEF IsCopy
<1>2. CASE \E x \in Maintainers : HasPlan(x)' /\ i \in DOMAIN maint'[x].plan.recs /\ c = maint'[x].plan.recs[i]
  <2>1. PICK x \in Maintainers : HasPlan(x)' /\ i \in DOMAIN maint'[x].plan.recs /\ c = maint'[x].plan.recs[i] BY <1>2
  <2>2. CASE x = m BY <2>1, <2>2
  <2>3. CASE x # m
    <3>1. maint'[x] = maint[x] /\ HasPlan(x) BY <2>1, <2>3 DEF HasPlan
    <3> QED BY <2>1, <3>1 DEF IsCopy
  <2> QED BY <2>2, <2>3
<1>3. CASE \E x \in Maintainers, b \in {1, 3} :
             /\ HasStaged(x)' /\ <<b, i, 1>> \in DOMAIN maint'[x].staged
             /\ c = maint'[x].staged[<<b, i, 1>>].value.rec
  <2>1. PICK x \in Maintainers, b \in {1, 3} :
             /\ HasStaged(x)' /\ <<b, i, 1>> \in DOMAIN maint'[x].staged
             /\ c = maint'[x].staged[<<b, i, 1>>].value.rec
    BY <1>3
  <2>2. CASE x = m BY <2>1, <2>2
  <2>3. CASE x # m
    <3>1. maint'[x] = maint[x] /\ HasStaged(x) BY <2>1, <2>3 DEF HasStaged
    <3>2. <<b, i, 1>> \in DOMAIN maint[x].staged /\ c = maint[x].staged[<<b, i, 1>>].value.rec BY <2>1, <3>1
    <3> QED BY <3>1, <3>2 DEF IsCopy
  <2> QED BY <2>2, <2>3
<1> QED BY <1>1, <1>2, <1>3 DEF IsCopy, CallFile

\* prepare_maintenance stages all that the commit will rely on.
LEMMA PrepareKeeps == ASSUME ArchiveInv, ScopeInv', NEW m \in Maintainers, PrepareMaintenance(m) PROVE ArchiveInv' /\ HistoryKept /\ NoneRetired
<1>0. /\ DocOK /\ FilesOK /\ CopiesOK /\ MaintInv /\ DOMAIN maint = Maintainers
      /\ DOMAIN maint[m] = {"pc", "plan", "staged"} /\ PlanOK(m)
  BY DEF ArchiveInv, ScopeInv, MaintOK, MaintInv
<1>1. UNCHANGED <<dem, doc, issued, ran, old, file, payload>> /\ maint[m].pc = "prepare"
  BY DEF PrepareMaintenance, history, ghosts
<1>2. Onward /\ \A i \in Ids : Moves(i) BY <1>1 DEF Onward, Moves, Alike
<1>3. CASE maint[m].plan.kind = "expire"
  <2>1. maint' = [maint EXCEPT ![m] = [maint[m] EXCEPT !.pc = "expire", !.staged = Removals]]
    BY <1>3 DEF PrepareMaintenance
  <2>2. PICK st : st = Removals OBVIOUS
  <2>3. maint'[m].pc = "expire" /\ maint'[m].staged = st /\ \A x \in Maintainers \ {m} : maint'[x] = maint[x]
    BY <1>0, <2>1, <2>2
  <2>4. ~HasPlan(m)' /\ ~HasStaged(m)' BY <2>3 DEF HasPlan, HasStaged
  <2>5. PlanOK(m)' /\ StagedOK(m)' /\ Written(m)' BY <2>4 DEF PlanOK, StagedOK, Written
  <2>6. Removing(m)'
    <3>1. ASSUME NEW a \in DOMAIN st
          PROVE  \/ \E r \in Reservations \cap old : a = <<2, r, 1>> /\ st[a] = ReservationFile(r)
                 \/ \E i \in Ids \cap old, k \in 0 .. 3 :
                      /\ a = <<1, i, k>> /\ issued[i] # None
                      /\ k # 0 => k \in Parts(issued[i]) /\ st[a] = PartOf(i, issued[i], k)
      BY <1>0, <2>2, <3>1, RemovalsOld
    <3> QED BY <1>1, <2>3, <3>1 DEF Removing, ReservationFile, PartOf, Parts, CallFile, SubmissionFile, WorkFile, Nested
  <2>7. \A i \in Ids : \A c : IsCopy(i, c)' => IsCopy(i, c) BY <1>1, <2>3, <2>4, NoNewCopy
  <2>8. CopiesOK' BY <1>0, <1>2, <2>7, CopiesKept
  <2> QED BY <1>1, <2>3, <2>5, <2>6, <2>8, QuietStep
<1>4. CASE maint[m].plan.kind # "expire"
  <2> DEFINE p == maint[m].plan
  <2>1. maint' = [maint EXCEPT ![m] = [maint[m] EXCEPT !.pc = "check", !.staged = Staged(p)]]
    BY <1>4 DEF PrepareMaintenance
  <2>2. PICK q, st : q = p /\ st = Staged(p) OBVIOUS
  <2>3. /\ maint'[m].pc = "check" /\ maint'[m].plan = q /\ maint'[m].staged = st
        /\ \A x \in Maintainers \ {m} : maint'[x] = maint[x]
    BY <1>0, <2>1, <2>2
  <2>4. HasPlan(m) /\ HasPlan(m)' /\ HasStaged(m)' BY <1>1, <1>4, <2>2, <2>3 DEF HasPlan, HasStaged
  <2>5. PlanOK(m)' BY <1>0, <1>1, <2>2, <2>3, <2>4 DEF PlanOK
  <2>6. ASSUME NEW i \in DOMAIN q.recs
        PROVE  /\ i \in Ids /\ issued[i] # None /\ IsCopy(i, q.recs[i])
               /\ q.recs[i].req = issued[i] /\ ArchiveFor(q, i).rec.req = issued[i]
    <3>1. i \in Ids /\ IsCopy(i, q.recs[i]) BY <1>0, <2>2, <2>4 DEF IsCopy, PlanOK
    <3>2. q.recs[i].req = issued[i] BY <1>0, <3>1 DEF CopiesOK, Settled
    <3>3. ArchiveFor(q, i).rec.req = issued[i] /\ issued[i] # None BY <1>0, <2>2, <2>4, ArchiveForOK
    <3> QED BY <3>1, <3>2, <3>3
  <2>7. StagedOK(m)'
    <3>1. ASSUME NEW a \in DOMAIN st PROVE Placed(q.res, a, st[a])'
      <4>1. PICK s : s = st[a] OBVIOUS
      <4>2. PICK r : r = q.res OBVIOUS
      <4>3. Placed(r, a, s) BY <1>0, <2>2, <2>4, <4>1, <4>2, StagedPlaced
      <4>4. Placed(r, a, s)' BY <1>0, <1>2, <4>3, PlacedKept
      <4> QED BY <4>1, <4>2, <4>4
    <3>2. q.kind # "expire" BY <1>4, <2>2
    <3> QED BY <2>3, <3>1, <3>2 DEF StagedOK, Placed
  <2>8. Written(m)'
    <3>1. <<2, q.res, 1>> \in DOMAIN st BY <2>2, StagedCovers
    <3>2. ASSUME NEW i \in DOMAIN q.recs, NEW k \in Parts(q.recs[i].req) PROVE <<1, i, k>> \in DOMAIN st
      BY <2>2, <2>6, StagedCovers
    <3> QED BY <2>3, <3>1, <3>2 DEF Written, Parts, Nested
  <2>9. Removing(m)' BY <2>3 DEF Removing
  <2>10. ASSUME NEW i \in Ids, NEW b \in {1, 3}, <<b, i, 1>> \in DOMAIN st
         PROVE  IsCopy(i, st[<<b, i, 1>>].value.rec)
    <3>1. PICK a : a = <<b, i, 1>> OBVIOUS
    <3>2. a \in DOMAIN Staged(q) /\ a # <<2, q.res, 1>> BY <2>2, <2>10, <3>1
    <3>3. PICK j \in DOMAIN q.recs \cup EarlierCalls(q), k \in 1 .. 3 :
             /\ a = <<IF j \in DOMAIN q.recs THEN 1 ELSE 3, j, k>>
             /\ Staged(q)[a] = Write(PartOf(j, ArchiveFor(q, j).rec.req, k), IF k = 1 THEN ArchiveFor(q, j) ELSE j)
      BY <3>2, StagedWrites
    <3>4. j = i /\ k = 1 BY <3>1, <3>3
    <3>5. st[a].value = ArchiveFor(q, i) BY <2>2, <3>3, <3>4 DEF Write
    <3>6. IsCopy(i, ArchiveFor(q, i).rec) BY <1>0, <2>2, <2>4, <3>3, <3>4, ArchiveForOK
    <3> QED BY <3>1, <3>5, <3>6
  <2>11. \A i \in Ids : \A c : IsCopy(i, c)' => IsCopy(i, c) BY <1>1, <2>3, <2>6, <2>10, NoNewCopy
  <2>12. CopiesOK' BY <1>0, <1>2, <2>11, CopiesKept
  <2> QED BY <1>1, <2>3, <2>5, <2>7, <2>8, <2>9, <2>12, QuietStep
<1> QED BY <1>3, <1>4

-----------------------------------------------------------------------------
\* A staged write leaves what stands in the archive, and what it writes stands.
LEMMA WriteKeeps ==
    ASSUME DocOK, FilesOK, Once, NEW r \in Reservations, NEW a, NEW s, Placed(r, a, s),
           file' = [file EXCEPT ![s.file] = s.value], UNCHANGED <<dem, issued, old, payload>>
    PROVE  /\ FilesOK' /\ FilesStay
           /\ \A i \in Ids : file'[CallFile(i)] # file[CallFile(i)]
                => (\E b \in {1, 3} : a = <<b, i, 1>>) /\ file'[CallFile(i)] = s.value
           /\ \A i, k : a = <<1, i, k>> => Stands(i, k)'
           /\ a = <<2, r, 1>> => file'[ReservationFile(r)] # None
<1> USE DEF CallFile, SubmissionFile, WorkFile, ReservationFile
<1>0. s.file \in Files /\ DOMAIN file = Files /\ DOMAIN file' = Files
  <2>1. DOMAIN file = Files /\ DOMAIN file' = Files BY DEF FilesOK
  <2>2. CASE s.file = ReservationFile(r) BY <2>1, <2>2 DEF Files
  <2>3. CASE \E i \in Ids, k \in 1 .. 3 : issued[i] # None /\ k \in Parts(issued[i]) /\ s.file = PartOf(i, issued[i], k)
    <3>1. PICK i \in Ids, k \in 1 .. 3 : issued[i] # None /\ k \in Parts(issued[i]) /\ s.file = PartOf(i, issued[i], k)
      BY <2>3
    <3>2. issued[i] \in Request BY <3>1 DEF DocOK
    <3>3. k = 3 => issued[i] \in Request \ Nested BY <3>1, <3>2 DEF Parts
    <3>4. k = 3 => WorkOf[issued[i]] \in Works BY <3>3 DEF Works
    <3> QED BY <2>1, <3>1, <3>2, <3>4 DEF PartOf, Files
  <2> QED BY <2>1, <2>2, <2>3 DEF Placed
<1>1. \A f \in Files : file'[f] = IF f = s.file THEN s.value ELSE file[f] BY <1>0
<1>2. CASE /\ a = <<2, r, 1>> /\ s.file = ReservationFile(r) /\ s.value \in ReservationRecord
           /\ \A i \in s.value.calls : Entered(r, i)
  <2>0. s.value # None BY <1>2, NoneAssumption
  <2>1. \A i \in Ids : file'[CallFile(i)] = file[CallFile(i)] BY <1>1, <1>2 DEF Files
  <2>2. \A q \in Request : file'[SubmissionFile(q)] = file[SubmissionFile(q)] BY <1>1, <1>2 DEF Files
  <2>3. \A w \in Works : file'[WorkFile(w)] = file[WorkFile(w)] BY <1>1, <1>2 DEF Files
  <2>4. \A x \in Reservations : file'[ReservationFile(x)] = IF x = r THEN s.value ELSE file[ReservationFile(x)]
    BY <1>1, <1>2 DEF Files
  <2>5. FilesOK' BY <1>0, <1>2, <2>1, <2>2, <2>3, <2>4 DEF FilesOK, Closable, Entered, Nested, Files, Works
  <2>6. FilesStay
    <3>1. ASSUME NEW i \in Ids, issued[i] # None, NEW k \in Parts(issued[i]), Stands(i, k) PROVE Stands(i, k)'
      <4>1. issued[i] \in Request /\ (issued[i] \notin Nested => WorkOf[issued[i]] \in Works) BY <3>1 DEF DocOK, Works
      <4>2. k = 3 => issued[i] \notin Nested BY DEF Parts
      <4> QED BY <2>1, <2>2, <2>3, <3>1, <4>1, <4>2 DEF Stands, WorkPerReservation, Nested
    <3> QED BY <2>0, <2>4, <3>1 DEF FilesStay
  <2>7. file'[ReservationFile(r)] # None BY <2>0, <2>4
  <2> QED BY <1>2, <2>1, <2>5, <2>6, <2>7
<1>3. CASE \E i \in Ids, b \in {1, 3}, k \in 1 .. 3 :
             /\ a = <<b, i, k>> /\ issued[i] # None /\ k \in Parts(issued[i])
             /\ s.file = PartOf(i, issued[i], k)
             /\ k = 1 => s.value \in ArchiveRecord /\ (s.value.closed => Closable(i))
             /\ k # 1 => s.value = i
  <2>1. PICK i \in Ids, b \in {1, 3}, k \in 1 .. 3 :
             /\ a = <<b, i, k>> /\ issued[i] # None /\ k \in Parts(issued[i])
             /\ s.file = PartOf(i, issued[i], k)
             /\ k = 1 => s.value \in ArchiveRecord /\ (s.value.closed => Closable(i))
             /\ k # 1 => s.value = i
    BY <1>3
  <2>2. issued[i] \in Request /\ (k = 3 => issued[i] \in Request \ Nested) BY <2>1 DEF DocOK, Parts
  <2>3. \A j \in Ids : file'[CallFile(j)] = IF k = 1 /\ j = i THEN s.value ELSE file[CallFile(j)]
    BY <1>1, <2>1 DEF Files, PartOf
  <2>4. \A q \in Request : file'[SubmissionFile(q)] = IF k = 2 /\ q = issued[i] THEN i ELSE file[SubmissionFile(q)]
    BY <1>1, <2>1 DEF Files, PartOf
  <2>5. \A w \in Works : file'[WorkFile(w)] = IF k = 3 /\ w = WorkOf[issued[i]] THEN i ELSE file[WorkFile(w)]
    BY <1>1, <2>1 DEF Files, PartOf
  <2>6. \A x \in Reservations : file'[ReservationFile(x)] = file[ReservationFile(x)]
    BY <1>1, <2>1 DEF Files, PartOf
  <2>7. FilesOK'
    <3>1. \A j \in Ids : file'[CallFile(j)] # None =>
            file'[CallFile(j)] \in ArchiveRecord /\ (file'[CallFile(j)].closed => Closable(j))
      BY <2>1, <2>3 DEF FilesOK
    <3>2. \A q \in Request : file'[SubmissionFile(q)] # None =>
            file'[SubmissionFile(q)] \in Ids /\ issued[file'[SubmissionFile(q)]] = q
      BY <2>4 DEF FilesOK
    <3>3. \A w \in Works : file'[WorkFile(w)] # None =>
            /\ file'[WorkFile(w)] \in Ids /\ issued[file'[WorkFile(w)]] \in Request \ Nested
            /\ WorkOf[issued[file'[WorkFile(w)]]] = w
      BY <2>2, <2>5 DEF FilesOK
    <3> QED BY <1>0, <2>6, <3>1, <3>2, <3>3 DEF FilesOK, Closable, Entered, Nested, Files, Works
  <2>8. FilesStay
    <3>1. ASSUME NEW j \in Ids, issued[j] # None, NEW n \in Parts(issued[j]), Stands(j, n) PROVE Stands(j, n)'
      <4>1. issued[j] \in Request /\ (issued[j] \notin Nested => WorkOf[issued[j]] \in Works /\ WorkOf[issued[j]] # None)
        BY <3>1 DEF DocOK, Works, Nested
      <4>2. n = 3 => issued[j] \notin Nested BY DEF Parts
      <4>3. issued[j] = issued[i] => j = i BY <2>1, <3>1 DEF Once
      <4>4. WorkPerReservation /\ WorkOf[issued[j]] # None /\ WorkOf[issued[j]] = WorkOf[issued[i]] => j = i
        BY <2>1, <3>1 DEF Once
      <4>5. n = 1 => file'[CallFile(j)] # None BY <2>1, <2>3, <3>1, NoneAssumption DEF Stands
      <4>6. n = 2 => file'[SubmissionFile(issued[j])] = j BY <2>4, <3>1, <4>1, <4>3 DEF Stands
      <4>7. n = 3 /\ WorkPerReservation => file'[WorkFile(WorkOf[issued[j]])] = j
        BY <2>5, <3>1, <4>1, <4>2, <4>4 DEF Stands
      <4> QED BY <4>5, <4>6, <4>7 DEF Stands, WorkPerReservation, Nested
    <3> QED BY <2>6, <3>1 DEF FilesStay
  <2>9. Stands(i, k)'
    <3>1. k = 1 => file'[CallFile(i)] # None BY <2>1, <2>3, NoneAssumption
    <3>2. k = 2 => file'[SubmissionFile(issued[i])] = i BY <2>2, <2>4
    <3>3. k = 3 => file'[WorkFile(WorkOf[issued[i]])] = i BY <2>2, <2>5 DEF Works
    <3> QED BY <3>1, <3>2, <3>3 DEF Stands
  <2>10. \A j \in Ids : file'[CallFile(j)] # file[CallFile(j)] => a = <<b, j, 1>> /\ file'[CallFile(j)] = s.value
    BY <2>1, <2>3
  <2>11. \A j, n : a = <<1, j, n>> => j = i /\ n = k BY <2>1
  <2>12. a # <<2, r, 1>> BY <2>1
  <2> QED BY <2>7, <2>8, <2>9, <2>10, <2>11, <2>12
<1> QED BY <1>2, <1>3 DEF Placed

\* What is removed does not stand for anything within its retention.
LEMMA RemovalKeeps ==
    ASSUME DocOK, FilesOK, Once, UNCHANGED <<dem, issued, old, payload>>, NEW f, file' = [file EXCEPT ![f] = None],
           \/ \E r \in Reservations \cap old : f = ReservationFile(r)
           \/ \E i \in Ids \cap old, k \in 1 .. 3 : issued[i] # None /\ k \in Parts(issued[i]) /\ f = PartOf(i, issued[i], k)
    PROVE  /\ FilesOK' /\ FilesStay
           /\ \A i \in Ids : file'[CallFile(i)] # None => file'[CallFile(i)] = file[CallFile(i)]
<1> USE DEF CallFile, SubmissionFile, WorkFile, ReservationFile
<1>0. DOMAIN file = Files /\ DOMAIN file' = Files BY DEF FilesOK
<1>1. \A x \in Files : file'[x] = IF x = f THEN None ELSE file[x] BY <1>0
<1>2. /\ \A i \in Ids : CallFile(i) \in Files
      /\ \A q \in Request : SubmissionFile(q) \in Files
      /\ \A w \in Works : WorkFile(w) \in Files
      /\ \A r \in Reservations : ReservationFile(r) \in Files
  BY DEF Files
<1>3. FilesOK'
  <2>1. \A i \in Ids : file'[CallFile(i)] # None =>
          file'[CallFile(i)] \in ArchiveRecord /\ (file'[CallFile(i)].closed => Closable(i))
    BY <1>1, <1>2 DEF FilesOK
  <2>2. \A q \in Request : file'[SubmissionFile(q)] # None =>
          file'[SubmissionFile(q)] \in Ids /\ issued[file'[SubmissionFile(q)]] = q
    BY <1>1, <1>2 DEF FilesOK
  <2>3. \A w \in Works : file'[WorkFile(w)] # None =>
          /\ file'[WorkFile(w)] \in Ids /\ issued[file'[WorkFile(w)]] \in Request \ Nested
          /\ WorkOf[issued[file'[WorkFile(w)]]] = w
    BY <1>1, <1>2 DEF FilesOK
  <2>4. \A r \in Reservations : file'[ReservationFile(r)] # None =>
          /\ file'[ReservationFile(r)] \in ReservationRecord
          /\ \A i \in file'[ReservationFile(r)].calls : Entered(r, i)
    BY <1>1, <1>2 DEF FilesOK
  <2> QED BY <1>0, <2>1, <2>2, <2>3, <2>4 DEF FilesOK, Closable, Entered, Nested, Files, Works
<1>4. CASE \E r \in Reservations \cap old : f = ReservationFile(r)
  <2>1. PICK r \in Reservations \cap old : f = ReservationFile(r) BY <1>4
  <2>2. \A x \in Files : x[1] # "reservation" => file'[x] = file[x] BY <1>1, <2>1
  <2>3. ASSUME NEW i \in Ids, issued[i] # None, NEW k \in Parts(issued[i]), Stands(i, k) PROVE Stands(i, k)'
    <3>1. issued[i] \in Request /\ (issued[i] \notin Nested => WorkOf[issued[i]] \in Works) BY <2>3 DEF DocOK, Works
    <3>2. k = 3 => issued[i] \notin Nested BY DEF Parts
    <3> QED BY <1>2, <2>2, <2>3, <3>1, <3>2 DEF Stands, WorkPerReservation, Nested
  <2>4. \A x \in Reservations \ old : file'[ReservationFile(x)] = file[ReservationFile(x)] BY <1>1, <1>2, <2>1
  <2>5. FilesStay BY <2>3, <2>4 DEF FilesStay
  <2> QED BY <1>1, <1>2, <1>3, <2>5
<1>5. CASE \E i \in Ids \cap old, k \in 1 .. 3 : issued[i] # None /\ k \in Parts(issued[i]) /\ f = PartOf(i, issued[i], k)
  <2>1. PICK i \in Ids \cap old, k \in 1 .. 3 : issued[i] # None /\ k \in Parts(issued[i]) /\ f = PartOf(i, issued[i], k)
    BY <1>5
  <2>2. issued[i] \in Request /\ (k = 3 => issued[i] \in Request \ Nested) BY <2>1 DEF DocOK, Parts
  <2>3. ASSUME NEW j \in Ids \ old, issued[j] # None, NEW n \in Parts(issued[j]), Stands(j, n) PROVE Stands(j, n)'
    <3>1. issued[j] \in Request /\ (issued[j] \notin Nested => WorkOf[issued[j]] \in Works /\ WorkOf[issued[j]] # None)
      BY <2>3 DEF DocOK, Works, Nested
    <3>2. n = 3 => issued[j] \notin Nested BY DEF Parts
    <3>3. j # i BY <2>1
    <3>4. issued[j] # issued[i] BY <2>1, <2>3, <3>3 DEF Once
    <3>5. WorkPerReservation /\ WorkOf[issued[j]] # None => WorkOf[issued[j]] # WorkOf[issued[i]]
      BY <2>1, <2>3, <3>3 DEF Once
    <3>6. file'[CallFile(j)] = file[CallFile(j)] BY <1>1, <1>2, <2>1, <3>3 DEF PartOf
    <3>7. file'[SubmissionFile(issued[j])] = file[SubmissionFile(issued[j])]
      BY <1>1, <1>2, <2>1, <3>1, <3>4 DEF PartOf
    <3>8. n = 3 /\ WorkPerReservation => file'[WorkFile(WorkOf[issued[j]])] = file[WorkFile(WorkOf[issued[j]])]
      BY <1>1, <1>2, <2>1, <3>1, <3>2, <3>5 DEF PartOf
    <3> QED BY <2>3, <3>6, <3>7, <3>8 DEF Stands, WorkPerReservation, Nested
  <2>4. \A x \in Reservations : file'[ReservationFile(x)] = file[ReservationFile(x)] BY <1>1, <1>2, <2>1 DEF PartOf
  <2>5. FilesStay BY <2>3, <2>4 DEF FilesStay
  <2> QED BY <1>1, <1>2, <1>3, <2>5
<1> QED BY <1>4, <1>5

\* One write of publish_staged.
LEMMA PublishKeeps == ASSUME ArchiveInv, ScopeInv', NEW m \in Maintainers, Publish(m) PROVE ArchiveInv' /\ HistoryKept /\ NoneRetired
<1>0. /\ DocOK /\ FilesOK /\ CopiesOK /\ MaintInv /\ Once /\ DOMAIN maint = Maintainers
      /\ DOMAIN maint[m] = {"pc", "plan", "staged"} /\ PlanOK(m) /\ StagedOK(m) /\ Written(m)
  BY DEF ArchiveInv, ScopeInv, MaintOK, MaintInv
<1>1. UNCHANGED <<dem, doc, issued, ran, old, payload>> /\ maint[m].pc = "publish"
  BY DEF Publish, ghosts
<1>2. HasStaged(m) /\ HasPlan(m) BY <1>0, <1>1 DEF HasStaged, HasPlan, StagedOK
<1>3. PICK a \in DOMAIN maint[m].staged :
         \/ /\ file' = [file EXCEPT ![maint[m].staged[a].file] = maint[m].staged[a].value]
            /\ maint' = [maint EXCEPT ![m].staged = Without(@, a),
                                      ![m].pc = IF DOMAIN maint[m].staged = {a} THEN "commit" ELSE @]
         \/ maint' = [maint EXCEPT ![m] = Idle] /\ UNCHANGED file
  BY DEF Publish, Leading
<1>4. CASE maint' = [maint EXCEPT ![m] = Idle] /\ UNCHANGED file BY <1>1, <1>4, IdleStep
<1>5. CASE /\ file' = [file EXCEPT ![maint[m].staged[a].file] = maint[m].staged[a].value]
           /\ maint' = [maint EXCEPT ![m].staged = Without(@, a),
                                     ![m].pc = IF DOMAIN maint[m].staged = {a} THEN "commit" ELSE @]
  <2>1. PICK p, st, s : p = maint[m].plan /\ st = maint[m].staged /\ s = st[a] OBVIOUS
  <2>2. PICK pc : pc = IF DOMAIN st = {a} THEN "commit" ELSE "publish" OBVIOUS
  <2>3. /\ maint'[m].plan = p /\ maint'[m].staged = Without(st, a) /\ maint'[m].pc = pc
        /\ \A x \in Maintainers \ {m} : maint'[x] = maint[x]
    BY <1>0, <1>1, <1>5, <2>1, <2>2
  <2>4. DOMAIN Without(st, a) = DOMAIN st \ {a} /\ \A b \in DOMAIN st \ {a} : Without(st, a)[b] = st[b] BY DEF Without
  <2>5. Placed(p.res, a, s) /\ p.res \in Reservations BY <1>0, <1>2, <2>1 DEF StagedOK, PlanOK
  <2>6. PICK r \in Reservations : r = p.res BY <2>5
  <2>7. /\ FilesOK' /\ FilesStay
        /\ \A i \in Ids : file'[CallFile(i)] # file[CallFile(i)]
             => (\E b \in {1, 3} : a = <<b, i, 1>>) /\ file'[CallFile(i)] = s.value
        /\ \A i, k : a = <<1, i, k>> => Stands(i, k)'
        /\ a = <<2, r, 1>> => file'[ReservationFile(r)] # None
    <3>1. Placed(r, a, s) /\ file' = [file EXCEPT ![s.file] = s.value] BY <1>5, <2>1, <2>5, <2>6
    <3> QED BY <1>0, <1>1, <3>1, WriteKeeps
  <2>8. Onward /\ \A i \in Ids : Moves(i) BY <1>1 DEF Onward, Moves, Alike
  <2>9. HasPlan(m)' /\ HasStaged(m)' BY <1>2, <2>1, <2>2, <2>3 DEF HasPlan, HasStaged
  <2>10. PlanOK(m)' BY <1>0, <1>1, <1>2, <2>1, <2>3 DEF PlanOK
  <2>11. StagedOK(m)'
    <3>1. ASSUME NEW b \in DOMAIN st \ {a} PROVE Placed(r, b, Without(st, a)[b])'
      <4>1. PICK x : x = st[b] OBVIOUS
      <4>2. Placed(r, b, x) BY <1>0, <1>2, <2>1, <2>6, <4>1 DEF StagedOK
      <4>3. Placed(r, b, x)' BY <1>0, <2>8, <4>2, PlacedKept
      <4>4. Without(st, a)[b] = x BY <2>4, <4>1
      <4> QED BY <4>3, <4>4 DEF Placed
    <3>2. p.kind # "expire" BY <1>0, <1>2, <2>1 DEF StagedOK
    <3>3. pc = "commit" => DOMAIN Without(st, a) = {} BY <2>2, <2>4
    <3> QED BY <2>3, <2>4, <2>6, <3>1, <3>2, <3>3 DEF StagedOK, Placed
  <2>12. Written(m)'
    <3>1. ASSUME NEW i \in DOMAIN p.recs \ old, NEW k \in Parts(p.recs[i].req), <<1, i, k>> \notin DOMAIN st \ {a}
          PROVE  Stands(i, k)'
      <4>1. CASE <<1, i, k>> = a BY <2>7, <4>1
      <4>2. CASE <<1, i, k>> # a
        <5>1. Stands(i, k) BY <1>0, <1>2, <2>1, <3>1, <4>2 DEF Written
        <5>2. i \in Ids /\ IsCopy(i, p.recs[i]) BY <1>0, <1>2, <2>1, <3>1 DEF PlanOK, IsCopy
        <5>3. issued[i] = p.recs[i].req /\ issued[i] # None
          BY <1>0, <5>2, HistoryAssumption DEF CopiesOK, Settled, CallRecord
        <5> QED BY <1>1, <2>7, <3>1, <5>1, <5>2, <5>3 DEF FilesStay
      <4> QED BY <4>1, <4>2
    <3>2. r \in old \/ <<2, r, 1>> \in DOMAIN st \ {a} \/ file'[ReservationFile(r)] # None
      BY <1>0, <1>1, <1>2, <2>1, <2>6, <2>7 DEF Written, FilesStay
    <3> QED BY <1>1, <2>3, <2>4, <2>6, <3>1, <3>2 DEF Written, Parts, Nested, Stands, CallFile, SubmissionFile, WorkFile, ReservationFile
  <2>13. Removing(m)' BY <2>2, <2>3 DEF Removing
  <2>14. \A i \in Ids : \A c : IsCopy(i, c)' => IsCopy(i, c)
    <3> SUFFICES ASSUME NEW i \in Ids, NEW c, IsCopy(i, c)' PROVE IsCopy(i, c) OBVIOUS
    <3>0. \A x \in Maintainers : /\ HasPlan(x)' => HasPlan(x) /\ maint'[x].plan = maint[x].plan
                                 /\ HasStaged(x)' => HasStaged(x)
      BY <1>2, <2>1, <2>3 DEF HasPlan, HasStaged
    <3>1. CASE file'[CallFile(i)] # None /\ c = file'[CallFile(i)].rec
      <4>1. CASE file'[CallFile(i)] = file[CallFile(i)] BY <3>1, <4>1 DEF IsCopy
      <4>2. CASE file'[CallFile(i)] # file[CallFile(i)]
        <5>1. PICK b \in {1, 3} : a = <<b, i, 1>> BY <2>7, <4>2
        <5>2. c = maint[m].staged[<<b, i, 1>>].value.rec /\ <<b, i, 1>> \in DOMAIN maint[m].staged
          BY <2>1, <2>7, <3>1, <4>2, <5>1
        <5> QED BY <1>2, <5>2 DEF IsCopy
      <4> QED BY <4>1, <4>2
    <3>2. CASE \E x \in Maintainers : HasPlan(x)' /\ i \in DOMAIN maint'[x].plan.recs /\ c = maint'[x].plan.recs[i]
      BY <3>0, <3>2 DEF IsCopy
    <3>3. CASE \E x \in Maintainers, b \in {1, 3} :
                 /\ HasStaged(x)' /\ <<b, i, 1>> \in DOMAIN maint'[x].staged
                 /\ c = maint'[x].staged[<<b, i, 1>>].value.rec
      <4>1. PICK x \in Maintainers, b \in {1, 3} :
                 /\ HasStaged(x)' /\ <<b, i, 1>> \in DOMAIN maint'[x].staged
                 /\ c = maint'[x].staged[<<b, i, 1>>].value.rec
        BY <3>3
      <4>2. PICK at : at = <<b, i, 1>> OBVIOUS
      <4>3. at \in DOMAIN maint[x].staged /\ maint'[x].staged[at] = maint[x].staged[at]
        <5>1. CASE x = m BY <2>1, <2>3, <2>4, <4>1, <4>2, <5>1
        <5>2. CASE x # m BY <2>3, <4>1, <4>2, <5>2
        <5> QED BY <5>1, <5>2
      <4>4. HasStaged(x) /\ c = maint[x].staged[at].value.rec BY <3>0, <4>1, <4>2, <4>3
      <4> QED BY <4>2, <4>3, <4>4 DEF IsCopy
    <3> QED BY <3>1, <3>2, <3>3 DEF IsCopy, CallFile
  <2>15. CopiesOK' BY <1>0, <2>8, <2>14, CopiesKept
  <2>16. \A i \in Ids : file'[CallFile(i)] # None => IsCopy(i, file'[CallFile(i)].rec) BY <2>14 DEF IsCopy, CallFile
  <2> QED BY <1>1, <2>3, <2>7, <2>10, <2>11, <2>12, <2>13, <2>15, <2>16, MaintenanceStep
<1> QED BY <1>3, <1>4, <1>5

\* One removal of expire() takes the files of what is past its retention.
LEMMA ExpireKeeps == ASSUME ArchiveInv, ScopeInv', NEW m \in Maintainers, ExpireStep(m) PROVE ArchiveInv' /\ HistoryKept /\ NoneRetired
<1>0. /\ DocOK /\ FilesOK /\ CopiesOK /\ MaintInv /\ Once /\ Ages /\ DOMAIN maint = Maintainers
      /\ DOMAIN maint[m] = {"pc", "plan", "staged"} /\ Removing(m)
  BY DEF ArchiveInv, ScopeInv, MaintOK, MaintInv
<1>1. UNCHANGED <<dem, doc, issued, ran, old>> /\ maint[m].pc = "expire" BY DEF ExpireStep, ghosts
<1>2. CASE maint' = [maint EXCEPT ![m] = Idle] /\ UNCHANGED <<file, payload>> BY <1>1, <1>2, IdleStep
<1>3. ASSUME NEW a \in DOMAIN maint[m].staged,
             maint' = [maint EXCEPT ![m].staged = Without(@, a)],
             IF a[1] = 1 /\ a[3] = 0
             THEN payload' = [payload EXCEPT ![a[2]] = {}] /\ UNCHANGED file
             ELSE file' = [file EXCEPT ![maint[m].staged[a]] = None] /\ UNCHANGED payload
      PROVE  ArchiveInv' /\ HistoryKept /\ NoneRetired
  <2>1. PICK st : st = maint[m].staged OBVIOUS
  <2>2. /\ maint'[m].staged = Without(st, a) /\ maint'[m].pc = "expire"
        /\ \A x \in Maintainers \ {m} : maint'[x] = maint[x]
    BY <1>0, <1>1, <1>3, <2>1
  <2>3. DOMAIN Without(st, a) = DOMAIN st \ {a} /\ \A b \in DOMAIN st \ {a} : Without(st, a)[b] = st[b] BY DEF Without
  <2>4. ~HasPlan(m)' /\ ~HasStaged(m)' BY <2>2 DEF HasPlan, HasStaged
  <2>5. PlanOK(m)' /\ StagedOK(m)' /\ Written(m)' BY <2>4 DEF PlanOK, StagedOK, Written
  <2>6. Removing(m)'
    <3>1. ASSUME NEW b \in DOMAIN st \ {a}
          PROVE  \/ \E r \in Reservations \cap old : b = <<2, r, 1>> /\ st[b] = ReservationFile(r)
                 \/ \E i \in Ids \cap old, k \in 0 .. 3 :
                      /\ b = <<1, i, k>> /\ issued[i] # None
                      /\ k # 0 => k \in Parts(issued[i]) /\ st[b] = PartOf(i, issued[i], k)
      BY <1>0, <1>1, <2>1 DEF Removing
    <3> QED BY <1>1, <2>2, <2>3, <3>1 DEF Removing, ReservationFile, PartOf, Parts, CallFile, SubmissionFile, WorkFile, Nested
  <2>7. Onward /\ \A i \in Ids \ old : payload'[i] = payload[i]
    <3>1. \A i \in Ids \ old : payload'[i] = payload[i]
      <4>1. CASE a[1] = 1 /\ a[3] = 0
        <5>1. a[2] \in old
          <6>1. CASE \E r \in Reservations \cap old : a = <<2, r, 1>> BY <4>1, <6>1
          <6>2. CASE \E i \in Ids \cap old, k \in 0 .. 3 : a = <<1, i, k>> BY <6>2
          <6> QED BY <1>0, <1>1, <1>3, <6>1, <6>2 DEF Removing
        <5> QED BY <1>0, <1>3, <4>1, <5>1 DEF FilesOK
      <4>2. CASE ~(a[1] = 1 /\ a[3] = 0) BY <1>3, <4>2
      <4> QED BY <4>1, <4>2
    <3> QED BY <1>1, <3>1 DEF Onward
  <2>8. /\ FilesOK' /\ FilesStay /\ \A i \in Ids : file'[CallFile(i)] # None => file'[CallFile(i)] = file[CallFile(i)]
    <3>1. CASE UNCHANGED file
      <4>1. payload' \in [Ids -> SUBSET Slots] BY <1>0, <1>3 DEF FilesOK
      <4>2. old' \subseteq Ids \cup Reservations BY <1>0, <1>1 DEF FilesOK
      <4>3. FilesOK' BY <1>0, <2>7, <3>1, <4>1, <4>2, FilesKept
      <4>4. FilesStay BY <1>1, <3>1 DEF FilesStay, Stands, CallFile, SubmissionFile, WorkFile, ReservationFile
      <4> QED BY <3>1, <4>3, <4>4
    <3>2. CASE ~UNCHANGED file
      <4>1. PICK f : f = st[a] OBVIOUS
      <4>2. file' = [file EXCEPT ![f] = None] /\ UNCHANGED payload /\ ~(a[1] = 1 /\ a[3] = 0)
        BY <1>3, <2>1, <3>2, <4>1
      <4>3. \/ \E r \in Reservations \cap old : f = ReservationFile(r)
            \/ \E i \in Ids \cap old, k \in 1 .. 3 : issued[i] # None /\ k \in Parts(issued[i]) /\ f = PartOf(i, issued[i], k)
        <5>1. CASE \E r \in Reservations \cap old : a = <<2, r, 1>> /\ maint[m].staged[a] = ReservationFile(r)
          BY <2>1, <4>1, <5>1
        <5>2. CASE \E i \in Ids \cap old, k \in 0 .. 3 :
                     /\ a = <<1, i, k>> /\ issued[i] # None
                     /\ k # 0 => k \in Parts(issued[i]) /\ maint[m].staged[a] = PartOf(i, issued[i], k)
          <6>1. PICK i \in Ids \cap old, k \in 0 .. 3 :
                     /\ a = <<1, i, k>> /\ issued[i] # None
                     /\ k # 0 => k \in Parts(issued[i]) /\ maint[m].staged[a] = PartOf(i, issued[i], k)
            BY <5>2
          <6>2. k # 0 BY <4>2, <6>1
          <6> QED BY <2>1, <4>1, <6>1, <6>2
        <5> QED BY <1>0, <1>1, <5>1, <5>2 DEF Removing
      <4> QED BY <1>0, <1>1, <4>2, <4>3, RemovalKeeps
    <3> QED BY <3>1, <3>2
  <2>9. CopiesOK'
    <3>1. \A x \in Maintainers : /\ HasPlan(x)' => HasPlan(x) /\ maint'[x] = maint[x]
                                 /\ HasStaged(x)' => HasStaged(x) /\ maint'[x] = maint[x]
      BY <2>2, <2>4 DEF HasPlan, HasStaged
    <3>2. \A i \in Ids : \A c : IsCopy(i, c)' => IsCopy(i, c)
      BY <2>8, <3>1 DEF IsCopy, CallFile
    <3>3. \A i \in Ids : issued[i] # None => Moves(i) BY <1>1, <2>7 DEF Moves, Alike
    <3> QED BY <1>0, <2>7, <3>2, <3>3, CopiesKept
  <2>10. \A i \in Ids : file'[CallFile(i)] # None => IsCopy(i, file'[CallFile(i)].rec) BY <2>8 DEF IsCopy
  <2> QED BY <1>1, <2>2, <2>5, <2>6, <2>7, <2>8, <2>9, <2>10, MaintenanceStep
<1> QED BY <1>2, <1>3 DEF ExpireStep, Leading

-----------------------------------------------------------------------------
\* A step that neither writes a file nor makes a copy.
LEMMA UnwrittenStep ==
    ASSUME ArchiveInv, UNCHANGED <<file, payload, issued>>, Onward, old' \subseteq Ids \cup Reservations,
           \A i \in Ids : Moves(i), \A i \in Ids : \A c : IsCopy(i, c)' => IsCopy(i, c),
           \A m \in Maintainers : maint'[m] = maint[m] \/ maint'[m] = Idle
    PROVE  FilesOK' /\ CopiesOK' /\ MaintInv' /\ Once' /\ HistoryKept
<1>0. DocOK /\ FilesOK /\ CopiesOK /\ MaintInv /\ Once BY DEF ArchiveInv, ScopeInv
<1>1. FilesOK'
  <2>1. payload' \in [Ids -> SUBSET Slots] BY <1>0 DEF FilesOK
  <2> QED BY <1>0, <2>1, FilesKept
<1>2. CopiesOK' BY <1>0, CopiesKept
<1>3. FilesStay BY DEF FilesStay, Stands, CallFile, SubmissionFile, WorkFile, ReservationFile
<1>4. MaintInv'
  <2> SUFFICES ASSUME NEW m \in Maintainers PROVE PlanOK(m)' /\ StagedOK(m)' /\ Written(m)' /\ Removing(m)'
    BY DEF MaintInv
  <2>1. CASE maint'[m] = maint[m] BY <1>0, <1>3, <2>1, OthersKept
  <2>2. CASE maint'[m] = Idle BY <2>2, IdleOK
  <2> QED BY <2>1, <2>2
<1>5. Once' BY <1>0 DEF Once
<1>6. HistoryKept BY DEF HistoryKept, IsCopy
<1> QED BY <1>1, <1>2, <1>4, <1>5, <1>6

\* A call leaves the document when everything its record is found by stands.
LEMMA CommitKeeps == ASSUME ArchiveInv, ScopeInv', NEW m \in Maintainers, CommitMaintenance(m) PROVE ArchiveInv' /\ HistoryKept
<1>0. /\ DocOK /\ FilesOK /\ CopiesOK /\ MaintInv /\ Ages /\ Indexed /\ DOMAIN maint = Maintainers
      /\ PlanOK(m) /\ StagedOK(m) /\ Written(m) /\ dem \in [Reservations -> DemandRecord]
  BY DEF ArchiveInv, ScopeInv, MaintOK, MaintInv, DocOK
<1>1. UNCHANGED <<issued, ran, old, file, payload>> /\ maint[m].pc = "commit" /\ maint' = [maint EXCEPT ![m] = Idle]
  BY DEF CommitMaintenance, history, ghosts
<1>2. HasStaged(m) /\ HasPlan(m) /\ DOMAIN maint[m].staged = {} BY <1>0, <1>1 DEF HasStaged, HasPlan, StagedOK
<1>3. PICK p : p = maint[m].plan OBVIOUS
<1>4. CASE UNCHANGED <<dem, doc>> BY <1>1, <1>4, IdleStep
<1>5. CASE /\ doc' = [i \in Ids |-> IF i \in DOMAIN p.recs THEN None ELSE doc[i]]
           /\ \/ p.kind = "group" /\ dem' = [dem EXCEPT ![p.res].state = "Gone"]
              \/ UNCHANGED dem
  <2>1. \A r \in Reservations :
          /\ dem'[r].closed = dem[r].closed /\ dem'[r].proven = dem[r].proven /\ dem'[r].accepted = dem[r].accepted
          /\ dem'[r].state = dem[r].state \/ r = p.res
    <3>1. PICK d \in DemandRecord : d = dem[p.res] BY <1>0, <1>2, <1>3 DEF PlanOK
    <3>2. UNCHANGED dem \/ dem' = [dem EXCEPT ![p.res] = [d EXCEPT !.state = "Gone"]] BY <1>0, <1>5, <3>1
    <3> QED BY <1>0, <3>1, <3>2 DEF DemandRecord
  <2>2. Onward /\ \A i \in Ids : Moves(i) /\ (doc'[i] # None => doc'[i] = doc[i])
    BY <1>1, <1>5, <2>1 DEF Onward, Moves, Alike
  <2>3. maint'[m] = Idle /\ \A x \in Maintainers \ {m} : maint'[x] = maint[x] BY <1>0, <1>1
  <2>4. \A i \in Ids : \A c : IsCopy(i, c)' => IsCopy(i, c)
    <3>1. ~HasPlan(m)' /\ ~HasStaged(m)' BY <2>3 DEF Idle, HasPlan, HasStaged
    <3>2. \A x \in Maintainers : HasPlan(x)' => HasPlan(x) /\ maint'[x] = maint[x] BY <2>3, <3>1 DEF HasPlan
    <3>3. \A x \in Maintainers : HasStaged(x)' => HasStaged(x) /\ maint'[x] = maint[x] BY <2>3, <3>1 DEF HasStaged
    <3> QED BY <1>1, <3>2, <3>3 DEF IsCopy, CallFile
  <2>5. FilesOK' /\ CopiesOK' /\ MaintInv' /\ Once' /\ HistoryKept
    <3>1. old' \subseteq Ids \cup Reservations BY <1>0, <1>1 DEF FilesOK
    <3> QED BY <1>1, <2>2, <2>3, <2>4, <3>1, UnwrittenStep
  <2>6. Ages'
    <3>1. \A i \in Ids \cap old : doc'[i] = None /\ Closable(i)' BY <1>0, <2>2, OnwardCall DEF Ages, Closable
    <3>2. \A i \in Ids : issued[i] # None => dem'[ResOf[issued[i]]].accepted
      BY <1>0, <2>1, <2>2, OnwardCall DEF Ages
    <3> QED BY <1>0, <1>1, <2>2, <3>1, <3>2 DEF Ages
  <2>7. Indexed'
    <3>1. ASSUME NEW i \in Ids, issued[i] # None, i \notin old, doc'[i] = None, NEW k \in Parts(issued[i])
          PROVE  Stands(i, k)
      <4>1. CASE doc[i] = None BY <1>0, <3>1, <4>1 DEF Indexed
      <4>2. CASE doc[i] # None
        <5>1. i \in DOMAIN p.recs BY <1>5, <3>1, <4>2
        <5>2. IsCopy(i, p.recs[i]) BY <1>2, <1>3, <5>1 DEF IsCopy
        <5>3. p.recs[i].req = issued[i] BY <1>0, <5>2 DEF CopiesOK, Settled
        <5> QED BY <1>0, <1>2, <1>3, <3>1, <5>1, <5>3 DEF Written
      <4> QED BY <4>1, <4>2
    <3>2. ASSUME NEW r \in Reservations, dem'[r].state = "Gone", r \notin old PROVE file[ReservationFile(r)] # None
      <4>1. CASE r = p.res BY <1>0, <1>2, <1>3, <3>2, <4>1 DEF Written
      <4>2. CASE r # p.res BY <1>0, <2>1, <3>2, <4>2 DEF Indexed
      <4> QED BY <4>1, <4>2
    <3> QED BY <1>1, <3>1, <3>2 DEF Indexed, Parts, Nested, Stands, CallFile, SubmissionFile, WorkFile, ReservationFile
  <2> QED BY <2>5, <2>6, <2>7 DEF ArchiveInv
<1> QED BY <1>3, <1>4, <1>5 DEF CommitMaintenance

\* Only what is closed grows old.
LEMMA AgeKeeps == ASSUME ArchiveInv, ScopeInv', NEW x \in Ids \cup Reservations, Age(x) PROVE ArchiveInv' /\ HistoryKept /\ NoneRetired
<1>0. DocOK /\ FilesOK /\ Ages /\ Indexed BY DEF ArchiveInv, ScopeInv
<1>1. UNCHANGED <<dem, doc, file, payload, maint, issued, ran>> /\ old' = old \cup {x} BY DEF Age, ghosts
<1>2. Onward /\ \A i \in Ids : Moves(i) BY <1>1 DEF Onward, Moves, Alike
<1>3. \A i \in Ids : \A c : IsCopy(i, c)' => IsCopy(i, c) BY <1>1 DEF IsCopy, HasPlan, HasStaged, CallFile
<1>4. FilesOK' /\ CopiesOK' /\ MaintInv' /\ Once' /\ HistoryKept
  <2>1. old' \subseteq Ids \cup Reservations BY <1>0, <1>1 DEF FilesOK
  <2> QED BY <1>1, <1>2, <1>3, <2>1, UnwrittenStep
<1>5. Ages'
  <2>1. x \in Ids => doc[x] = None /\ Closable(x)
    BY <1>0 DEF Age, FilesOK
  <2>2. \A i \in Ids \cap old' : doc[i] = None /\ Closable(i) BY <1>0, <1>1, <2>1 DEF Ages
  <2> QED BY <1>0, <1>1, <2>2 DEF Ages, Closable
<1>6. Indexed' BY <1>0, <1>1 DEF Indexed, Parts, Nested, Stands, CallFile, SubmissionFile, WorkFile, ReservationFile
<1>7. NoneRetired BY <1>1 DEF NoneRetired
<1> QED BY <1>4, <1>5, <1>6, <1>7 DEF ArchiveInv

\* A crash costs the maintainers their plans, and no file.
LEMMA RestartKeeps == ASSUME ArchiveInv, ScopeInv', Restart PROVE ArchiveInv' /\ HistoryKept /\ NoneRetired
<1>0. DocOK /\ FilesOK /\ Ages /\ Indexed /\ doc \in [Ids -> CallRecord \cup {None}] BY DEF ArchiveInv, ScopeInv, DocOK
<1>1. UNCHANGED <<dem, file, payload, old, issued, ran>> /\ \A m \in Maintainers : maint'[m] = Idle
  BY DEF Restart, history, ghosts
<1>2. ASSUME NEW i \in Ids
      PROVE  /\ Moves(i) /\ (doc'[i] = None <=> doc[i] = None)
             /\ doc'[i] # None => doc'[i].slots = doc[i].slots
  <2>1. doc'[i] = IF doc[i] # None /\ doc[i].state = "Running"
                  THEN [doc[i] EXCEPT !.state = "Uncertain", !.cause = "restart"] ELSE doc[i]
    BY DEF Restart
  <2>2. CASE doc[i] # None /\ doc[i].state = "Running"
    <3>1. PICK c \in CallRecord : c = doc[i] BY <1>0, <2>2
    <3>2. doc'[i] = [c EXCEPT !.state = "Uncertain", !.cause = "restart"] BY <2>1, <2>2, <3>1
    <3>3. doc'[i] \in CallRecord /\ doc'[i].slots = c.slots BY <3>2 DEF CallRecord
    <3>4. doc'[i] # None BY <3>3, NoneAssumption
    <3> QED BY <1>1, <2>2, <3>1, <3>3, <3>4 DEF Moves
  <2>3. CASE ~(doc[i] # None /\ doc[i].state = "Running") BY <1>1, <2>1, <2>3 DEF Moves, Alike
  <2> QED BY <2>2, <2>3
<1>3. Onward BY <1>1 DEF Onward
<1>4. \A i \in Ids : \A c : IsCopy(i, c)' => IsCopy(i, c)
  <2>1. \A m \in Maintainers : ~HasPlan(m)' /\ ~HasStaged(m)' BY <1>1 DEF Idle, HasPlan, HasStaged
  <2> QED BY <1>1, <2>1 DEF IsCopy, CallFile
<1>5. FilesOK' /\ CopiesOK' /\ MaintInv' /\ Once' /\ HistoryKept
  <2>1. old' \subseteq Ids \cup Reservations BY <1>0, <1>1 DEF FilesOK
  <2> QED BY <1>1, <1>2, <1>3, <1>4, <2>1, UnwrittenStep
<1>6. Ages' BY <1>0, <1>1, <1>2 DEF Ages, Closable
<1>7. Indexed'
  BY <1>0, <1>1, <1>2 DEF Indexed, Parts, Nested, Stands, CallFile, SubmissionFile, WorkFile, ReservationFile
<1>8. NoneRetired BY <1>2 DEF NoneRetired
<1> QED BY <1>5, <1>6, <1>7, <1>8 DEF ArchiveInv

\* The archive's invariant holds at the start and is kept by every step.
LEMMA ArchiveInit == Init => ArchiveInv
<1> SUFFICES ASSUME Init PROVE ArchiveInv OBVIOUS
<1>1. ScopeInv BY ScopeInit
<1>2. /\ \A f \in Files : file[f] = None
      /\ \A i \in Ids : doc[i] = None /\ issued[i] = None /\ payload[i] = {}
      /\ DOMAIN file = Files /\ payload \in [Ids -> SUBSET Slots] /\ old = {} /\ ran = {}
      /\ \A m \in Maintainers : maint[m].pc = "idle"
      /\ \A r \in Reservations : dem[r].state = "Ready"
  BY DEF Init, Idle
<1>3. \A m \in Maintainers : ~HasPlan(m) /\ ~HasStaged(m) BY <1>2 DEF HasPlan, HasStaged
<1>4. \A i \in Ids : file[CallFile(i)] = None BY <1>2 DEF Files
<1>5. FilesOK BY <1>2 DEF FilesOK, Files
<1>6. CopiesOK BY <1>3, <1>4 DEF CopiesOK, IsCopy
<1>7. MaintInv BY <1>2, <1>3 DEF MaintInv, PlanOK, StagedOK, Written, Removing
<1>8. Once /\ Ages BY <1>2 DEF Once, Ages
<1>9. Indexed BY <1>2 DEF Indexed
<1> QED BY <1>1, <1>5, <1>6, <1>7, <1>8, <1>9 DEF ArchiveInv

LEMMA ArchiveNext ==
    ASSUME ArchiveInv, [Next]_vars
    PROVE  ArchiveInv' /\ HistoryKept /\ (NoneRetired \/ \E m \in Maintainers : CommitMaintenance(m))
<1>1. ScopeInv' BY ScopeNext DEF ArchiveInv
<1>2. ASSUME NEW t \in Threads, SubmitLookup(t) \/ Accept(t) \/ \E q \in Request : SubmitRead(t, q) \/ GatewaySubmit(t, q)
      PROVE  ArchiveInv' /\ HistoryKept /\ NoneRetired
  <2>1. CASE Accept(t) BY <1>1, <2>1, AcceptKeeps
  <2>2. CASE SubmitLookup(t) BY <1>1, <2>2, ReadsKeep DEF SubmitLookup, history, ghosts
  <2>3. ASSUME NEW q \in Request, SubmitRead(t, q) \/ GatewaySubmit(t, q) PROVE ArchiveInv' /\ HistoryKept /\ NoneRetired
    BY <1>1, <2>3, ReadsKeep DEF SubmitRead, GatewaySubmit, history, ghosts
  <2> QED BY <1>2, <2>1, <2>2, <2>3
<1>3. ASSUME NEW i \in Ids, \/ CancelInvocation(i) \/ ScopeOpen(i) \/ ScopeClose(i) \/ ScopeLate(i)
                            \/ Dispatch(i) \/ DispatchExpire(i) \/ ReconcileChildren(i) \/ PersistAnalysis(i)
      PROVE  ArchiveInv' /\ HistoryKept /\ NoneRetired
  BY <1>1, <1>3, CallsKeep
<1>4. ASSUME NEW i \in Ids, Complete(i) PROVE ArchiveInv' /\ HistoryKept /\ NoneRetired BY <1>1, <1>4, CompleteKeeps
<1>5. CASE TickCancel
  <2>1. 1 \in Ids BY HistoryAssumption DEF Ids
  <2> QED BY <1>1, <1>5, <2>1, CallsKeep
<1>6. ASSUME NEW r \in Reservations,
             (\E x \in BOOLEAN : Close(r, x)) \/ Retire(r) \/ Quarantine(r) \/ RecoveryPrepare(r) \/ RecoveryFinish(r)
      PROVE  ArchiveInv' /\ HistoryKept /\ NoneRetired
  BY <1>1, <1>6, DemandsKeep
<1>7. ASSUME NEW m \in Maintainers, Maintain(m)
      PROVE  ArchiveInv' /\ HistoryKept /\ (NoneRetired \/ CommitMaintenance(m))
  BY <1>1, <1>7, PlanKeeps, PrepareKeeps, CheckKeeps, PublishKeeps, CommitKeeps, ExpireKeeps DEF Maintain
<1>8. ASSUME NEW x \in Ids \cup Reservations, Age(x) PROVE ArchiveInv' /\ HistoryKept /\ NoneRetired BY <1>1, <1>8, AgeKeeps
<1>9. CASE Restart BY <1>1, <1>9, RestartKeeps
<1>10. CASE UNCHANGED vars BY <1>1, <1>10, ReadsKeep DEF vars
<1> QED BY <1>2, <1>3, <1>4, <1>5, <1>6, <1>7, <1>8, <1>9, <1>10 DEF Next, Client, Runtime, Time

-----------------------------------------------------------------------------
(* What a report says *)

\* A record by which a work is reported: that of its call, settled, and no copy
\* of it says anything else.
Reported(w, j, c) ==
    /\ j \in Ids /\ issued[j] # None /\ WorkOf[issued[j]] = w
    /\ c \in CallRecord /\ c.req = issued[j] /\ c.state \notin {"Queued", "Running"}
    /\ doc[j] # None => Alike(c, doc[j])
    /\ \A d : IsCopy(j, d) => Alike(c, d)

\* Two records that agree are reported alike.
LEMMA OutcomeSame ==
    ASSUME NEW c, NEW d, c.req = d.req, Alike(c, d)
    PROVE  Outcome(c) = Outcome(d)
BY DEF Outcome, OutcomeCategory, Evidence, ReviewPacket, AttemptKnown, Alike

\* What is reported as over is reported by such a record.
LEMMA ReportedRecord ==
    ASSUME ArchiveInv, NEW w \in Works, NEW s \in Report(w), s.outcome.terminal
    PROVE  \E c : Reported(w, s.call, c) /\ s = [call |-> s.call, outcome |-> Outcome(c)]
<1>0. /\ DocOK /\ Issued /\ FilesOK /\ CopiesOK /\ w # None BY HistoryAssumption DEF ArchiveInv, ScopeInv, Works, Nested
<1>1. PICK x \in Snapshots(w) : s = [call |-> x.call, outcome |-> Outcome(x.rec)] BY DEF Report
<1>2. s.call = x.call /\ x.rec.state \notin {"Queued", "Running"} BY <1>1 DEF Outcome
<1>3. CASE FindWork(doc, w) # {}
  <2>1. PICK j \in FindWork(doc, w) : x = [call |-> j, rec |-> doc[j]] BY <1>3 DEF Snapshots
  <2>2. j \in Ids /\ doc[j] # None /\ WorkOf[doc[j].req] = w BY <2>1 DEF FindWork, Live
  <2>3. doc[j] \in CallRecord /\ issued[j] = doc[j].req /\ issued[j] # None
    BY <1>0, <2>2, HistoryAssumption DEF DocOK, Issued, Live, CallRecord
  <2>4. \A d : IsCopy(j, d) => Alike(doc[j], d) BY <1>0, <2>2 DEF CopiesOK, Settled, Alike
  <2>5. Reported(w, j, doc[j]) BY <1>2, <2>1, <2>2, <2>3, <2>4 DEF Reported, Alike
  <2> QED BY <1>1, <1>2, <2>1, <2>5
<1>4. CASE FindWork(doc, w) = {}
  <2> DEFINE i == file[WorkFile(w)]
             c == file[CallFile(i)].rec
  <2>1. LookupWork(w) /\ x = [call |-> i, rec |-> c] BY <1>4 DEF Snapshots
  <2>2. i # None /\ file[CallFile(i)] # None BY <2>1 DEF LookupWork, Archived
  <2>3. i \in Ids /\ issued[i] \in Request \ Nested /\ WorkOf[issued[i]] = w BY <1>0, <2>2 DEF FilesOK
  <2>4. IsCopy(i, c) BY <2>2 DEF IsCopy
  <2>5. Settled(i, c) BY <1>0, <2>3, <2>4 DEF CopiesOK
  <2>6. \A d : IsCopy(i, d) => Alike(c, d) BY <1>0, <2>3, <2>4 DEF CopiesOK
  <2>7. issued[i] # None BY <2>3, HistoryAssumption
  <2>8. s.call = i /\ c.state \notin {"Queued", "Running"} BY <1>2, <2>1
  <2> HIDE DEF i, c
  <2>9. Reported(w, i, c) BY <2>3, <2>5, <2>6, <2>7, <2>8 DEF Reported, Settled
  <2> QED BY <1>1, <2>1, <2>8, <2>9
<1> QED BY <1>3, <1>4

\* One step later the work is reported by that call, and in the same words.
LEMMA ReportedAgain ==
    ASSUME WorkPerReservation, ArchiveInv, ArchiveInv', HistoryKept, NEW w \in Works, NEW j, NEW c,
           Reported(w, j, c), j \notin old'
    PROVE  Report(w)' = {[call |-> j, outcome |-> Outcome(c)]}
<1>0. /\ DocOK /\ CopiesOK /\ DocOK' /\ Issued' /\ Once' /\ Indexed' /\ CopiesOK' /\ Onward
      /\ w # None /\ (WorkPerReservation)'
  BY HistoryAssumption DEF ArchiveInv, ScopeInv, HistoryKept, Works, Nested, WorkPerReservation
<1>1. /\ j \in Ids /\ issued'[j] = issued[j] /\ issued[j] # None /\ WorkOf[issued[j]] = w
      /\ c.req = issued[j] /\ c.state \notin {"Queued", "Running"}
  BY <1>0 DEF Reported, Onward
<1>2. \A k \in FindWork(doc', w) : k = j
  <2> SUFFICES ASSUME NEW k \in FindWork(doc', w) PROVE k = j OBVIOUS
  <2>1. k \in Ids /\ doc'[k] # None /\ WorkOf[doc'[k].req] = w BY DEF FindWork, Live
  <2>2. issued'[k] = doc'[k].req /\ doc'[k] \in CallRecord BY <1>0, <2>1 DEF Issued, DocOK, Live
  <2>3. issued'[k] # None BY <2>2, HistoryAssumption DEF CallRecord
  <2> QED BY <1>0, <1>1, <2>1, <2>2, <2>3 DEF Once
<1>3. Report(w)' = {[call |-> x.call, outcome |-> Outcome(x.rec)] : x \in Snapshots(w)'}
  BY DEF Report, Outcome, OutcomeCategory, Evidence, ReviewPacket, AttemptKnown, Nested
<1>4. ASSUME NEW d, d.req = c.req, Alike(c, d), Snapshots(w)' = {[call |-> j, rec |-> d]}
      PROVE  Report(w)' = {[call |-> j, outcome |-> Outcome(c)]}
  <2>1. Outcome(c) = Outcome(d) BY <1>4, OutcomeSame
  <2> QED BY <1>3, <1>4, <2>1
<1>5. CASE doc'[j] # None
  <2>1. doc'[j].req = issued[j] BY <1>0, <1>1, <1>5 DEF Issued, Live
  <2>2. Alike(c, doc'[j])
    <3>1. Moves(j) BY <1>1 DEF HistoryKept
    <3>2. doc[j] # None /\ Alike(c, doc[j]) BY <1>5, <3>1 DEF Moves, Reported
    <3> QED BY <1>1, <1>5, <3>1, <3>2 DEF Moves, Alike
  <2>3. FindWork(doc', w) = {j} BY <1>1, <1>2, <1>5, <2>1 DEF FindWork, Live
  <2>4. Snapshots(w)' = {[call |-> j, rec |-> doc'[j]]} BY <2>3 DEF Snapshots, FindWork, Live
  <2> QED BY <1>1, <1>4, <2>1, <2>2, <2>4
<1>6. CASE doc'[j] = None
  <2> DEFINE d == file'[CallFile(j)].rec
  <2>1. issued[j] \notin Nested BY <1>0, <1>1 DEF Nested
  <2>2. \A k \in 1 .. 3 : Stands(j, k)' BY <1>0, <1>1, <1>6, <2>1 DEF Indexed, Parts, Nested
  <2>3. file'[CallFile(j)] # None /\ file'[WorkFile(w)] = j
    BY <1>0, <1>1, <2>2 DEF Stands, CallFile, WorkFile
  <2>4. LookupWork(w)' BY <1>1, <2>3, HistoryAssumption DEF LookupWork, Archived, CallFile, WorkFile
  <2>5. FindWork(doc', w) = {} BY <1>2, <1>6 DEF FindWork, Live
  <2>6. Snapshots(w)' = {[call |-> j, rec |-> d]} BY <2>3, <2>4, <2>5 DEF Snapshots, FindWork, Live, CallFile, WorkFile
  <2>7. IsCopy(j, d) BY <1>1, <2>3 DEF HistoryKept
  <2>8. Alike(c, d) BY <2>7 DEF Reported
  <2>9. d.req = c.req BY <1>0, <1>1, <2>7 DEF CopiesOK, Settled
  <2> HIDE DEF d
  <2> QED BY <1>4, <2>6, <2>8, <2>9
<1> QED BY <1>5, <1>6

-----------------------------------------------------------------------------
(* The theorems *)

\* What the invariant says of the properties, in a state and over a step.
LEMMA NothingLostInv == ASSUME WorkPerReservation, ArchiveInv PROVE NothingLost
<1>0. DocOK /\ FilesOK /\ CopiesOK /\ Ages /\ Indexed BY DEF ArchiveInv, ScopeInv
<1>1. PayloadKept
  <2> SUFFICES ASSUME NEW i \in Ids
               PROVE  /\ doc[i] # None => Hydrates(i, doc[i])
                      /\ file[CallFile(i)] # None /\ i \notin old => Hydrates(i, file[CallFile(i)].rec)
    BY DEF PayloadKept
  <2>1. doc[i] # None => Hydrates(i, doc[i]) BY <1>0 DEF Ages, Hydrates
  <2>2. ASSUME file[CallFile(i)] # None, i \notin old PROVE Hydrates(i, file[CallFile(i)].rec)
    <3>1. IsCopy(i, file[CallFile(i)].rec) BY <2>2 DEF IsCopy
    <3> QED BY <1>0, <2>2, <3>1 DEF CopiesOK, Settled, Hydrates
  <2> QED BY <2>1, <2>2
<1>2. ASSUME NEW i \in Ids, issued[i] # None, i \notin old, doc[i] = None
      PROVE  /\ file[CallFile(i)] # None
             /\ file[SubmissionFile(issued[i])] = i
             /\ issued[i] \notin Nested => file[WorkFile(WorkOf[issued[i]])] = i
  BY <1>0, <1>2 DEF Indexed, Parts, Stands
<1> QED BY <1>0, <1>1, <1>2 DEF NothingLost, Indexed

LEMMA RunsOnceInv == ASSUME WorkPerReservation, ArchiveInv PROVE RunsOnce
<1>1. Once /\ \A i \in ran : i \in Ids /\ issued[i] # None BY DEF ArchiveInv, Ages
<1> QED BY <1>1 DEF RunsOnce, Once

LEMMA RetiredStep ==
    ASSUME ArchiveInv, [Next]_vars, NEW i \in Ids, doc[i] # None, doc'[i] = None
    PROVE  /\ file[CallFile(i)].rec.state = doc[i].state
           /\ file[CallFile(i)].rec.slots = doc[i].slots
           /\ doc[i].state = "Uncertain" => dem[ResOf[doc[i].req]].proven
<1>0. DocOK /\ Issued /\ CopiesOK /\ MaintInv /\ Ages BY DEF ArchiveInv, ScopeInv
<1>1. PICK m \in Maintainers : CommitMaintenance(m) BY ArchiveNext DEF NoneRetired
<1>2. maint[m].pc = "commit" /\ i \in DOMAIN maint[m].plan.recs BY <1>1 DEF CommitMaintenance
<1>3. HasStaged(m) /\ HasPlan(m) /\ DOMAIN maint[m].staged = {} /\ Written(m) /\ PlanOK(m)
  BY <1>0, <1>2 DEF HasStaged, HasPlan, MaintInv, StagedOK
<1>4. i \notin old BY <1>0 DEF Ages
<1>5. IsCopy(i, maint[m].plan.recs[i]) BY <1>2, <1>3 DEF IsCopy
<1>6. file[CallFile(i)] # None
  <2>1. 1 \in Parts(maint[m].plan.recs[i].req) BY DEF Parts
  <2>2. Stands(i, 1) BY <1>2, <1>3, <1>4, <2>1 DEF Written
  <2> QED BY <2>2 DEF Stands
<1>7. Settled(i, file[CallFile(i)].rec)
  <2>1. IsCopy(i, file[CallFile(i)].rec) BY <1>6 DEF IsCopy
  <2> QED BY <1>0, <2>1 DEF CopiesOK
<1>8. issued[i] = doc[i].req BY <1>0 DEF Issued, Live
<1> QED BY <1>7, <1>8 DEF Settled, Alike

LEMMA OutcomeStep ==
    ASSUME WorkPerReservation, ArchiveInv, [Next]_vars, NEW w \in Works, NEW s \in Report(w),
           s.outcome.terminal, s.call \notin old'
    PROVE  Report(w)' = {s}
<1>1. PICK c : Reported(w, s.call, c) /\ s = [call |-> s.call, outcome |-> Outcome(c)] BY ReportedRecord
<1>2. PICK j : j = s.call OBVIOUS
<1>3. ArchiveInv' /\ HistoryKept BY ArchiveNext
<1>4. Report(w)' = {[call |-> j, outcome |-> Outcome(c)]} BY <1>1, <1>2, <1>3, ReportedAgain
<1> QED BY <1>1, <1>2, <1>4

\* Every accepted call is found, with its bodies, in the document or the archive,
\* whatever maintainers race and whatever step of a publication a crash cuts off
\* (prepare_maintenance, publish_staged, commit_published_maintenance).
THEOREM NothingLostHolds == ASSUME WorkPerReservation PROVE Spec => []NothingLost
<1>1. Init => ArchiveInv BY ArchiveInit
<1>2. ArchiveInv /\ [Next]_vars => ArchiveInv' BY ArchiveNext
<1>3. ArchiveInv => NothingLost BY NothingLostInv
<1> QED BY <1>1, <1>2, <1>3, PTL DEF Spec

\* No submission and no work runs twice within its retention: the lookup outside
\* the lock and the one under it miss nothing that was retired between them
\* (WorkSubmission::submit, Submission::submit).
THEOREM RunsOnceHolds == ASSUME WorkPerReservation PROVE Spec => []RunsOnce
<1>1. Init => ArchiveInv BY ArchiveInit
<1>2. ArchiveInv /\ [Next]_vars => ArchiveInv' BY ArchiveNext
<1>3. ArchiveInv => RunsOnce BY RunsOnceInv
<1> QED BY <1>1, <1>2, <1>3, PTL DEF Spec

\* A record leaves the document only as its archived copy has it, and an uncertain
\* one only with its backend proven absent; two maintainers with plans of
\* different age included (commit_published_maintenance).
THEOREM RetiredAsArchivedHolds == Spec => RetiredAsArchived
<1>1. Init => ArchiveInv BY ArchiveInit
<1>2. ArchiveInv /\ [Next]_vars => ArchiveInv' BY ArchiveNext
<1>3. ArchiveInv /\ [Next]_vars =>
        [\A i \in Ids : doc[i] # None /\ doc'[i] = None =>
            /\ file[CallFile(i)].rec.state = doc[i].state
            /\ file[CallFile(i)].rec.slots = doc[i].slots
            /\ doc[i].state = "Uncertain" => dem[ResOf[doc[i].req]].proven]_doc
  BY RetiredStep
<1> QED BY <1>1, <1>2, <1>3, PTL DEF Spec, RetiredAsArchived

\* A work that was reported as over is reported in the same words until its
\* retention has passed, from the document or from the archive
\* (load_by_work, outcome_category).
THEOREM OutcomeKeptHolds == ASSUME WorkPerReservation PROVE Spec => OutcomeKept
<1>1. Init => ArchiveInv BY ArchiveInit
<1>2. ArchiveInv /\ [Next]_vars => ArchiveInv' BY ArchiveNext
<1>3. ArchiveInv /\ [Next]_vars =>
        [\A w \in Works : \A s \in Report(w) :
            s.outcome.terminal /\ s.call \notin old' => Report(w)' = {s}]_<<doc, file>>
  BY OutcomeStep
<1> QED BY <1>1, <1>2, <1>3, PTL DEF Spec, OutcomeKept

=============================================================================
