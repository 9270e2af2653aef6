-------------------------------- MODULE Calls --------------------------------
(* Invocations of a reservation: submission, dispatch, completion and        *)
(* cancellation (inference.rs, workers.rs, dispatch.rs, control.rs).         *)
EXTENDS Authority

ReservationReady(d) == dem[d].state = "Ready" /\ Active(dem[d]) /\ Owns(d)

Pending == {c \in Call : call[c].state \in {"Queued", "Running"}}

\* Submission::submit: invocations are numbered in queue order.
Submit(d, c) ==
    /\ call[c].state = "None" /\ \A b \in 1 .. c - 1 : call[b].state # "None"
    /\ ReservationReady(d)
    /\ Cardinality(Pending) < MaxPending
    /\ Cardinality(Pending \cap CallsOf(d)) < MaxPendingPerReservation
    /\ call' = [call EXCEPT ![c].of = d, ![c].state = "Queued"]
    /\ UNCHANGED <<dem, claims, warm, backend, w, supervision, crashes>>

Running == {c \in Call : call[c].state = "Running"}

\* Mutation of Eligible: a queued call waits for itself.
EligibleStrict(c) ==
    LET d == call[c].of IN
    /\ call[c].state = "Queued"
    /\ \A b \in CallsOf(d) : call[b].state = "Queued" => b > c
    /\ ReservationReady(d) /\ ~Inflight(d)

\* workers::eligible and dispatch::workspace_slot.
Eligible(c) ==
    LET d == call[c].of IN
    /\ call[c].state = "Queued"
    /\ \A b \in CallsOf(d) : call[b].state = "Queued" => b >= c
    /\ ReservationReady(d)
    /\ ~Inflight(d)
    /\ c \in Workspace =>
         /\ \A b \in CallsOf(d) \cap Workspace : call[b].state \notin {"Running", "Uncertain"}
         /\ Cardinality(Running \cap Workspace) < MaxDispatchWorkers - 1

\* Dispatch::run up to the durable start of the call. A dispatch thread keeps
\* its permit until the completion is saved.
DispatchStart(c) ==
    /\ Cardinality(Running) < MaxDispatchWorkers
    /\ Eligible(c)
    /\ call' = [call EXCEPT ![c].state = "Running"]
    /\ UNCHANGED <<dem, claims, warm, backend, w, supervision, crashes>>

\* The same update when the reservation ended or the waiting deadline passed
\* since the dispatcher picked the call; the state of the demand is not read again.
DispatchExpire(c) ==
    /\ call[c].state = "Queued"
    /\ "wait" \in Faults \/ ~Active(dem[call[c].of])
    /\ call' = [call EXCEPT ![c].state = "Expired"]
    /\ UNCHANGED <<dem, claims, warm, backend, w, supervision, crashes>>

\* The states Completion::save may record for a result.
Outcome(c) ==
    {IF call[c].cancel THEN "Cancelled" ELSE "Completed"}
    \cup (IF "uncertain" \in Faults \/ ~backend[dem[call[c].of].act]
          THEN {"Uncertain", "Failed"} ELSE {})

\* Mutation of Complete: a late result replaces a recorded one.
CompleteLate(c) ==
    /\ call[c].state \notin {"None", "Queued", "Archived"}
    /\ \E s \in Outcome(c) : call' = [call EXCEPT ![c].state = s]
    /\ UNCHANGED <<dem, claims, warm, backend, w, supervision, crashes>>

\* Completion::save: only a call that is still running takes a result.
Complete(c) ==
    /\ call[c].state = "Running"
    /\ \E s \in Outcome(c) : call' = [call EXCEPT ![c].state = s]
    /\ UNCHANGED <<dem, claims, warm, backend, w, supervision, crashes>>

\* ReservationControl::cancel_invocation.
CancelInvocation(c) ==
    /\ call[c].state \in {"Queued", "Running", "Uncertain"}
    /\ call' = [call EXCEPT ![c] = CancelCall(@)]
    /\ UNCHANGED <<dem, claims, warm, backend, w, supervision, crashes>>

\* workspace_recovery::tick records the analysis of an interrupted workspace,
\* which is what workspace_recovery::allows_recovery waits for. A workspace that
\* a restart interrupted has another error and is never analysed.
AnalyseWorkspace(c) ==
    /\ c \in Workspace /\ call[c].state = "Uncertain" /\ ~call[c].analysed
    /\ ~call[c].restart
    /\ dem[call[c].of].state = "RecoveryRequired" /\ Owns(call[c].of)
    /\ call' = [call EXCEPT ![c].analysed = TRUE]
    /\ UNCHANGED <<dem, claims, warm, backend, w, supervision, crashes>>
=============================================================================
