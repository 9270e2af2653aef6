------------------------------ MODULE Admission ------------------------------
(* Acquisition: Admission::acquire, ReservationAdmission::reserve and the    *)
(* planner. A single-service acquisition is a group of one member.           *)
EXTENDS Authority

\* Mutation of Conflicts: only a Ready incumbent is noticed.
ConflictsReadyOnly(d) ==
    {e \in {claims[x] : x \in Resources(d)} \ {None, d} : dem[e].state = "Ready"}

\* planner::conflicts: the other demands that hold a GPU `d` needs.
Conflicts(d) == {claims[x] : x \in Resources(d)} \ {None, d}

Holding == {"Ready", "Releasing", "Preparing", "Preempting", "RecoveryRequired"}

\* Host memory counted against `d`: every holding demand it does not displace
\* and every warm resident on other GPUs.
OccupiedHost(d) ==
    LET holders == {e \in Demand : dem[e].state \in Holding} \ Conflicts(d)
        residents == {a \in Demand : warm[a] = "resident" /\ ~Overlap(a, d)}
    IN MapThenSumSet(LAMBDA e : HostMib[ProfileOf[e]], holders)
       + MapThenSumSet(LAMBDA a : HostMib[ProfileOf[a]], residents)

\* Mutation of Admissible: an incumbent in transition may be displaced.
AdmissibleInTransition(d) ==
    /\ \A v \in Conflicts(d) : Priority[v] < Priority[d]
    /\ OccupiedHost(d) + HostMib[ProfileOf[d]] <= HostCapacity

\* Planner::refusal accepts only a demand that outranks every incumbent, finds
\* each of them Ready, and fits the host.
Admissible(d) ==
    /\ \A v \in Conflicts(d) : Priority[v] < Priority[d] /\ dem[v].state = "Ready"
    /\ OccupiedHost(d) + HostMib[ProfileOf[d]] <= HostCapacity

\* residency::backend_activation_for: a compatible resident is reused.
ActivationFor(d) ==
    IF ProfileOf[d] \in Warmable /\ \E a \in Demand : Compatible(a, d)
    THEN CHOOSE a \in Demand : Compatible(a, d)
    ELSE d

\* Admission::prepare: the demand as it enters the document.
Prepared(d, victims) ==
    [NoDemand(d) EXCEPT !.state = "Preparing", !.victims = victims, !.act = ActivationFor(d)]

\* planner::fence and planner::fence_group: victims start draining, their
\* queued calls are superseded, and claims move at once only if nobody drains.
Fence(r, victims) ==
    /\ dem' = [d \in Demand |->
         IF d \in Members(r) THEN Prepared(d, victims)
         ELSE IF d \in victims
         THEN [dem[d] EXCEPT !.state = "Preempting", !.reason = "preempted",
                             !.preemptedBy = r]
         ELSE dem[d]]
    /\ call' = [c \in Call |->
         IF call[c].of \in victims THEN Supersede(call[c]) ELSE call[c]]
    /\ claims' = IF victims # {} THEN claims
                 ELSE [x \in Resource |->
                        IF \E d \in Members(r) : x \in Resources(d)
                        THEN CHOOSE d \in Members(r) : x \in Resources(d)
                        ELSE claims[x]]

\* acquire_in: a replayed acquisition returns the stored demand, and a refusal,
\* fresh or cached for two seconds, stores none.
Acquirable(r) ==
    /\ r \in Roots
    /\ \A d \in Members(r) : dem[d].state = "Absent" /\ Admissible(d)

Acquire(r) ==
    /\ Acquirable(r)
    /\ Fence(r, UNION {Conflicts(d) : d \in Members(r)})
    /\ UNCHANGED <<warm, backend, w, supervision, crashes>>
=============================================================================
