------------------------------ MODULE Residency ------------------------------
(* Warm residency (residency.rs): a released vLLM backend may stay loaded,   *)
(* owned by a cache record instead of a demand, until a compatible demand    *)
(* adopts it or an incompatible one evicts it.                               *)
EXTENDS Authority

PreparingOwner(d) == dem[d].state = "Preparing" /\ Owns(d)

\* residency::cache_candidate, on the thread's snapshot or on the saved record.
CacheCandidate(d, r) ==
    /\ ProfileOf[d] \in Warmable
    /\ r.process /\ r.effect
    /\ r.state = "Releasing"
    /\ r.reason \notin {"cancelled", "preempted"}

\* The residents evict_incompatible marks: they overlap an owner that cannot
\* adopt them. A candidate that does not own its GPUs yet marks none.
Incompatible(d) ==
    IF ~PreparingOwner(d) THEN {}
    ELSE {a \in Demand : warm[a] = "resident" /\ Overlap(a, d) /\ ~Compatible(a, d)}

\* Where a thread goes when no eviction is left: evict_incompatible runs before
\* the preflight check, adopt_or_evict after it.
AfterEviction(d) == IF w[d].snap.preflight THEN "empty" ELSE "preflight"

EvictMark(d) ==
    /\ At(d, "evictMark") /\ Present(d)
    /\ LET ids == Incompatible(d) IN
         /\ warm' = [a \in Demand |-> IF a \in ids THEN "evicting" ELSE warm[a]]
         /\ w' = [w EXCEPT ![d].evict = ids,
                           ![d].pc = IF ids = {} THEN AfterEviction(d) ELSE "evictStop"]
    /\ UNCHANGED <<dem, claims, call, backend, supervision, crashes>>

\* residency::evict_record.
EvictStop(d) ==
    /\ At(d, "evictStop")
    /\ \E a \in w[d].evict :
         \/ StopOk(a) /\ w' = [w EXCEPT ![d].pc = "evictRemove", ![d].tgt = a]
         \/ StopErr(a) /\ Goto(d, "fail")
    /\ UNCHANGED <<document, supervision, crashes>>

\* residency::remove_if_unchanged.
EvictRemove(d) ==
    /\ At(d, "evictRemove")
    /\ LET a == w[d].tgt
           left == w[d].evict \ {a} IN
         /\ warm' = [warm EXCEPT ![a] = "none"]
         /\ w' = [w EXCEPT ![d].evict = left, ![d].tgt = None,
                           ![d].pc = IF left = {} THEN AfterEviction(d) ELSE "evictStop"]
    /\ UNCHANGED <<dem, claims, call, backend, supervision, crashes>>

\* adopt_or_evict reads the record of its own activation and verifies it.
Adopt(d) ==
    /\ At(d, "adopt") /\ Present(d)
    /\ LET a == dem[d].act IN
         \/ (~PreparingOwner(d) \/ warm[a] # "resident") /\ Goto(d, "empty")
         \/ PreparingOwner(d) /\ warm[a] = "resident" /\ ProbeOk(a) /\ Goto(d, "adoptSave")
         \/ PreparingOwner(d) /\ warm[a] = "resident" /\ ProbeErr(a) /\ Goto(d, "adoptEvict")
    /\ UNCHANGED <<document, backend, supervision, crashes>>

\* Mutation of AdoptSave: the cache record survives the adoption.
AdoptCopy(d) ==
    /\ At(d, "adoptSave") /\ Present(d)
    /\ dem' = [dem EXCEPT ![d].process = TRUE, ![d].effect = TRUE]
    /\ Done(d)
    /\ UNCHANGED <<claims, warm, call, backend, supervision, crashes>>

\* The adopting update moves the backend from the cache record to the demand.
AdoptSave(d) ==
    /\ At(d, "adoptSave") /\ Present(d)
    /\ LET a == dem[d].act IN
         IF warm[a] = "resident" /\ PreparingOwner(d)
         THEN /\ warm' = [warm EXCEPT ![a] = "none"]
              /\ dem' = [dem EXCEPT ![d].process = TRUE, ![d].effect = TRUE]
              /\ Done(d)
         ELSE Goto(d, "empty") /\ UNCHANGED <<warm, dem>>
    /\ UNCHANGED <<claims, call, backend, supervision, crashes>>

\* residency::mark_evicting for a resident that failed verification.
AdoptEvict(d) ==
    /\ At(d, "adoptEvict")
    /\ LET a == dem[d].act IN
         /\ warm' = [warm EXCEPT ![a] = IF @ = "none" THEN @ ELSE "evicting"]
         /\ w' = [w EXCEPT ![d].pc = "evictStop", ![d].evict = {a}]
    /\ UNCHANGED <<dem, claims, call, backend, supervision, crashes>>

\* Retirement's terminal state (retirement.rs and residency::terminal_state).
Retired(r) ==
    CASE r.reason = "cancelled" -> "Cancelled"
      [] r.reason = "preempted" -> "Preempted"
      [] r.reason = "idle_timeout" \/ (r.reason \notin {"cancelled", "preempted"} /\ r.expired) -> "Expired"
      [] OTHER -> "Released"

Retire(d) ==
    /\ dem' = [dem EXCEPT ![d].process = FALSE, ![d].effect = FALSE,
                          ![d].released = TRUE, ![d].state = Retired(dem[d])]
    /\ claims' = Unclaimed(d)

\* cache_after_release: probe, then move the backend to the cache unless the
\* saved record changed or another record overlaps it. Every failure falls
\* back to stopping the backend.
RetCache(d) ==
    /\ At(d, "retCache")
    /\ \/ ProbeOk(dem[d].act) /\ Goto(d, "retCacheSave")
       \/ ProbeErr(dem[d].act) /\ Goto(d, "retStop")
    /\ UNCHANGED <<document, backend, supervision, crashes>>

Cacheable(d) ==
    /\ Present(d) /\ CacheCandidate(d, dem[d])
    /\ \A a \in Demand \ {dem[d].act} : warm[a] = "none" \/ ~Overlap(a, d)

RetCacheSave(d) ==
    /\ At(d, "retCacheSave")
    /\ IF Cacheable(d)
       THEN /\ warm' = [warm EXCEPT ![dem[d].act] = "resident"]
            /\ Retire(d)
            /\ Done(d)
       ELSE Goto(d, "retStop") /\ UNCHANGED <<dem, claims, warm>>
    /\ UNCHANGED <<call, backend, supervision, crashes>>
=============================================================================
