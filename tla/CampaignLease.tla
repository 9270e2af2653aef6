---------------------------- MODULE CampaignLease ----------------------------
(* The lease files of crates/rack_ai_application/src/campaign_lease.rs for    *)
(* the campaigns of one repository: lease.json of each campaign and the one   *)
(* file of the repository.  Every operation runs under .lease.lock; acquiring *)
(* writes the two files one after the other, so a process may die in between. *)
(*                                                                            *)
(* A record is its owner's pid; its heartbeat is kept as whether it has       *)
(* lapsed, that is, lies two intervals and the action timeout back.           *)
(* Background threads beat every 30 s at most during long actions, so only    *)
(* the records of processes that died or stopped for good lapse.              *)
CONSTANTS Campaigns,    \* campaigns of the repository
          Procs,        \* process ids
          None

ASSUME LeaseAssumption == None \notin Procs \cup Campaigns \cup [camp : Campaigns, pid : Procs]

VARIABLES campLease,    \* campaign -> pid in its lease.json, or None
          repoLease,    \* [camp, pid] of the repository's file, or None
          alive,        \* processes that run
          silent,       \* running processes that have stopped for good
          lapsed,       \* pids whose records are stale
          job           \* process -> [camp, phase] of its lease operation

leaseVars == <<campLease, repoLease, alive, silent, lapsed, job>>

NoJob == [camp |-> None, phase |-> "none"]

LeaseTypeOK ==
    /\ campLease \in [Campaigns -> Procs \cup {None}]
    /\ repoLease \in [camp : Campaigns, pid : Procs] \cup {None}
    /\ alive \subseteq Procs
    /\ silent \subseteq alive
    /\ lapsed \subseteq Procs
    /\ job \in [Procs -> [camp : Campaigns \cup {None},
                          phase : {"none", "writing", "held"}]]

LeaseInit ==
    /\ campLease = [c \in Campaigns |-> None]
    /\ repoLease = None
    /\ alive = Procs
    /\ silent = {}
    /\ lapsed = {}
    /\ job = [p \in Procs |-> NoJob]

Active(p) == p \in alive \ silent

\* lease_is_active: the pid exists and its heartbeat is recent enough.
RecordActive(p) == p \in alive \ lapsed

\* .lease.lock is free: nobody is between the two writes.
Unlocked == \A p \in Procs : job[p].phase # "writing"

\* fail_if_held: somebody else's record that is alive and not stale.
CampaignHeld(p, c) ==
    campLease[c] # None /\ campLease[c] # p /\ RecordActive(campLease[c])

\* Mutant: a record of another campaign does not count.
RepositoryHeldBySame(p, c) ==
    repoLease # None /\ repoLease.camp = c /\ repoLease.pid # p
      /\ RecordActive(repoLease.pid)

\* fail_if_repository_held: a record of the same campaign is treated like the
\* campaign's own file, one of another campaign must be inactive.
RepositoryHeld(p, c) ==
    /\ repoLease # None
    /\ RecordActive(repoLease.pid)
    /\ repoLease.camp = c => repoLease.pid # p

\* Mutant: only the records of other campaigns refuse.
TakeableInCampaign(p, c) ==
    repoLease # None /\ repoLease.camp # c => ~RecordActive(repoLease.pid)

Takeable(p, c) == ~CampaignHeld(p, c) /\ ~RepositoryHeld(p, c)

\* acquire up to the first write: the stale files are removed on the way.
AcquireCampaign(p, c) ==
    /\ Unlocked
    /\ Takeable(p, c)
    /\ campLease' = [campLease EXCEPT ![c] = p]
    /\ repoLease' = IF repoLease # None /\ repoLease.camp = c /\ repoLease.pid = p
                       THEN repoLease ELSE None
    /\ job' = [job EXCEPT ![p] = [camp |-> c, phase |-> "writing"]]
    /\ lapsed' = lapsed \ {p}
    /\ UNCHANGED <<alive, silent>>

\* The second write of acquire.
AcquireRepository(p) ==
    /\ job[p].phase = "writing"
    /\ repoLease' = [camp |-> job[p].camp, pid |-> p]
    /\ job' = [job EXCEPT ![p].phase = "held"]
    /\ UNCHANGED <<campLease, alive, silent, lapsed>>

\* heartbeat refuses a runner whose campaign file names another process.
HeartbeatOK(p) == campLease[job[p].camp] = p

\* It rewrites the repository's file without looking at it.
Heartbeat(p) ==
    /\ Unlocked
    /\ repoLease' = [camp |-> job[p].camp, pid |-> p]
    /\ UNCHANGED <<campLease, alive, silent, lapsed, job>>

\* release removes the campaign's file whoever owns it, and the repository's
\* file when it names the campaign.
ReleaseFiles(c) ==
    /\ Unlocked
    /\ campLease' = [campLease EXCEPT ![c] = None]
    /\ repoLease' = IF repoLease # None /\ repoLease.camp = c
                       THEN None ELSE repoLease

Release(p) ==
    /\ ReleaseFiles(job[p].camp)
    /\ job' = [job EXCEPT ![p] = NoJob]
    /\ UNCHANGED <<alive, silent, lapsed>>

\* The supervisor removes the repository's file when its campaign's directory
\* is gone and its record is stale.
OrphanLease(gone) ==
    /\ repoLease # None
    /\ repoLease.camp \in gone
    /\ repoLease.pid \in lapsed
    /\ repoLease' = None
    /\ UNCHANGED <<campLease, alive, silent, lapsed, job>>

\* Faults of the processes; the kernel drops the lock of a dead one, and its
\* pid may come back as another runner.
Die(p) ==
    /\ p \in alive
    /\ alive' = alive \ {p}
    /\ silent' = silent \ {p}
    /\ job' = [job EXCEPT ![p] = NoJob]
    /\ UNCHANGED <<campLease, repoLease, lapsed>>

FallSilent(p) ==
    /\ Active(p)
    /\ job[p].phase = "held"
    /\ silent' = silent \cup {p}
    /\ UNCHANGED <<campLease, repoLease, alive, lapsed, job>>

\* Mutant: only the records of dead processes go stale.
LapseWhenDead(p) ==
    /\ p \notin lapsed \cup alive
    /\ \/ \E c \in Campaigns : campLease[c] = p
       \/ repoLease # None /\ repoLease.pid = p
    /\ lapsed' = lapsed \cup {p}
    /\ UNCHANGED <<campLease, repoLease, alive, silent, job>>

\* Time passes over a record that nobody renews.
Lapse(p) ==
    /\ p \notin lapsed
    /\ \/ \E c \in Campaigns : campLease[c] = p
       \/ repoLease # None /\ repoLease.pid = p
    /\ Active(p) => job[p].phase = "none"
    /\ lapsed' = lapsed \cup {p}
    /\ UNCHANGED <<campLease, repoLease, alive, silent, job>>

Restart(p) ==
    /\ p \notin alive
    /\ alive' = alive \cup {p}
    /\ UNCHANGED <<campLease, repoLease, silent, lapsed, job>>

\* The holders of the repository that may still act.
Holding == {p \in alive \ silent : job[p].phase = "held"}

\* The lease operations by themselves: any process runs any campaign, one at a
\* time; the directory of a campaign nobody runs may have been pruned.
LeaseNext ==
    \/ \E p \in Procs :
         \/ Active(p) /\ job[p].phase = "none" /\ \E c \in Campaigns : AcquireCampaign(p, c)
         \/ Active(p) /\ AcquireRepository(p)
         \/ p \in Holding /\ HeartbeatOK(p) /\ Heartbeat(p)
         \/ p \in Holding /\ Release(p)
         \/ Die(p) \/ FallSilent(p) \/ Lapse(p) \/ Restart(p)
    \/ OrphanLease({c \in Campaigns : \A p \in Holding : job[p].camp # c})

\* The second write of acquire follows the first unless the process dies, and
\* time passes.
LeaseFairness ==
    \A p \in Procs : /\ WF_leaseVars(Active(p) /\ AcquireRepository(p))
                     /\ WF_leaseVars(Lapse(p))

LeaseSpec == LeaseInit /\ [][LeaseNext]_leaseVars /\ LeaseFairness

-----------------------------------------------------------------------------
(* Properties *)

Lock == INSTANCE RepositoryLock WITH Holders <- Procs, holders <- Holding

\* The two files implement a lock of the repository: wherever a process dies or
\* stalls, no two processes that still act hold the repository's lease.
ExclusiveLease == Lock!Spec

\* A process that holds a lease and still acts finds its own pid in both files:
\* no other campaign's acquire, release or cleanup took its record away.
LeaseKept ==
    \A p \in Holding :
        /\ campLease[job[p].camp] = p
        /\ repoLease = [camp |-> job[p].camp, pid |-> p]

\* A record its owner left behind by dying, or by stalling while it held the
\* lease, does not block the repository for ever: it is gone or inactive, or its
\* pid is another runner's that takes a lease itself.
DeadLeaseLapses ==
    \A p \in Procs, c \in Campaigns :
        (campLease[c] = p /\ p \notin Holding)
          ~> (campLease[c] # p \/ ~RecordActive(p) \/ (Active(p) /\ job[p].phase # "none"))
=============================================================================
