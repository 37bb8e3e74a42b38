------------------------- MODULE TaskKernelLiveness -------------------------
(***************************************************************************)
(* What the kernel's watchdogs promise to do eventually.                   *)
(*                                                                         *)
(* Fairness: time passes, and the two watchdog jobs the ask server         *)
(* registers (src/scp/api/background_jobs.py) keep running: expire_leases()*)
(* and auto_reconcile_orphans(), over every task of the database. Nothing  *)
(* is assumed of workers, operators or the kill switch.                    *)
(***************************************************************************)
EXTENDS TaskKernel

\* Nothing else writes an abandoned task, so its updated_at grows old: the fair
\* sweep finds every task stale.
Watchdogs ==
  /\ WF_vars(Tick)
  /\ WF_vars(\E i \in Instances : ExpireLeases(i))
  /\ WF_vars(\E i \in Instances : AutoReconcile(i, Tasks))

FairSpec == Spec /\ Watchdogs

\* No kernel instance remembers the task's last lease: its worker has crashed,
\* has given the lease up or has been swept.
NoHolder(t) == \A i \in Instances : bound[i][t] = NoLease \/ bound[i][t] # latest[t]

\* auto_reconcile_orphans() finds "tasks orphaned by a crash or a lost
\* connection": a task that is leased, running or waiting for a tool with no
\* worker left does not stay so, whether or not a lease row still names it.
OrphansAreSwept ==
  \A t \in Tasks :
    (state[t] \in Sweepable /\ NoHolder(t)) ~> ~(state[t] \in Sweepable /\ NoHolder(t))

\* A lease whose worker is gone does not stay unreleased, in any of the six
\* leased states: the owner's account is freed without a restart.
AbandonedLeaseEnds ==
  \A t \in Tasks :
    (held[t] # {} /\ NoHolder(t)) ~> (held[t] = {} \/ ~NoHolder(t))

\* The kill switch drains: a worker whose lease is of an earlier kill epoch cannot
\* extend it, however live it is, so the lease ends.
StaleEpochDrains ==
  \A t \in Tasks :
    (\E r \in held[t] : r.epoch # epoch) ~> (\A r \in held[t] : r.epoch = epoch)

\* EMERGENCY_GAP_REPORT.md:62 draws auto_reconcile_orphans() as the edge from
\* UNKNOWN to RECOVERING: a task whose effect is unknown and that no lease covers
\* any more would not stay UNKNOWN.
UnknownIsSwept ==
  \A t \in Tasks :
    (state[t] = "UNKNOWN" /\ held[t] = {}) ~> (state[t] # "UNKNOWN")
=============================================================================
