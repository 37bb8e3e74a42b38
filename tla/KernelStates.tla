---------------------------- MODULE KernelStates ----------------------------
(***************************************************************************)
(* The task state machine of the SCP task kernel: the states, the          *)
(* transition table and the state sets its operations test                 *)
(* (src/scp/task_kernel.py, src/scp/task_kernel_parts/taskkernel.py).      *)
(***************************************************************************)

\* A task the database has no row for.
NoTask == "NONE"

\* STATES, and WAITING_APPROVAL, which the table knows and STATES does not.
TaskStates ==
  {"CREATED", "PLANNING", "WAITING_APPROVAL", "READY", "QUEUED", "LEASED",
   "RUNNING", "WAITING_TOOL", "VERIFYING", "CHECKPOINTED", "UNKNOWN",
   "RECOVERING", "RECONCILING", "HUMAN_REVIEW", "RETRY_SCHEDULED",
   "COMPLETED", "FAILED", "CANCELLED"}

Terminal == {"COMPLETED", "FAILED", "CANCELLED"}

\* ALLOWED_TRANSITIONS; a task without a row, or in a terminal state, has none.
Allowed(s) ==
  CASE s = "CREATED" -> {"PLANNING", "CANCELLED"}
    [] s = "PLANNING" -> {"READY", "WAITING_APPROVAL", "FAILED", "CANCELLED"}
    [] s = "WAITING_APPROVAL" -> {"READY", "CANCELLED"}
    [] s = "READY" -> {"QUEUED", "CANCELLED"}
    [] s = "QUEUED" -> {"LEASED", "CANCELLED"}
    [] s = "LEASED" -> {"RUNNING", "RECOVERING", "CANCELLED"}
    [] s = "RUNNING" -> {"WAITING_TOOL", "VERIFYING", "CHECKPOINTED",
                         "RECOVERING", "HUMAN_REVIEW", "FAILED", "CANCELLED"}
    [] s = "WAITING_TOOL" -> {"VERIFYING", "UNKNOWN", "RECOVERING", "FAILED",
                              "CANCELLED"}
    [] s = "VERIFYING" -> {"RUNNING", "COMPLETED", "HUMAN_REVIEW", "FAILED"}
    [] s = "CHECKPOINTED" -> {"RUNNING", "QUEUED", "CANCELLED"}
    [] s = "UNKNOWN" -> {"RECONCILING", "HUMAN_REVIEW", "RECOVERING", "FAILED",
                         "CANCELLED"}
    [] s = "HUMAN_REVIEW" -> {"READY", "CANCELLED", "FAILED"}
    [] s = "RECOVERING" -> {"RECONCILING", "CHECKPOINTED", "QUEUED",
                            "HUMAN_REVIEW", "FAILED"}
    [] s = "RECONCILING" -> {"RECOVERING", "CHECKPOINTED", "QUEUED",
                             "HUMAN_REVIEW", "FAILED", "CANCELLED"}
    [] s = "RETRY_SCHEDULED" -> {"QUEUED", "FAILED", "CANCELLED"}
    [] OTHER -> {}

\* The states in which a task is expected to be under a lease.
LeasedStates ==
  {"LEASED", "RUNNING", "WAITING_TOOL", "VERIFYING", "CHECKPOINTED", "UNKNOWN"}

\* Targets of transition() that keep the caller's lease on the task.
LeaseKept == {"RUNNING", "WAITING_TOOL", "VERIFYING", "CHECKPOINTED"}

\* _RENEWABLE_LEASE_STATES.
Renewable == {"LEASED", "RUNNING", "WAITING_TOOL", "VERIFYING"}

\* The states the orphan watchdog selects.
Sweepable == {"LEASED", "RUNNING", "WAITING_TOOL"}

\* Where expire_leases() moves a task whose lease ran out; the other states
\* stay as they are.
AfterExpiry(s) ==
  CASE s \in {"LEASED", "RUNNING", "WAITING_TOOL"} -> "RECOVERING"
    [] s = "VERIFYING" -> "HUMAN_REVIEW"
    [] s = "CHECKPOINTED" -> "QUEUED"
    [] OTHER -> s
=============================================================================
