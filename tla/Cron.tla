-------------------------------- MODULE Cron --------------------------------
(***************************************************************************)
(* The job scheduler of crates/cron/src/scheduler.rs and the way the API   *)
(* process starts and stops it (apps/api/src/main.rs).                     *)
(*                                                                         *)
(* Each load and store of the two atomics of RunState is a step of its     *)
(* own.  The ticker below (the crate tokio_cron_scheduler) dispatches a    *)
(* registered job whenever it likes once it was started, also after it was *)
(* told to stop, and also while an earlier run of the same job goes on.    *)
(***************************************************************************)
EXTENDS Naturals, FiniteSets

CONSTANTS
  Jobs,   \* the names in EXPECTED_JOBS
  Runs    \* dispatches and manual runs; a bound on how many there are

ASSUME CronAssumption == IsFiniteSet(Runs) /\ Jobs # {}

VARIABLES
  process,   \* where main is
  jobs,      \* names registered with the scheduler
  stopped,   \* RunState::stopped
  inFlight,  \* RunState::in_flight
  run,       \* run[r]: where a run is, of which job, asked for by hand or not
  stats      \* stats[j]: total_runs and failures of CronMetrics

cronVars == <<process, jobs, stopped, inFlight, run, stats>>

Fresh == [pc |-> "unused", job |-> CHOOSE j \in Jobs : TRUE, manual |-> FALSE]

Move(r, pc) == run' = [run EXCEPT ![r].pc = pc]

-----------------------------------------------------------------------------
(* main: register every job, start ticking, serve, drain the server, then  *)
(* CronScheduler::shutdown.                                                *)

Register(j) ==
  /\ process = "building"
  /\ j \notin jobs
  /\ jobs' = jobs \union {j}
  /\ UNCHANGED <<process, stopped, inFlight, run, stats>>

Start ==
  /\ process = "building"
  /\ jobs = Jobs
  /\ process' = "serving"
  /\ UNCHANGED <<jobs, stopped, inFlight, run, stats>>

(* A signal ends the serving; the server has drained when no request, and  *)
(* so no manual run, is left.                                              *)
ServerDrained ==
  /\ process = "serving"
  /\ \A r \in Runs : run[r].manual => run[r].pc = "over"
  /\ process' = "stopping"
  /\ UNCHANGED <<jobs, stopped, inFlight, run, stats>>

SetStopped ==
  /\ process = "stopping"
  /\ stopped' = TRUE
  /\ process' = "draining"
  /\ UNCHANGED <<jobs, inFlight, run, stats>>

(* drain: the count is zero, or DRAIN_TIMEOUT has passed.                  *)
Drained ==
  /\ process = "draining"
  /\ inFlight = 0
  /\ process' = "drained"
  /\ UNCHANGED <<jobs, stopped, inFlight, run, stats>>

(* Mutant: drain waits for ever.                                           *)
DrainTimeout_Never == FALSE /\ UNCHANGED cronVars

DrainTimeout ==
  /\ process = "draining"
  /\ inFlight > 0
  /\ process' = "timedOut"
  /\ UNCHANGED <<jobs, stopped, inFlight, run, stats>>

-----------------------------------------------------------------------------
(* execute: look at the flag, claim a slot, look again, run.               *)

Dispatch(r, j) ==
  /\ process # "building"
  /\ j \in jobs
  /\ run[r].pc = "unused"
  /\ run' = [run EXCEPT ![r] = [pc |-> "check", job |-> j, manual |-> FALSE]]
  /\ UNCHANGED <<process, jobs, stopped, inFlight, stats>>

Check(r) ==
  /\ run[r].pc = "check"
  /\ Move(r, IF stopped THEN "over" ELSE "claim")
  /\ UNCHANGED <<process, jobs, stopped, inFlight, stats>>

Claim(r) ==
  /\ run[r].pc = "claim"
  /\ inFlight' = inFlight + 1
  /\ Move(r, "recheck")
  /\ UNCHANGED <<process, jobs, stopped, stats>>

(* Mutant: the flag is not read again once the slot is claimed.            *)
Recheck_Skipped(r) ==
  /\ run[r].pc = "recheck"
  /\ Move(r, "running")
  /\ UNCHANGED <<process, jobs, stopped, inFlight, stats>>

Recheck(r) ==
  /\ run[r].pc = "recheck"
  /\ IF stopped
       THEN inFlight' = inFlight - 1 /\ Move(r, "over")
       ELSE UNCHANGED inFlight /\ Move(r, "running")
  /\ UNCHANGED <<process, jobs, stopped, stats>>

(* run_now, from the admin console: counted, not gated on the flag.        *)
RunNow(r, j) ==
  /\ process = "serving"
  /\ j \in jobs
  /\ run[r].pc = "unused"
  /\ inFlight' = inFlight + 1
  /\ run' = [run EXCEPT ![r] = [pc |-> "running", job |-> j, manual |-> TRUE]]
  /\ UNCHANGED <<process, jobs, stopped, stats>>

(* run_recorded: the job returned Ok or Err and the metrics say which.     *)
RunRecorded(r) ==
  /\ run[r].pc = "running"
  /\ \E failed \in {0, 1} :
       stats' = [stats EXCEPT ![run[r].job].total = @ + 1,
                              ![run[r].job].failures = @ + failed]
  /\ Move(r, "leaving")
  /\ UNCHANGED <<process, jobs, stopped, inFlight>>

(* Drop for InFlight: after the record, and when the job panicked or, for  *)
(* a manual run, the client went away.                                     *)
(* Mutant: a panicking job keeps its slot.                                 *)
Exit_Leaks(r) ==
  /\ run[r].pc \in {"leaving", "running"}
  /\ inFlight' = IF run[r].pc = "leaving" THEN inFlight - 1 ELSE inFlight
  /\ Move(r, "over")
  /\ UNCHANGED <<process, jobs, stopped, stats>>

Exit(r) ==
  /\ run[r].pc \in {"leaving", "running"}
  /\ inFlight' = inFlight - 1
  /\ Move(r, "over")
  /\ UNCHANGED <<process, jobs, stopped, stats>>

-----------------------------------------------------------------------------
CronInit ==
  /\ process = "building"
  /\ jobs = {}
  /\ stopped = FALSE
  /\ inFlight = 0
  /\ run = [r \in Runs |-> Fresh]
  /\ stats = [j \in Jobs |-> [total |-> 0, failures |-> 0]]

CronNext ==
  \/ \E j \in Jobs : Register(j)
  \/ Start \/ ServerDrained \/ SetStopped \/ Drained \/ DrainTimeout
  \/ \E r \in Runs :
       \/ Check(r) \/ Claim(r) \/ Recheck(r) \/ RunRecorded(r) \/ Exit(r)
       \/ \E j \in Jobs : Dispatch(r, j) \/ RunNow(r, j)

(* Only the clock of drain is relied on: a job may hang for ever.          *)
CronFairness == WF_cronVars(Drained \/ DrainTimeout)

CronSpec == CronInit /\ [][CronNext]_cronVars /\ CronFairness

-----------------------------------------------------------------------------
CronTypeOK ==
  /\ process \in {"building", "serving", "stopping", "draining", "drained", "timedOut"}
  /\ jobs \subseteq Jobs
  /\ stopped \in BOOLEAN
  /\ inFlight \in Nat
  /\ run \in [Runs -> [pc : {"unused", "check", "claim", "recheck", "running",
                             "leaving", "over"},
                       job : Jobs, manual : BOOLEAN]]
  /\ stats \in [Jobs -> [total : Nat, failures : Nat]]

InSlot == {r \in Runs : run[r].pc \in {"recheck", "running", "leaving"}}

(***************************************************************************)
(* in_flight is the number of slots taken, "correct across early returns   *)
(* and panics" (InFlight).                                                 *)
(***************************************************************************)
SlotsCounted == inFlight = Cardinality(InSlot)

(***************************************************************************)
(* "either shutdown sees the count, or this sees the flag" (execute): once *)
(* drain saw a count of zero, no job runs, whatever was being dispatched.  *)
(***************************************************************************)
NothingRunsAfterDrain ==
  process = "drained" => \A r \in Runs : run[r].pc \notin {"running", "leaving"}

(***************************************************************************)
(* "a job wedged on a hung connection must not hold the process open       *)
(* forever" (DRAIN_TIMEOUT): shutdown returns though jobs need not.        *)
(***************************************************************************)
ShutdownReturns == process = "draining" ~> process \in {"drained", "timedOut"}

=============================================================================
