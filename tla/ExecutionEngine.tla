-------------------------- MODULE ExecutionEngine --------------------------
(***************************************************************************)
(* The execution pipeline of CronPanel: a fire of the scheduler            *)
(* (scheduler/jobs.py, run_scheduled_job) or an HTTP request               *)
(* (routes/cron_jobs.py, execute_cron_job) becomes a row of the executions *)
(* table, a subprocess and audit records (services/execution_service.py).  *)
(*                                                                         *)
(* One uvicorn process serves both callers: APScheduler's pool runs the    *)
(* fires (SchedThreads), the web framework's pool the requests             *)
(* (WebThreads).  Each thread has its own database session, so every       *)
(* SELECT and every commit is a step of its own.                           *)
(***************************************************************************)
EXTENDS Naturals, Sequences, FiniteSets

CONSTANTS
    Jobs, Scripts,
    PythonScripts,      \* scripts whose file name ends in .py
    SchedThreads, WebThreads,
    NoJob, NoScript,
    MaxFires,           \* bound: fires of the scheduler per job
    MaxRequests,        \* bound: HTTP execute requests
    MaxEdits,           \* bound: committed edits of jobs, scripts and files
    MaxFaults           \* bound: process restarts and failed commits

ASSUME ThreadsAssumption == SchedThreads \cap WebThreads = {} /\ IsFiniteSet(SchedThreads)
ASSUME ScriptsAssumption == PythonScripts \subseteq Scripts /\ NoScript \notin Scripts
ASSUME NoJobAssumption == NoJob \notin Jobs
ASSUME BoundsAssumption == {MaxFires, MaxRequests, MaxEdits, MaxFaults} \subseteq Nat

VARIABLES
    (* The database and the file system: they survive a restart. *)
    jobRow,       \* cron_jobs, the columns the pipeline reads
    scriptRow,    \* scripts, the columns the pipeline reads
    file,         \* the file behind a script's path
    executions,   \* executions, oldest first: the id is the position
    trail,        \* audit_logs with resource "execution", per execution id
    skips,        \* EXECUTION_SKIPPED records, per job and reason
    (* The process: lost on a restart. *)
    instances,    \* runs APScheduler counts as in progress, per job id
    pc, frame,    \* each thread's position and local variables
    (* Bookkeeping that the program does not keep. *)
    fired,        \* fires of the scheduler, per job
    discarded,    \* fires that left no record, per job and cause
    used          \* how much of each bound is spent

database == <<jobRow, scriptRow, file, executions, trail, skips>>
process  == <<instances, pc, frame>>
vars == <<database, process, fired, discarded, used>>

Threads == SchedThreads \cup WebThreads

RUNNING == "running"
FinalStatuses == {"success", "failed", "timed_out"}
Triggers == {"scheduled", "manual"}
SkipReasons == {"already_running", "no_longer_exists", "paused", "script_unavailable"}
DiscardCauses == {"ignored", "max_instances", "error", "restart"}
FileStates == {"executable", "plain", "missing"}
AuditActions == {"STARTED", "SUCCEEDED", "FAILED", "TIMED_OUT"}

(***************************************************************************)
(* What execute_script returns, as _run classifies it: the exit code when  *)
(* the process ended, an error string when it did not.                     *)
(***************************************************************************)
ExitCodes == {"zero", "nonzero", "none"}
Errors == {"timeout_expired", "cannot_run", "none"}
Results ==
    {[timed_out |-> FALSE, exit_code |-> "zero",    error |-> "none"],
     [timed_out |-> FALSE, exit_code |-> "nonzero", error |-> "none"],
     [timed_out |-> FALSE, exit_code |-> "none",    error |-> "cannot_run"],
     [timed_out |-> TRUE,  exit_code |-> "none",    error |-> "timeout_expired"]}

StatusOf(result) ==
    IF result.timed_out THEN "timed_out"
    ELSE IF result.exit_code = "zero" /\ result.error = "none" THEN "success"
    ELSE "failed"

FinalActionOf(status) ==
    CASE status = "timed_out" -> "TIMED_OUT"
      [] status = "success"   -> "SUCCEEDED"
      [] status = "failed"    -> "FAILED"

JobRows == [active : BOOLEAN, deleted : BOOLEAN, script : Scripts \cup {NoScript}]
ScriptRows == [enabled : BOOLEAN, deleted : BOOLEAN]
ExecutionRows == [job : Jobs, trigger : Triggers, status : {RUNNING} \cup FinalStatuses]

(***************************************************************************)
(* A thread's frame: the job id it was called with, its ORM copy of the    *)
(* job's row, the reason of the skip it is about to record, the execution  *)
(* it has to finalise (0 when none) and the result of the script.          *)
(* seen is bookkeeping: the length of the executions table when            *)
(* has_running_execution was asked.                                        *)
(***************************************************************************)
NoResult == [timed_out |-> FALSE, exit_code |-> "none", error |-> "none"]
IdleFrame == [job |-> NoJob, active |-> FALSE, script |-> NoScript,
              reason |-> "none", seen |-> 0, run |-> 0, result |-> NoResult]

Frames == [job : Jobs \cup {NoJob}, active : BOOLEAN, script : Scripts \cup {NoScript},
           reason : SkipReasons \cup {"none"}, seen : Nat, run : Nat,
           result : Results \cup {NoResult}]

Stages == {"idle", "load", "check", "reread", "resolve", "skip", "start", "launch", "running"}

TypeOK ==
    /\ jobRow \in [Jobs -> JobRows]
    /\ scriptRow \in [Scripts -> ScriptRows]
    /\ file \in [Scripts -> FileStates]
    /\ executions \in Seq(ExecutionRows)
    /\ trail \in Seq(Seq(AuditActions))
    /\ skips \in [Jobs -> [SkipReasons -> Nat]]
    /\ instances \in [Jobs -> Nat]
    /\ pc \in [Threads -> Stages]
    /\ frame \in [Threads -> Frames]
    /\ fired \in [Jobs -> Nat]
    /\ discarded \in [Jobs -> [DiscardCauses -> Nat]]
    /\ used \in [requests : Nat, edits : Nat, faults : Nat]

Init ==
    /\ jobRow \in [Jobs -> [active : BOOLEAN, deleted : {FALSE}, script : Scripts \cup {NoScript}]]
    /\ scriptRow = [s \in Scripts |-> [enabled |-> TRUE, deleted |-> FALSE]]
    /\ file = [s \in Scripts |-> "executable"]
    /\ executions = <<>>
    /\ trail = <<>>
    /\ skips = [j \in Jobs |-> [r \in SkipReasons |-> 0]]
    /\ instances = [j \in Jobs |-> 0]
    /\ pc = [t \in Threads |-> "idle"]
    /\ frame = [t \in Threads |-> IdleFrame]
    /\ fired = [j \in Jobs |-> 0]
    /\ discarded = [j \in Jobs |-> [c \in DiscardCauses |-> 0]]
    /\ used = [requests |-> 0, edits |-> 0, faults |-> 0]

-----------------------------------------------------------------------------
(***************************************************************************)
(* How a call ends.  APScheduler frees the job's slot when the callback    *)
(* returns, however it returns.                                            *)
(***************************************************************************)
TriggerOf(t) == IF t \in SchedThreads THEN "scheduled" ELSE "manual"

\* Mutant: the slot of a job is not given back.
ReturnKeepingSlot(t) ==
    /\ pc' = [pc EXCEPT ![t] = "idle"]
    /\ frame' = [frame EXCEPT ![t] = IdleFrame]
    /\ UNCHANGED instances

Return(t) ==
    /\ pc' = [pc EXCEPT ![t] = "idle"]
    /\ frame' = [frame EXCEPT ![t] = IdleFrame]
    /\ instances' = IF t \in SchedThreads
                    THEN [instances EXCEPT ![frame[t].job] = @ - 1]
                    ELSE instances

Discard(j, cause) == discarded' = [discarded EXCEPT ![j][cause] = @ + 1]

(***************************************************************************)
(* The call ends without a record: a fire is only logged, a request gets   *)
(* an HTTP error.                                                          *)
(***************************************************************************)
GiveUp(t, cause) ==
    /\ Return(t)
    /\ IF t \in SchedThreads THEN Discard(frame[t].job, cause) ELSE UNCHANGED discarded
    /\ UNCHANGED <<database, fired, used>>

(***************************************************************************)
(* The call goes on to its next stage, with a new local state.             *)
(***************************************************************************)
Goto(t, stage, local) ==
    /\ pc' = [pc EXCEPT ![t] = stage]
    /\ frame' = [frame EXCEPT ![t] = local]
    /\ UNCHANGED <<instances, discarded, fired, used>>

(***************************************************************************)
(* A handler decides to record a skip; a request has no skip, it ends.     *)
(***************************************************************************)
GoSkip(t, reason) == Goto(t, "skip", [frame[t] EXCEPT !.reason = reason])

-----------------------------------------------------------------------------
(***************************************************************************)
(* APScheduler's side: a due job is handed to a pool thread unless a run   *)
(* of the same id is in progress (max_instances = 1); then the fire is     *)
(* dropped inside the library.  Nothing here reads the database: a fire    *)
(* may concern a job that was paused or deleted a moment ago.              *)
(***************************************************************************)
\* Mutant: max_instances is not set.
FireWithoutSlot(t, j) ==
    /\ t \in SchedThreads
    /\ pc[t] = "idle"
    /\ fired[j] < MaxFires
    /\ fired' = [fired EXCEPT ![j] = @ + 1]
    /\ instances' = [instances EXCEPT ![j] = @ + 1]
    /\ pc' = [pc EXCEPT ![t] = "load"]
    /\ frame' = [frame EXCEPT ![t] = [IdleFrame EXCEPT !.job = j]]
    /\ UNCHANGED <<database, discarded, used>>

\* Mutant: a submitted run is not counted.
FireUncounted(t, j) ==
    /\ t \in SchedThreads
    /\ pc[t] = "idle"
    /\ instances[j] < 1
    /\ fired[j] < MaxFires
    /\ fired' = [fired EXCEPT ![j] = @ + 1]
    /\ pc' = [pc EXCEPT ![t] = "load"]
    /\ frame' = [frame EXCEPT ![t] = [IdleFrame EXCEPT !.job = j]]
    /\ UNCHANGED <<database, instances, discarded, used>>

Fire(t, j) ==
    /\ t \in SchedThreads
    /\ pc[t] = "idle"
    /\ instances[j] < 1
    /\ fired[j] < MaxFires
    /\ fired' = [fired EXCEPT ![j] = @ + 1]
    /\ instances' = [instances EXCEPT ![j] = @ + 1]
    /\ pc' = [pc EXCEPT ![t] = "load"]
    /\ frame' = [frame EXCEPT ![t] = [IdleFrame EXCEPT !.job = j]]
    /\ UNCHANGED <<database, discarded, used>>

FireAtMaxInstances(j) ==
    /\ instances[j] >= 1
    /\ fired[j] < MaxFires
    /\ fired' = [fired EXCEPT ![j] = @ + 1]
    /\ Discard(j, "max_instances")
    /\ UNCHANGED <<database, process, used>>

(***************************************************************************)
(* run_scheduled_job, first read: a job that is deleted or paused makes    *)
(* the callback return at once.  Otherwise the session keeps this copy of  *)
(* the row: a later SELECT of the same job in the same session finds the   *)
(* object in the identity map and leaves its attributes as they are.       *)
(***************************************************************************)
LoadJob(t) ==
    LET row == jobRow[frame[t].job] IN
    /\ pc[t] = "load"
    /\ \/ /\ row.deleted \/ ~row.active
          /\ GiveUp(t, "ignored")
       \/ /\ ~row.deleted /\ row.active
          /\ Goto(t, "check", [frame[t] EXCEPT !.active = row.active, !.script = row.script])
          /\ UNCHANGED database

\* Mutant: only the scheduler's own runs are looked at.
HasRunningScheduled(j) ==
    \E id \in DOMAIN executions : /\ executions[id].job = j
                                  /\ executions[id].trigger = "scheduled"
                                  /\ executions[id].status = RUNNING

HasRunningExecution(j) ==
    \E id \in DOMAIN executions : executions[id].job = j /\ executions[id].status = RUNNING

\* Mutant: the rule is dropped, APScheduler's max_instances has to do.
CheckNothing(t) ==
    /\ pc[t] = "check"
    /\ Goto(t, "reread", [frame[t] EXCEPT !.seen = Len(executions)])
    /\ UNCHANGED database

(***************************************************************************)
(* The one-run-at-a-time rule of run_scheduled_job.                        *)
(***************************************************************************)
CheckRunning(t) ==
    /\ pc[t] = "check"
    /\ \/ /\ HasRunningExecution(frame[t].job)
          /\ GoSkip(t, "already_running")
       \/ /\ ~HasRunningExecution(frame[t].job)
          /\ Goto(t, "reread", [frame[t] EXCEPT !.seen = Len(executions)])
    /\ UNCHANGED database

(***************************************************************************)
(* run_scheduled_cron_job reads the job again.  The WHERE clause sees the  *)
(* committed is_deleted; the copy's is_active and script_id stay those of  *)
(* the first read.                                                         *)
(***************************************************************************)
RereadJob(t) ==
    /\ pc[t] = "reread"
    /\ \/ /\ jobRow[frame[t].job].deleted
          /\ GoSkip(t, "no_longer_exists")
       \/ /\ ~jobRow[frame[t].job].deleted
          /\ Goto(t, "resolve", frame[t])
    /\ UNCHANGED database

(***************************************************************************)
(* An HTTP execute request: run_cron_job reads the job.  A job that does   *)
(* not exist, or that the caller may not execute, ends the request with    *)
(* nothing changed, so only the accepted request is a step.                *)
(***************************************************************************)
RequestRun(t, j) ==
    /\ t \in WebThreads
    /\ pc[t] = "idle"
    /\ used.requests < MaxRequests
    /\ ~jobRow[j].deleted
    /\ pc' = [pc EXCEPT ![t] = "resolve"]
    /\ frame' = [frame EXCEPT ![t] = [IdleFrame EXCEPT !.job = j,
                                                       !.active = jobRow[j].active,
                                                       !.script = jobRow[j].script]]
    /\ used' = [used EXCEPT !.requests = @ + 1]
    /\ UNCHANGED <<database, instances, fired, discarded>>

-----------------------------------------------------------------------------
(***************************************************************************)
(* _run: the checks before anything is written.  Each exception of theirs  *)
(* is an HTTP 400 for a request; for a fire, run_scheduled_job records a   *)
(* skip, except for a ScriptPathError, which it only logs.                 *)
(***************************************************************************)
ScriptUsable(s) == s # NoScript /\ scriptRow[s].enabled /\ ~scriptRow[s].deleted

Refuse(t, reason) ==
    \/ /\ t \in SchedThreads
       /\ GoSkip(t, reason)
       /\ UNCHANGED database
    \/ /\ t \in WebThreads
       /\ GiveUp(t, "error")

RaiseJobInactive(t) ==
    /\ pc[t] = "resolve"
    /\ ~frame[t].active
    /\ Refuse(t, "paused")

RaiseScriptUnavailable(t) ==
    /\ pc[t] = "resolve"
    /\ frame[t].active
    /\ ~ScriptUsable(frame[t].script)
    /\ Refuse(t, "script_unavailable")

RaiseScriptPath(t) ==
    /\ pc[t] = "resolve"
    /\ frame[t].active
    /\ ScriptUsable(frame[t].script)
    /\ file[frame[t].script] = "missing"
    /\ GiveUp(t, "error")

ResolveScript(t) ==
    /\ pc[t] = "resolve"
    /\ frame[t].active
    /\ ScriptUsable(frame[t].script)
    /\ file[frame[t].script] # "missing"
    /\ Goto(t, "start", frame[t])
    /\ UNCHANGED database

\* Mutant: the skip's record is never committed.
SkipUncommitted(t) ==
    /\ pc[t] = "skip"
    /\ Return(t)
    /\ UNCHANGED <<database, fired, discarded, used>>

(***************************************************************************)
(* _record_skip: one audit record, one commit.                             *)
(***************************************************************************)
RecordSkip(t) ==
    /\ pc[t] = "skip"
    /\ skips' = [skips EXCEPT ![frame[t].job][frame[t].reason] = @ + 1]
    /\ Return(t)
    /\ UNCHANGED <<jobRow, scriptRow, file, executions, trail, fired, discarded, used>>

(***************************************************************************)
(* _run: the RUNNING row and EXECUTION_STARTED, in one commit.             *)
(***************************************************************************)
StartExecution(t) ==
    /\ pc[t] = "start"
    /\ executions' = Append(executions, [job |-> frame[t].job, trigger |-> TriggerOf(t),
                                         status |-> RUNNING])
    /\ trail' = Append(trail, <<"STARTED">>)
    /\ Goto(t, "launch", [frame[t] EXCEPT !.run = Len(executions) + 1])
    /\ UNCHANGED <<jobRow, scriptRow, file, skips>>

(***************************************************************************)
(* execute_script: resolve_argv looks at the file again, outside the try.  *)
(* A file that is not Python and not executable raises out of _run with    *)
(* the row still RUNNING.  Otherwise the child runs to a result; Python    *)
(* started on a file that has vanished exits with an error.                *)
(***************************************************************************)
Launchable(s) == s \in PythonScripts \/ file[s] = "executable"

ResultsOf(s) == IF file[s] = "missing" THEN {r \in Results : StatusOf(r) = "failed"}
                ELSE Results

RaiseUnsupportedScript(t) ==
    /\ pc[t] = "launch"
    /\ ~Launchable(frame[t].script)
    /\ Return(t)
    /\ UNCHANGED <<database, fired, discarded, used>>

\* Mutant: TimeoutExpired is not caught.
LaunchUncaught(t) ==
    /\ pc[t] = "launch"
    /\ Launchable(frame[t].script)
    /\ \E r \in ResultsOf(frame[t].script) :
          IF r.timed_out
          THEN Return(t) /\ UNCHANGED <<database, fired, discarded, used>>
          ELSE /\ Goto(t, "running", [frame[t] EXCEPT !.result = r])
               /\ UNCHANGED database

LaunchScript(t) ==
    /\ pc[t] = "launch"
    /\ Launchable(frame[t].script)
    /\ \E r \in ResultsOf(frame[t].script) :
          Goto(t, "running", [frame[t] EXCEPT !.result = r])
    /\ UNCHANGED database

\* Mutant: the final audit record has a commit of its own, before the row's.
FinaliseInTwoCommits(t) ==
    LET id == frame[t].run
        status == StatusOf(frame[t].result)
    IN
    /\ pc[t] = "running"
    /\ \/ /\ trail[id] = <<"STARTED">>
          /\ trail' = [trail EXCEPT ![id] = Append(@, FinalActionOf(status))]
          /\ UNCHANGED <<executions, process, discarded>>
       \/ /\ trail[id] # <<"STARTED">>
          /\ executions' = [executions EXCEPT ![id].status = status]
          /\ Return(t)
          /\ UNCHANGED <<trail, discarded>>
    /\ UNCHANGED <<jobRow, scriptRow, file, skips, fired, used>>

\* Mutant: the update names the job, not the execution.
FinaliseByJob(t) ==
    LET id == frame[t].run
        status == StatusOf(frame[t].result)
    IN
    /\ pc[t] = "running"
    /\ executions' = [i \in DOMAIN executions |->
                        IF executions[i].job = frame[t].job
                        THEN [executions[i] EXCEPT !.status = status]
                        ELSE executions[i]]
    /\ trail' = [trail EXCEPT ![id] = Append(@, FinalActionOf(status))]
    /\ Return(t)
    /\ UNCHANGED <<jobRow, scriptRow, file, skips, fired, discarded, used>>

(***************************************************************************)
(* _run: the final status and the final audit record, in one commit.       *)
(***************************************************************************)
FinaliseExecution(t) ==
    LET id == frame[t].run
        status == StatusOf(frame[t].result)
    IN
    /\ pc[t] = "running"
    /\ executions' = [executions EXCEPT ![id].status = status]
    /\ trail' = [trail EXCEPT ![id] = Append(@, FinalActionOf(status))]
    /\ Return(t)
    /\ UNCHANGED <<jobRow, scriptRow, file, skips, fired, discarded, used>>

-----------------------------------------------------------------------------
(***************************************************************************)
(* A commit fails (SQLite stayed locked past its timeout): the transaction *)
(* is rolled back and the exception ends the call.                         *)
(***************************************************************************)
CommitFails(t) ==
    /\ pc[t] \in {"skip", "start", "running"}
    /\ used.faults < MaxFaults
    /\ used' = [used EXCEPT !.faults = @ + 1]
    /\ Return(t)
    /\ IF t \in SchedThreads /\ pc[t] # "running"
       THEN Discard(frame[t].job, "error")
       ELSE UNCHANGED discarded
    /\ UNCHANGED <<database, fired>>

(***************************************************************************)
(* The process dies and starts again: every thread and APScheduler's       *)
(* counters are lost.  main.lifespan does not touch the executions table.  *)
(***************************************************************************)
Undecided(t, j) == /\ t \in SchedThreads
                   /\ frame[t].job = j
                   /\ pc[t] \in {"load", "check", "reread", "resolve", "skip", "start"}
Pending(j) == Cardinality({t \in SchedThreads : Undecided(t, j)})

Restart ==
    /\ used.faults < MaxFaults
    /\ used' = [used EXCEPT !.faults = @ + 1]
    /\ instances' = [j \in Jobs |-> 0]
    /\ pc' = [t \in Threads |-> "idle"]
    /\ frame' = [t \in Threads |-> IdleFrame]
    /\ discarded' = [j \in Jobs |-> [discarded[j] EXCEPT !["restart"] = @ + Pending(j)]]
    /\ UNCHANGED <<database, fired>>

(***************************************************************************)
(* What the rest of the application commits while a run is under way, as   *)
(* far as the pipeline reads it: a job is paused, activated, deleted or    *)
(* bound to another script; a script is disabled, enabled or deleted, even *)
(* one that a job refers to (delete_script looks for references before its *)
(* commit, and a job may be bound in between); the file changes behind the *)
(* application's back.                                                     *)
(***************************************************************************)
Edit == /\ used.edits < MaxEdits
        /\ used' = [used EXCEPT !.edits = @ + 1]
        /\ UNCHANGED <<process, executions, trail, skips, fired, discarded>>

EditJob(j) ==
    /\ ~jobRow[j].deleted
    /\ \/ jobRow' = [jobRow EXCEPT ![j].active = ~@]
       \/ jobRow' = [jobRow EXCEPT ![j].active = FALSE, ![j].deleted = TRUE]
       \/ \E s \in Scripts : /\ ~scriptRow[s].deleted
                             /\ jobRow' = [jobRow EXCEPT ![j].script = s]
    /\ UNCHANGED <<scriptRow, file>>
    /\ Edit

EditScript(s) ==
    /\ ~scriptRow[s].deleted
    /\ \/ scriptRow' = [scriptRow EXCEPT ![s].enabled = ~@]
       \/ scriptRow' = [scriptRow EXCEPT ![s].deleted = TRUE]
    /\ UNCHANGED <<jobRow, file>>
    /\ Edit

ChangeFile(s) ==
    /\ \E state \in FileStates \ {file[s]} : file' = [file EXCEPT ![s] = state]
    /\ UNCHANGED <<jobRow, scriptRow>>
    /\ Edit

-----------------------------------------------------------------------------
(***************************************************************************)
(* The steps of the program itself, once a call is under way.              *)
(***************************************************************************)
Work(t) ==
    \/ LoadJob(t) \/ CheckRunning(t) \/ RereadJob(t)
    \/ RaiseJobInactive(t) \/ RaiseScriptUnavailable(t) \/ RaiseScriptPath(t)
    \/ ResolveScript(t) \/ RecordSkip(t) \/ StartExecution(t)
    \/ RaiseUnsupportedScript(t) \/ LaunchScript(t) \/ FinaliseExecution(t)

Next ==
    \/ \E t \in Threads, j \in Jobs : Fire(t, j) \/ RequestRun(t, j)
    \/ \E j \in Jobs : FireAtMaxInstances(j) \/ EditJob(j)
    \/ \E t \in Threads : Work(t) \/ CommitFails(t)
    \/ \E s \in Scripts : EditScript(s) \/ ChangeFile(s)
    \/ Restart

(***************************************************************************)
(* A call under way goes on: both pools run their threads, and             *)
(* subprocess.run ends within EXECUTION_TIMEOUT_SECONDS.  Nothing makes a  *)
(* fire, a request, an edit or a fault happen.                             *)
(***************************************************************************)
Fairness == \A t \in Threads : WF_vars(Work(t))

Spec == Init /\ [][Next]_vars
FairSpec == Spec /\ Fairness

-----------------------------------------------------------------------------
(***************************************************************************)
(* Safety.                                                                 *)
(***************************************************************************)
StatusTrail(status) ==
    IF status = RUNNING THEN <<"STARTED">> ELSE <<"STARTED", FinalActionOf(status)>>

\* The audit trail of every execution tells the same story as its row: it has
\* EXECUTION_STARTED exactly once and, once the row has a final status and
\* only then, the one final record that matches it - whatever commit fails and
\* wherever the process dies (execution_service._run, its two commits).
TrailMatchesStatus ==
    /\ Len(trail) = Len(executions)
    /\ \A id \in DOMAIN executions : trail[id] = StatusTrail(executions[id].status)

OpenRuns == {frame[t].run : t \in Threads} \ {0}

\* A caller that still has an execution to finalise holds a row that is
\* RUNNING and that no other caller holds, so no result overwrites another.
HeldRunsAreOpen ==
    \A t \in Threads : frame[t].run # 0 =>
        /\ frame[t].run \in DOMAIN executions
        /\ executions[frame[t].run].status = RUNNING
        /\ executions[frame[t].run].job = frame[t].job
        /\ \A u \in Threads : frame[u].run = frame[t].run => u = t

RunningScheduled(j) ==
    {id \in DOMAIN executions : /\ executions[id].job = j
                                /\ executions[id].trigger = "scheduled"
                                /\ executions[id].status = RUNNING}

\* The executions table never holds two RUNNING scheduled rows of one job, not
\* even after a restart forgot APScheduler's counters: max_instances covers
\* the time between the check and the insert, has_running_execution the rest.
OneRunningScheduledRow ==
    \A j \in Jobs : \A a, b \in RunningScheduled(j) : a = b

\* A fire that was not dropped inside APScheduler or ended by an error, a
\* restart or a job that is no longer active leaves a scheduled execution or
\* an EXECUTION_SKIPPED record, once (run_scheduled_job's branches).
ScheduledRuns(j) ==
    Cardinality({id \in DOMAIN executions : /\ executions[id].job = j
                                            /\ executions[id].trigger = "scheduled"})
Skipped(j) == skips[j]["already_running"] + skips[j]["no_longer_exists"]
                  + skips[j]["paused"] + skips[j]["script_unavailable"]
Dropped(j) == discarded[j]["ignored"] + discarded[j]["max_instances"]
                  + discarded[j]["error"] + discarded[j]["restart"]

FiresAccounted ==
    \A j \in Jobs : fired[j] = ScheduledRuns(j) + Skipped(j) + Pending(j) + Dropped(j)

\* APScheduler's counter of a job is the number of pool threads that handle the
\* job, at every moment: no exception, failed commit or restart, wherever in a
\* call it strikes, leaves a slot taken that nobody will give back, which would
\* silence the job for ever (max_instances, run_scheduled_job).
SlotsAreHeld ==
    \A j \in Jobs : instances[j] = Cardinality({t \in SchedThreads : frame[t].job = j})

\* A row with a final status is never written again, and no row ever loses its
\* job or trigger or disappears.
FinalRowsAreFrozen ==
    [][\A id \in DOMAIN executions :
          /\ id \in DOMAIN executions'
          /\ executions'[id].job = executions[id].job
          /\ executions'[id].trigger = executions[id].trigger
          /\ executions[id].status # RUNNING => executions'[id] = executions[id]]_vars

\* A scheduled run may start beside another run of its job, but only beside one
\* that was recorded after the fire asked has_running_execution.
NoStartOverAKnownRun ==
    [][\A t \in SchedThreads : pc[t] = "start" /\ pc'[t] = "launch" =>
          \A id \in DOMAIN executions :
             executions[id].job = frame[t].job /\ executions[id].status = RUNNING
                => id > frame[t].seen]_vars

\* A call lets go of the run it has started only when the run's row has a final
\* status; a row stays RUNNING with nobody left to finalise it for two reasons
\* only: a fault, or a file that cannot be launched any more when execute_script
\* looks at it again (_run, resolve_argv).
RunsLetGoForCause ==
    [][\A t \in Threads : frame[t].run # 0 /\ frame'[t].run # frame[t].run =>
          \/ executions'[frame[t].run].status # RUNNING
          \/ used'.faults > used.faults
          \/ pc[t] = "launch" /\ ~Launchable(frame[t].script)]_vars

(***************************************************************************)
(* The executions table implements RunLedger.                              *)
(***************************************************************************)
Ledger == INSTANCE RunLedger WITH
    rows <- executions, open <- OpenRuns, Scheduled <- "scheduled", Running <- RUNNING

\* Every step of the pipeline is a step of the ledger or leaves it alone.
ImplementsLedger == Ledger!Spec

(***************************************************************************)
(* Liveness.                                                               *)
(***************************************************************************)
HasStatus(id, statuses) == id \in DOMAIN executions /\ executions[id].status \in statuses

ExecutionIds == 1..(MaxRequests + MaxFires * Cardinality(Jobs))

\* A run that a caller has in hand gets a final status, unless a fault or a file
\* that cannot be launched comes in between: a nonzero exit, a timeout, a vanished
\* file or an edit of the job or the script never leave a run open (_run,
\* execute_script).  A row that has been left RUNNING for one of those two causes
\* is in nobody's hand any more, and stays as it is.
UndisturbedRunsFinalise ==
    \A id \in ExecutionIds :
        id \in OpenRuns ~>
            \/ HasStatus(id, FinalStatuses)
            \/ used.faults > 0
            \/ \E s \in Scripts : ~Launchable(s)

\* A fire gives its job's slot back, so that the job can fire again: no failure
\* of a script, of a commit or of the process leaves max_instances exhausted.
SlotIsReleased ==
    \A j \in Jobs : instances[j] = 1 ~> instances[j] = 0

(***************************************************************************)
(* What the sources say and the code does not do.                          *)
(***************************************************************************)
\* "Skipped runs (already running, script gone, job flipped to inactive) are
\* recorded in the audit trail" (scheduler/jobs.py), "Antes de ejecutar se revalida
\* que la tarea siga activa" (docs/scheduler.md): a job that was paused after the
\* first read goes from the second to its EXECUTION_SKIPPED record.
FlippedJobsAreSkipped ==
    [][\A t \in SchedThreads :
          pc[t] = "reread" /\ pc'[t] # "reread" /\ ~jobRow[frame[t].job].active =>
             pc'[t] \in {"skip", "idle"}]_vars

\* What becomes of that record: there is never one.  The JobInactiveError branch of
\* run_scheduled_job is dead, for _run sees the is_active that the first read
\* already found true, and the job is run although it is paused.
PausedIsNeverTheReason ==
    \A j \in Jobs : skips[j]["paused"] = 0

\* "se guarda ... desde el instante en que arranca (status=running) y se
\* finaliza con success, failed o timed_out" (docs/execution.md): every row that
\* is RUNNING gets a final status while no commit fails and nothing restarts.
EveryRunFinalises ==
    \A id \in ExecutionIds : HasStatus(id, {RUNNING}) ~> HasStatus(id, FinalStatuses)
=============================================================================
