--------------------------- MODULE CronScheduler ---------------------------
(***************************************************************************)
(* How APScheduler's table of armed jobs follows the cron_jobs table       *)
(* (scheduler/service.py and scheduler/registry.py, called by the job and  *)
(* script routes after their commit).                                      *)
(*                                                                         *)
(* The database is the source of truth.  An HTTP handler commits its       *)
(* change, then re-arms or disarms the one job it changed; a script edit   *)
(* and the periodic resync job reconcile everything with sync_from_db.     *)
(* Handlers run in the web framework's pool and the resync in              *)
(* APScheduler's, with no lock between reading the database and writing    *)
(* the table.                                                              *)
(***************************************************************************)
EXTENDS Naturals, FiniteSets, Functions

CONSTANTS
    Jobs, Scripts,
    Exprs,              \* valid cron expressions
    Schedulable,        \* those CronTrigger.from_crontab accepts
    WebThreads, Periodic,
    NoJob, NoScript, NotArmed, Nobody,
    MaxEdits,           \* bound: HTTP requests that edit a job or a script
    MaxRestarts         \* bound: restarts of the process

ASSUME SchedulableAssumption == Schedulable \subseteq Exprs /\ NotArmed \notin Exprs
ASSUME PeriodicAssumption == Periodic \notin WebThreads
ASSUME NobodyAssumption == Nobody \notin WebThreads \cup {Periodic}
ASSUME NoScriptAssumption == NoScript \notin Scripts /\ NoJob \notin Jobs
ASSUME BoundsAssumption == {MaxEdits, MaxRestarts} \subseteq Nat

VARIABLES
    (* The database. *)
    row,        \* cron_jobs: state, schedule_expression, script_id
    script,     \* scripts: "enabled", "disabled" or "deleted"
    (* The process. *)
    armed,      \* APScheduler's table: the trigger of each armed job
    serving,    \* the lifespan's startup is over: requests are accepted
    pc, frame,  \* each thread's position and local variables
    (* Bookkeeping that the program does not keep. *)
    solo,       \* the thread that has been alone since it started, if any
    overlapped, \* two activities overlapped since the last undisturbed sync
    edits, restarts

database == <<row, script>>
process  == <<armed, serving, pc, frame>>
counters == <<edits, restarts>>
vars == <<database, process, solo, overlapped, counters>>

Threads == WebThreads \cup {Periodic}

Rows == [state : {"absent", "active", "paused", "deleted"}, expr : Exprs,
         script : Scripts \cup {NoScript}]

(***************************************************************************)
(* A frame holds the job of add_or_replace_from_db and the expression it   *)
(* read, or sync_from_db's snapshot: the jobs still to arm with their      *)
(* expressions, desired_ids, and the armed jobs still to remove.           *)
(***************************************************************************)
Snapshots == UNION {[S -> Exprs] : S \in SUBSET Jobs}
NoSnapshot == [j \in {} |-> NotArmed]
IdleFrame == [job |-> NoJob, expr |-> NotArmed, script |-> NoScript,
              todo |-> NoSnapshot, desired |-> {}, stale |-> {}]

Frames == [job : Jobs \cup {NoJob}, expr : Exprs \cup {NotArmed},
           script : Scripts \cup {NoScript},
           todo : Snapshots, desired : SUBSET Jobs, stale : SUBSET Jobs]

Stages == {"idle", "read", "eligible", "arm", "disarm", "delete_script",
           "snapshot", "arming", "pruning"}

TypeOK ==
    /\ row \in [Jobs -> Rows]
    /\ script \in [Scripts -> {"enabled", "disabled", "deleted"}]
    /\ armed \in [Jobs -> Schedulable \cup {NotArmed}]
    /\ serving \in BOOLEAN
    /\ pc \in [Threads -> Stages]
    /\ frame \in [Threads -> Frames]
    /\ solo \in Threads \cup {Nobody}
    /\ overlapped \in BOOLEAN
    /\ edits \in Nat
    /\ restarts \in Nat

-----------------------------------------------------------------------------
(***************************************************************************)
(* Which jobs list_eligible_for_scheduling returns: alive, active and      *)
(* bound to an existing, enabled script.                                   *)
(***************************************************************************)
Eligible(j) == /\ row[j].state = "active"
               /\ row[j].script # NoScript
               /\ script[row[j].script] = "enabled"

EligibleJobs == {j \in Jobs : Eligible(j)}
ArmedJobs == {j \in Jobs : armed[j] # NotArmed}
Alive(j) == row[j].state \in {"active", "paused"}

\* Mutant: the expression is not checked.
AddUnchecked(j, expr) == armed' = [armed EXCEPT ![j] = expr]

(***************************************************************************)
(* add_or_replace: an expression that from_crontab rejects is logged and   *)
(* the table is left as it is.                                             *)
(***************************************************************************)
AddOrReplace(j, expr) ==
    IF expr \in Schedulable THEN armed' = [armed EXCEPT ![j] = expr]
                            ELSE UNCHANGED armed

RemoveIfArmed(j) == armed' = [armed EXCEPT ![j] = NotArmed]

(***************************************************************************)
(* The process starts with its database as the last one left it, nothing   *)
(* armed, and CronScheduler.start's sync_from_db to do before it serves.   *)
(***************************************************************************)
Init ==
    /\ row \in [Jobs -> [state : {"absent", "active", "paused"}, expr : Exprs,
                         script : Scripts \cup {NoScript}]]
    /\ script = [s \in Scripts |-> "enabled"]
    /\ armed = [j \in Jobs |-> NotArmed]
    /\ serving = FALSE
    /\ pc = [t \in Threads |-> IF t = Periodic THEN "snapshot" ELSE "idle"]
    /\ frame = [t \in Threads |-> IdleFrame]
    /\ solo = Periodic
    /\ overlapped = FALSE
    /\ edits = 0
    /\ restarts = 0

-----------------------------------------------------------------------------
(***************************************************************************)
(* A thread begins, goes on and ends.  Begin and End keep the bookkeeping: *)
(* an activity that starts beside another one makes "overlapped" true, and *)
(* only a sync that nothing overlapped makes it false again.               *)
(***************************************************************************)
Quiet == \A t \in Threads : pc[t] = "idle"

Begin(t, stage, local) ==
    /\ pc[t] = "idle"
    /\ pc' = [pc EXCEPT ![t] = stage]
    /\ frame' = [frame EXCEPT ![t] = local]
    /\ solo' = IF Quiet THEN t ELSE Nobody
    /\ overlapped' = (overlapped \/ ~Quiet)

Goto(t, stage, local) ==
    /\ pc' = [pc EXCEPT ![t] = stage]
    /\ frame' = [frame EXCEPT ![t] = local]
    /\ UNCHANGED <<solo, overlapped>>

End(t) ==
    /\ pc' = [pc EXCEPT ![t] = "idle"]
    /\ frame' = [frame EXCEPT ![t] = IdleFrame]
    /\ overlapped' = IF pc[t] = "pruning" /\ solo = t THEN FALSE ELSE overlapped
    /\ UNCHANGED solo

-----------------------------------------------------------------------------
(***************************************************************************)
(* HTTP handlers: the service's commit, then the route's notification.     *)
(* A request that changes nothing notifies the scheduler all the same.     *)
(***************************************************************************)
Request(t) ==
    /\ serving
    /\ edits < MaxEdits
    /\ edits' = edits + 1
    /\ UNCHANGED <<armed, serving, restarts>>

NotifyJobChanged(t, j)    == Begin(t, "read",     [IdleFrame EXCEPT !.job = j])
NotifyJobRemoved(t, j)    == Begin(t, "disarm",   [IdleFrame EXCEPT !.job = j])
Resync(t)                 == Begin(t, "snapshot", IdleFrame)

BindableScripts == {s \in Scripts : script[s] # "deleted"}

CreateJob(t, j) ==
    /\ row[j].state = "absent"
    /\ \E e \in Exprs, s \in BindableScripts \cup {NoScript} :
          row' = [row EXCEPT ![j] = [state |-> "active", expr |-> e, script |-> s]]
    /\ NotifyJobChanged(t, j)
    /\ UNCHANGED script
    /\ Request(t)

UpdateJob(t, j) ==
    /\ Alive(j)
    /\ \E e \in Exprs, s \in BindableScripts \cup {row[j].script} :
          row' = [row EXCEPT ![j] = [@ EXCEPT !.expr = e, !.script = s]]
    /\ NotifyJobChanged(t, j)
    /\ UNCHANGED script
    /\ Request(t)

ActivateJob(t, j) ==
    /\ Alive(j)
    /\ row' = [row EXCEPT ![j].state = "active"]
    /\ NotifyJobChanged(t, j)
    /\ UNCHANGED script
    /\ Request(t)

PauseJob(t, j) ==
    /\ Alive(j)
    /\ row' = [row EXCEPT ![j].state = "paused"]
    /\ NotifyJobRemoved(t, j)
    /\ UNCHANGED script
    /\ Request(t)

DeleteJob(t, j) ==
    /\ Alive(j)
    /\ row' = [row EXCEPT ![j].state = "deleted"]
    /\ NotifyJobRemoved(t, j)
    /\ UNCHANGED script
    /\ Request(t)

UpdateScript(t, s) ==
    /\ script[s] # "deleted"
    /\ \E state \in {"enabled", "disabled"} : script' = [script EXCEPT ![s] = state]
    /\ Resync(t)
    /\ UNCHANGED row
    /\ Request(t)

(***************************************************************************)
(* delete_script looks for references first and commits later; its route   *)
(* does not notify the scheduler.                                          *)
(***************************************************************************)
CheckScriptUnused(t, s) ==
    /\ script[s] # "deleted"
    /\ \A j \in Jobs : Alive(j) => row[j].script # s
    /\ Begin(t, "delete_script", [IdleFrame EXCEPT !.script = s])
    /\ UNCHANGED database
    /\ Request(t)

DeleteScript(t) ==
    /\ pc[t] = "delete_script"
    /\ script' = [script EXCEPT ![frame[t].script] = "deleted"]
    /\ End(t)
    /\ UNCHANGED <<row, armed, serving, counters>>

-----------------------------------------------------------------------------
(***************************************************************************)
(* add_or_replace_from_db: two reads of the database in one session, then  *)
(* the table.  The expression is that of the first read.                   *)
(***************************************************************************)
ReadJob(t) ==
    LET j == frame[t].job IN
    /\ pc[t] = "read"
    /\ \/ /\ row[j].state = "active"
          /\ Goto(t, "eligible", [frame[t] EXCEPT !.expr = row[j].expr])
       \/ /\ row[j].state # "active"
          /\ Goto(t, "disarm", frame[t])
    /\ UNCHANGED <<database, armed, serving, counters>>

\* Mutant: an active job is armed without looking at its script.
ReadActiveOnly(t) ==
    /\ pc[t] = "eligible"
    /\ Goto(t, "arm", frame[t])
    /\ UNCHANGED <<database, armed, serving, counters>>

ReadEligible(t) ==
    /\ pc[t] = "eligible"
    /\ \/ Eligible(frame[t].job) /\ Goto(t, "arm", frame[t])
       \/ ~Eligible(frame[t].job) /\ Goto(t, "disarm", frame[t])
    /\ UNCHANGED <<database, armed, serving, counters>>

ArmJob(t) ==
    /\ pc[t] = "arm"
    /\ AddOrReplace(frame[t].job, frame[t].expr)
    /\ End(t)
    /\ UNCHANGED <<database, serving, counters>>

DisarmJob(t) ==
    /\ pc[t] = "disarm"
    /\ RemoveIfArmed(frame[t].job)
    /\ End(t)
    /\ UNCHANGED <<database, serving, counters>>

-----------------------------------------------------------------------------
(***************************************************************************)
(* sync_from_db: one snapshot of the eligible jobs, then the table, one    *)
(* job at a time (in any order, where the code goes by id): arm what the   *)
(* snapshot has, list what is armed beyond it, remove that.                *)
(***************************************************************************)
StartPeriodicSync ==
    /\ serving
    /\ Resync(Periodic)
    /\ UNCHANGED <<database, armed, serving, counters>>

TakeSnapshot(t) ==
    /\ pc[t] = "snapshot"
    /\ Goto(t, "arming",
            [frame[t] EXCEPT !.todo = [j \in EligibleJobs |-> row[j].expr],
                             !.desired = EligibleJobs])
    /\ UNCHANGED <<database, armed, serving, counters>>

SyncArm(t) ==
    /\ pc[t] = "arming"
    /\ \E j \in DOMAIN frame[t].todo :
          /\ AddOrReplace(j, frame[t].todo[j])
          /\ Goto(t, "arming",
                  [frame[t] EXCEPT !.todo = Restrict(@, DOMAIN @ \ {j})])
    /\ UNCHANGED <<database, serving, counters>>

\* Mutant: what is armed beyond the snapshot is left armed.
ListNothingStale(t) ==
    /\ pc[t] = "arming"
    /\ DOMAIN frame[t].todo = {}
    /\ Goto(t, "pruning", frame[t])
    /\ UNCHANGED <<database, armed, serving, counters>>

ListStale(t) ==
    /\ pc[t] = "arming"
    /\ DOMAIN frame[t].todo = {}
    /\ Goto(t, "pruning", [frame[t] EXCEPT !.stale = ArmedJobs \ frame[t].desired])
    /\ UNCHANGED <<database, armed, serving, counters>>

SyncRemove(t) ==
    /\ pc[t] = "pruning"
    /\ \E j \in frame[t].stale :
          /\ RemoveIfArmed(j)
          /\ Goto(t, "pruning", [frame[t] EXCEPT !.stale = @ \ {j}])
    /\ UNCHANGED <<database, serving, counters>>

(***************************************************************************)
(* The first sync of a process is the last thing before it serves.         *)
(***************************************************************************)
EndSync(t) ==
    /\ pc[t] = "pruning"
    /\ frame[t].stale = {}
    /\ serving' = TRUE
    /\ End(t)
    /\ UNCHANGED <<database, armed, counters>>

(***************************************************************************)
(* The process dies and starts again.  The table is in memory.             *)
(***************************************************************************)
Restart ==
    /\ restarts < MaxRestarts
    /\ restarts' = restarts + 1
    /\ armed' = [j \in Jobs |-> NotArmed]
    /\ serving' = FALSE
    /\ pc' = [t \in Threads |-> IF t = Periodic THEN "snapshot" ELSE "idle"]
    /\ frame' = [t \in Threads |-> IdleFrame]
    /\ solo' = Periodic
    /\ UNCHANGED <<database, overlapped, edits>>

-----------------------------------------------------------------------------
Work(t) ==
    \/ ReadJob(t) \/ ReadEligible(t) \/ ArmJob(t) \/ DisarmJob(t) \/ DeleteScript(t)
    \/ TakeSnapshot(t) \/ SyncArm(t) \/ ListStale(t) \/ SyncRemove(t) \/ EndSync(t)

HandleRequest(t) ==
    \/ \E j \in Jobs : \/ CreateJob(t, j) \/ UpdateJob(t, j)
                       \/ ActivateJob(t, j) \/ PauseJob(t, j) \/ DeleteJob(t, j)
    \/ \E s \in Scripts : UpdateScript(t, s) \/ CheckScriptUnused(t, s)

Next ==
    \/ \E t \in WebThreads : HandleRequest(t)
    \/ \E t \in Threads : Work(t)
    \/ StartPeriodicSync
    \/ Restart

(***************************************************************************)
(* Both pools run their threads, and the interval trigger of               *)
(* cronpanel:resync fires again and again.                                 *)
(***************************************************************************)
Fairness ==
    /\ \A t \in Threads : WF_vars(Work(t))
    /\ WF_vars(StartPeriodicSync)

Spec == Init /\ [][Next]_vars
FairSpec == Spec /\ Fairness

-----------------------------------------------------------------------------
(***************************************************************************)
(* A job's trigger agrees with its row.  Of an eligible job whose          *)
(* expression cannot be scheduled nothing is said here.                    *)
(***************************************************************************)
Agrees(j) ==
    /\ ~Eligible(j) => armed[j] = NotArmed
    /\ Eligible(j) /\ row[j].expr \in Schedulable => armed[j] = row[j].expr

\* When nothing is under way and no two activities overlapped since the last
\* undisturbed sync, every trigger agrees with its row: each handler's commit
\* and notification together leave nothing behind, a restart included, and one
\* undisturbed sync_from_db repairs what overlapping ones left.
QuietMeansAgreed ==
    Quiet /\ ~overlapped => \A j \in Jobs : Agrees(j)

\* Once requests and restarts stop, the table agrees with the database for good
\* ("the next sync reconciles", scheduler/registry.py), whatever overlapped.
Converges == <>[](\A j \in Jobs : Agrees(j))
=============================================================================
