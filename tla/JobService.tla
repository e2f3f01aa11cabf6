----------------------------- MODULE JobService -----------------------------
(***************************************************************************)
(* Cron jobs, scripts and their records (services/cron_job_service.py and  *)
(* services/script_service.py behind their routes) while several requests  *)
(* are under way: what a session's stale copy of a row may overwrite, and  *)
(* what cron_job_history and audit_logs say of it afterwards.              *)
(*                                                                         *)
(* A request reads a row into its session, perhaps looks at another table, *)
(* and writes.  Its first flush takes SQLite's only write lock, which it   *)
(* keeps until its commit, so that the flush and the commit are one step.  *)
(*                                                                         *)
(* Who may do what is in UserAdmin; here a request may be refused at any   *)
(* time.  What the scheduler is told afterwards is in CronScheduler.       *)
(***************************************************************************)
EXTENDS Naturals, FiniteSets, SequencesExt

CONSTANTS
    WebThreads,
    Fields,             \* name, description, command
    Parts,              \* minute, hour, day_of_month, month, day_of_week
    Texts,              \* what any of these may hold
    Scripts, NoScript,
    Null, NoRow,
    MaxId,              \* bound: rows of cron_jobs
    MaxRequests         \* bound: requests

ASSUME FieldsAssumption ==
    /\ {"script_id", "schedule_expression"} \cap (Fields \cup Parts) = {}
    /\ Fields \cap Parts = {}
ASSUME ScriptsAssumption == NoScript \notin Scripts
ASSUME NullAssumption ==
    Null \notin Texts \cup Scripts \cup {NoScript} \cup BOOLEAN \cup [Parts -> Texts]
ASSUME BoundsAssumption == {MaxId, MaxRequests} \subseteq Nat

VARIABLES
    (* The database. *)
    job,        \* cron_jobs
    script,     \* scripts
    history,    \* cron_job_history, oldest first
    audit,      \* audit_logs: the events about jobs and scripts, oldest first
    (* The process. *)
    pc, frame,  \* each thread's position and local variables
    (* Bookkeeping that the program does not keep. *)
    origin,     \* each job's row as it was first, and each script's
    commits,    \* commits there have been
    requests

database == <<job, script, history, audit>>
vars == <<database, pc, frame, origin, commits, requests>>

Ids == 1 .. MaxId
(***************************************************************************)
(* A schedule_expression is its parts, joined; parse_cron_expression takes *)
(* it apart again.  What a request sets, and the history tells of, are the *)
(* named columns; each part also has a column of its own, derived from the *)
(* expression.                                                             *)
(***************************************************************************)
Expressions == [Parts -> Texts]
Named == Fields \cup {"script_id", "schedule_expression"}
Columns == Named \cup Parts
Values == Texts \cup Scripts \cup {NoScript} \cup Expressions
Column(c) == CASE c = "script_id"           -> Scripts \cup {NoScript}
               [] c = "schedule_expression" -> Expressions
               [] OTHER                     -> Texts

JobValues == {v \in [Columns -> Values] : \A c \in Columns : v[c] \in Column(c)}
JobRows == [values : JobValues, active : BOOLEAN, deleted : BOOLEAN]
ScriptRows == [enabled : BOOLEAN, deleted : BOOLEAN]

ASSUME NoRowAssumption == NoRow \notin JobRows \cup ScriptRows

(***************************************************************************)
(* The body of a POST holds all of the named columns, that of a PUT those  *)
(* that are not null in it: a null changes nothing, so that a job keeps    *)
(* its script or gets another one.                                         *)
(***************************************************************************)
Posts == {b \in [Named -> Values] : \A c \in Named : b[c] \in Column(c)}
Bodies == {b \in UNION {[S -> Values] : S \in SUBSET Named} :
              \A c \in DOMAIN b : b[c] \in Column(c) \ {NoScript}}
NoBody == [c \in {} |-> Null]

JobActions == {"CREATED", "UPDATED", "ENABLED", "DISABLED", "DELETED"}
Diffs == UNION {[S -> [from : Values, to : Values]] : S \in SUBSET Named}
NoDiff == NoBody
Entries == [job : Ids, action : JobActions, changes : Diffs]

\* CRON_JOB_CREATED, SCRIPT_DELETED and so on, without the prefix.
Events == [resource : {"cron_job"}, id : Ids, action : JobActions]
          \cup [resource : {"script"}, id : Scripts, action : JobActions]

(***************************************************************************)
(* "copy" is the row as this session read it, which its identity map keeps *)
(* until the commit; "since" is bookkeeping: the commits there had been    *)
(* when the request arrived.                                               *)
(***************************************************************************)
IdleFrame == [op |-> "none", id |-> Null, body |-> NoBody, flag |-> Null,
              copy |-> NoRow, since |-> 0]

Operations == {"none", "create", "update", "status", "delete",
               "new_script", "update_script", "delete_script"}
Frames == [op : Operations, id : Ids \cup Scripts \cup {Null},
           body : Bodies \cup Posts, flag : BOOLEAN \cup {Null},
           copy : JobRows \cup ScriptRows \cup {NoRow}, since : Nat]

Stages == {"idle", "load", "reference", "unused", "write"}

TypeOK ==
    /\ job \in [Ids -> JobRows \cup {NoRow}]
    /\ script \in [Scripts -> ScriptRows \cup {NoRow}]
    /\ history \in Seq(Entries)
    /\ audit \in Seq(Events)
    /\ pc \in [WebThreads -> Stages]
    /\ frame \in [WebThreads -> Frames]
    /\ {commits, requests} \subseteq Nat

-----------------------------------------------------------------------------
\* What a select with is_deleted = false finds.
Alive(row) == row # NoRow /\ ~row.deleted

LiveJobs == {j \in Ids : Alive(job[j])}
LiveScripts == {s \in Scripts : Alive(script[s])}

\* What a PUT changes, in the eyes of the session.
Changed(f) == {c \in DOMAIN f.body : f.body[c] # f.copy.values[c]}

\* Mutant: the old value is taken after the assignment.
DiffTooLate(f) == [c \in Changed(f) |-> [from |-> f.body[c], to |-> f.body[c]]]

Diff(f) == [c \in Changed(f) |-> [from |-> f.copy.values[c], to |-> f.body[c]]]

\* Mutant: a null in the body is written, too.
WriteNulls(f, row) ==
    [row EXCEPT !.values = [c \in Columns |-> IF c \in DOMAIN f.body THEN f.body[c] ELSE Null]]

\* _apply_schedule: whoever sets the expression sets the derived columns.
ApplySchedule(new) ==
    [c \in DOMAIN new \cup (IF "schedule_expression" \in DOMAIN new THEN Parts ELSE {}) |->
        IF c \in Parts THEN new["schedule_expression"][c] ELSE new[c]]

Assigned(f) == ApplySchedule(Restrict(f.body, Changed(f)))

\* Mutant: the session's whole copy is written back.
WriteWholeCopy(f, row) ==
    [f.copy EXCEPT !.values =
        [c \in Columns |-> IF c \in DOMAIN Assigned(f) THEN Assigned(f)[c] ELSE @[c]]]

\* Mutant: an update sets the expression alone.
WriteNamed(f, row) ==
    [row EXCEPT !.values = [c \in Columns |-> IF c \in Changed(f) THEN f.body[c] ELSE @[c]]]

\* Columns that the session sees change.
Dirty(f) == LET new == Assigned(f) IN {c \in DOMAIN new : new[c] # f.copy.values[c]}

(***************************************************************************)
(* The UPDATE writes the columns that differ from the session's copy, also *)
(* to a row that has been changed or deleted meanwhile.  So a derived      *)
(* column that is right in the copy is not written.                        *)
(***************************************************************************)
WriteChanged(f, row) ==
    LET new == Assigned(f)
        dirty == Dirty(f)
    IN [row EXCEPT !.values = [c \in Columns |-> IF c \in dirty THEN new[c] ELSE @[c]]]

WriteDeleted(f, row) ==
    [row EXCEPT !.deleted = TRUE, !.active = IF f.copy.active THEN FALSE ELSE @]

\* Mutant: the session's copy of is_enabled is written back.
WriteScriptCopy(f, row) == [row EXCEPT !.enabled = IF f.flag = Null THEN f.copy.enabled ELSE f.flag]

ChangesEnabled(f) == f.flag \notin {Null, f.copy.enabled}

WriteScript(f, row) == IF ChangesEnabled(f) THEN [row EXCEPT !.enabled = f.flag] ELSE row

StatusAction(flag) == IF flag THEN "ENABLED" ELSE "DISABLED"

Event(resource, id, action) == [resource |-> resource, id |-> id, action |-> action]

-----------------------------------------------------------------------------
Init ==
    /\ \E v \in Posts, a \in BOOLEAN :
          job = [j \in Ids |->
                    IF j = 1 THEN [values |-> ApplySchedule(v), active |-> a, deleted |-> FALSE]
                             ELSE NoRow]
    /\ script \in [Scripts -> {NoRow} \cup [enabled : BOOLEAN, deleted : {FALSE}]]
    /\ \A j \in LiveJobs : job[j].values["script_id"] \in LiveScripts \cup {NoScript}
    /\ history = <<>>
    /\ audit = <<>>
    /\ pc = [t \in WebThreads |-> "idle"]
    /\ frame = [t \in WebThreads |-> IdleFrame]
    /\ origin = [job |-> job, script |-> script]
    /\ commits = 0
    /\ requests = 0

Goto(t, stage, local) ==
    /\ pc' = [pc EXCEPT ![t] = stage]
    /\ frame' = [frame EXCEPT ![t] = local]

\* The handler returns or raises; its session is closed.
Done(t) == Goto(t, "idle", IdleFrame)

Arrive(t, stage, local) ==
    /\ pc[t] = "idle"
    /\ requests < MaxRequests
    /\ requests' = requests + 1
    /\ Goto(t, stage, [local EXCEPT !.since = commits])
    /\ UNCHANGED <<database, origin, commits>>

RequestCreate(t) ==
    \E v \in Posts :
        Arrive(t, "reference", [IdleFrame EXCEPT !.op = "create", !.body = v])

RequestUpdate(t) ==
    \E j \in Ids, b \in Bodies :
        Arrive(t, "load", [IdleFrame EXCEPT !.op = "update", !.id = j, !.body = b])

RequestStatus(t) ==
    \E j \in Ids, a \in BOOLEAN :
        Arrive(t, "load", [IdleFrame EXCEPT !.op = "status", !.id = j, !.flag = a])

RequestDelete(t) ==
    \E j \in Ids : Arrive(t, "load", [IdleFrame EXCEPT !.op = "delete", !.id = j])

RequestScript(t) ==
    \E s \in Scripts :
        \/ Arrive(t, "write", [IdleFrame EXCEPT !.op = "new_script", !.id = s])
        \/ Arrive(t, "load", [IdleFrame EXCEPT !.op = "delete_script", !.id = s])
        \/ \E e \in BOOLEAN \cup {Null} :
              Arrive(t, "load", [IdleFrame EXCEPT !.op = "update_script", !.id = s, !.flag = e])

(***************************************************************************)
(* _get_job_for_write, _get_script.                                        *)
(***************************************************************************)
LoadJob(t) ==
    LET f == frame[t] IN
    /\ pc[t] = "load" /\ f.op \in {"update", "status", "delete"}
    /\ Alive(job[f.id])
    /\ Goto(t, IF f.op = "update" /\ "script_id" \in DOMAIN f.body THEN "reference" ELSE "write",
            [f EXCEPT !.copy = job[f.id]])
    /\ UNCHANGED <<database, origin, commits, requests>>

LoadScript(t) ==
    LET f == frame[t] IN
    /\ pc[t] = "load" /\ f.op \in {"update_script", "delete_script"}
    /\ Alive(script[f.id])
    /\ Goto(t, IF f.op = "delete_script" THEN "unused" ELSE "write",
            [f EXCEPT !.copy = script[f.id]])
    /\ UNCHANGED <<database, origin, commits, requests>>

ValidateScriptReference(t) ==
    /\ pc[t] = "reference"
    /\ frame[t].body["script_id"] \in LiveScripts \cup {NoScript}
    /\ Goto(t, "write", frame[t])
    /\ UNCHANGED <<database, origin, commits, requests>>

\* Mutant: only active jobs count, as its name would have it.
ReferencedByActive(s) == \E j \in LiveJobs : job[j].values["script_id"] = s /\ job[j].active

\* is_referenced_by_active_job: a paused job counts, a deleted one does not.
IsReferenced(s) == \E j \in LiveJobs : job[j].values["script_id"] = s

CheckUnused(t) ==
    /\ pc[t] = "unused"
    /\ ~IsReferenced(frame[t].id)
    /\ Goto(t, "write", frame[t])
    /\ UNCHANGED <<database, origin, commits, requests>>

-----------------------------------------------------------------------------
(***************************************************************************)
(* From the first flush to the commit.                                     *)
(***************************************************************************)
Commit(t, op) ==
    /\ pc[t] = "write"
    /\ frame[t].op = op
    /\ commits' = commits + 1
    /\ Done(t)
    /\ UNCHANGED requests

\* _record_history and record_event, for a job.
Record(j, action, changes) ==
    /\ history' = Append(history, [job |-> j, action |-> action, changes |-> changes])
    /\ audit' = Append(audit, Event("cron_job", j, action))

CreateJob(t) ==
    /\ Commit(t, "create")
    /\ \E j \in Ids :
          /\ job[j] = NoRow
          /\ \A i \in Ids : i < j => job[i] # NoRow
          /\ job' = [job EXCEPT ![j] = [values |-> ApplySchedule(frame[t].body),
                                        active |-> TRUE, deleted |-> FALSE]]
          /\ origin' = [origin EXCEPT !.job[j] = job'[j]]
          /\ Record(j, "CREATED", NoDiff)
    /\ UNCHANGED script

\* Mutant: the history commits on its own, and then the audit fails.
UpdateInTwoCommits(t) ==
    LET f == frame[t] IN
    /\ Commit(t, "update")
    /\ Changed(f) # {}
    /\ job' = [job EXCEPT ![f.id] = WriteChanged(f, @)]
    /\ history' = Append(history, [job |-> f.id, action |-> "UPDATED", changes |-> Diff(f)])
    /\ UNCHANGED <<script, audit, origin>>

UpdateJob(t) ==
    LET f == frame[t] IN
    /\ Commit(t, "update")
    /\ Changed(f) # {}
    /\ job' = [job EXCEPT ![f.id] = WriteChanged(f, @)]
    /\ Record(f.id, "UPDATED", Diff(f))
    /\ UNCHANGED <<script, origin>>

UpdateStatus(t) ==
    LET f == frame[t] IN
    /\ Commit(t, "status")
    /\ f.copy.active # f.flag
    /\ job' = [job EXCEPT ![f.id].active = f.flag]
    /\ Record(f.id, StatusAction(f.flag), NoDiff)
    /\ UNCHANGED <<script, origin>>

DeleteJob(t) ==
    LET f == frame[t] IN
    /\ Commit(t, "delete")
    /\ job' = [job EXCEPT ![f.id] = WriteDeleted(f, @)]
    /\ Record(f.id, "DELETED", NoDiff)
    /\ UNCHANGED <<script, origin>>

\* The name and the path of a script are unique in the table.
CreateScript(t) ==
    LET s == frame[t].id IN
    /\ Commit(t, "new_script")
    /\ script[s] = NoRow
    /\ script' = [script EXCEPT ![s] = [enabled |-> TRUE, deleted |-> FALSE]]
    /\ origin' = [origin EXCEPT !.script[s] = script'[s]]
    /\ audit' = Append(audit, Event("script", s, "CREATED"))
    /\ UNCHANGED <<job, history>>

\* A change of is_enabled has an event of its own; a script's other columns are
\* in the first one.
UpdateScript(t) ==
    LET f == frame[t] IN
    /\ Commit(t, "update_script")
    /\ script' = [script EXCEPT ![f.id] = WriteScript(f, @)]
    /\ audit' = Append(audit, Event("script", f.id, "UPDATED"))
                \o IF ChangesEnabled(f) THEN <<Event("script", f.id, StatusAction(f.flag))>>
                                        ELSE <<>>
    /\ UNCHANGED <<job, history, origin>>

DeleteScript(t) ==
    LET s == frame[t].id IN
    /\ Commit(t, "delete_script")
    /\ script' = [script EXCEPT ![s].deleted = TRUE]
    /\ audit' = Append(audit, Event("script", s, "DELETED"))
    /\ UNCHANGED <<job, history, origin>>

(***************************************************************************)
(* A request ends without a commit: refused, not found, nothing to change, *)
(* the database was locked, or the process stopped.                        *)
(***************************************************************************)
Abandon(t) ==
    /\ pc[t] # "idle"
    /\ Done(t)
    /\ UNCHANGED <<database, origin, commits, requests>>

Next ==
    \E t \in WebThreads :
        \/ RequestCreate(t) \/ RequestUpdate(t) \/ RequestStatus(t) \/ RequestDelete(t)
        \/ RequestScript(t)
        \/ LoadJob(t) \/ LoadScript(t) \/ ValidateScriptReference(t) \/ CheckUnused(t)
        \/ CreateJob(t) \/ UpdateJob(t) \/ UpdateStatus(t) \/ DeleteJob(t)
        \/ CreateScript(t) \/ UpdateScript(t) \/ DeleteScript(t)
        \/ Abandon(t)

Spec == Init /\ [][Next]_vars

-----------------------------------------------------------------------------
(***************************************************************************)
(* A row as a reader of its history reconstructs it from the first one.    *)
(***************************************************************************)
ApplyEntry(row, e) ==
    CASE e.action = "CREATED"  -> row
      [] e.action = "UPDATED"  -> [row EXCEPT !.values = [c \in Columns |->
                                      IF c \in DOMAIN e.changes THEN e.changes[c].to ELSE @[c]]]
      [] e.action = "ENABLED"  -> [row EXCEPT !.active = TRUE]
      [] e.action = "DISABLED" -> [row EXCEPT !.active = FALSE]
      [] e.action = "DELETED"  -> [row EXCEPT !.active = FALSE, !.deleted = TRUE]

JobOf(e) == e.job
History == INSTANCE Replay WITH Apply <- ApplyEntry, About <- JobOf

Replayed(j) == History!Replayed(j, origin.job[j], history)

\* Each job's history, replayed, gives the columns of its row that it tells of,
\* also when sessions work on stale copies: no update is lost and none goes
\* unrecorded.  Only is_active of a deleted job may differ: its delete leaves
\* the column alone if it found the job paused.  The derived columns are not in
\* the history; what becomes of them is DerivedApartOnlyByRace.
HistoryReplaysToRow ==
    \A j \in Ids :
        /\ job[j] = NoRow <=> origin.job[j] = NoRow
        /\ job[j] # NoRow =>
              LET told == Replayed(j) IN
              /\ \A c \in Named : job[j].values[c] = told.values[c]
              /\ job[j].deleted = told.deleted
              /\ Alive(job[j]) => job[j].active = told.active

\* The events about one kind of resource, collected.
ResourceOf(e) == e.resource
Collect(told, e) == Append(told, e)
ToldOf == INSTANCE Replay WITH Apply <- Collect, About <- ResourceOf

\* The audit trail tells of the same operations on jobs as the history, in the
\* same order: each operation commits both or none.
AuditMatchesHistory ==
    ToldOf!Replayed("cron_job", <<>>, audit)
       = [i \in DOMAIN history |-> Event("cron_job", history[i].job, history[i].action)]

ApplyEvent(row, e) ==
    CASE e.action \in {"CREATED", "UPDATED"} -> row
      [] e.action = "ENABLED"  -> [row EXCEPT !.enabled = TRUE]
      [] e.action = "DISABLED" -> [row EXCEPT !.enabled = FALSE]
      [] e.action = "DELETED"  -> [row EXCEPT !.deleted = TRUE]

SubjectOf(e) == <<e.resource, e.id>>
Audit == INSTANCE Replay WITH Apply <- ApplyEvent, About <- SubjectOf

\* Whether a script is enabled and whether it is deleted follows from the audit
\* trail, also when updates from stale copies overlap.
ScriptsAsAudited ==
    \A s \in Scripts :
        script[s] = Audit!Replayed(<<"script", s>>, origin.script[s], audit)

-----------------------------------------------------------------------------
\* A request commits although another one has committed since it arrived.
RacedCommit ==
    \E t \in WebThreads : pc[t] = "write" /\ pc'[t] = "idle" /\ frame[t].since # commits

InSync(row) == \A p \in Parts : row.values[p] = row.values["schedule_expression"][p]

Rescheduled(j) ==
    job[j] = NoRow \/ job'[j].values["schedule_expression"] # job[j].values["schedule_expression"]

\* A row's minute, hour and so on are those of its expression after each commit
\* that found them so, and after each that creates the job or changes its
\* schedule, however wrong they were before - unless another request has
\* committed since this one arrived.
DerivedApartOnlyByRace ==
    [][\A j \in Ids :
          job'[j] # job[j] /\ (Rescheduled(j) \/ InSync(job[j])) =>
             InSync(job'[j]) \/ RacedCommit]_vars

\* A deleted job stays deleted, whatever copies of it from before its deletion
\* are still at work.
DeletedForGood == [][\A j \in Ids : job[j] # NoRow /\ job[j].deleted => job'[j].deleted]_vars

\* The old value in a history entry is the one the entry's commit replaced,
\* unless another request has committed since this one arrived.
FromIsWhatItReplaced ==
    [][history' # history =>
          LET e == Last(history') IN
          \A c \in DOMAIN e.changes :
             /\ e.changes[c].to = job'[e.job].values[c]
             /\ e.changes[c].from = job[e.job].values[c] \/ RacedCommit]_vars

ReferencesAreAlive ==
    \A j \in LiveJobs : job[j].values["script_id"] \in LiveScripts \cup {NoScript}

\* A job that is not deleted refers to a script that is not, until a request
\* commits over another's commit: the two checks (a job's reference, a script's
\* use) exclude each other only when they do not overlap.
ReferencesLostOnlyByRace == [][ReferencesAreAlive => ReferencesAreAlive' \/ RacedCommit]_vars

-----------------------------------------------------------------------------
(***************************************************************************)
(* What the sources say and the code does not do.                          *)
(***************************************************************************)
\* "derived from the expression and kept in sync by the service on every write"
\* (models/cron_job.py): every row's minute, hour and so on are those of its
\* expression.
DerivedInSync == \A j \in Ids : job[j] # NoRow => InSync(job[j])
=============================================================================
