# CronPanel in TLA+

A verification development for CronPanel: TLA+ models of the parts of the
program that decide, concurrently and in the presence of failures, what runs,
who may do what and what is recorded; TLC configurations that check them on
small instances; and TLAPS proofs for every value of the constants.

Run everything from this directory:

    tlc -workers 2 -config EngineSafety.cfg MCExecutionEngine.tla
    tlapm ExecutionEngineProofs.tla

## The system

CronPanel is one FastAPI process over one SQLite database. Two thread pools
share both: the web framework's pool serves HTTP requests, APScheduler's pool
fires jobs. There is no lock around any of what follows; each request or fire
has its own database session and every commit is a step others can see.

| Part | State | Operations | Talks to | Modelled in |
|---|---|---|---|---|
| Scheduler (`scheduler/service.py`, `registry.py`) | APScheduler's table of armed jobs, in memory | `start`, `sync_from_db`, `add_or_replace_from_db`, `remove_if_armed`, notifications | reads `cron_jobs` and `scripts`; called by the job and script routes after their commit | `CronScheduler` |
| Scheduled callback (`scheduler/jobs.py`) | none of its own; APScheduler's count of runs in progress | `run_scheduled_job` | execution engine, audit log | `ExecutionEngine` |
| Execution engine (`services/execution_service.py`, `execution/`) | local variables of a call, a child process | `run_cron_job`, `run_scheduled_cron_job`, `_run`, `execute_script` | `executions`, audit log, file system | `ExecutionEngine`, `OutputCap` |
| Executions table | one row per run: running, then success, failed or timed_out | insert, finalise, `has_running_execution` | | `RunLedger` (abstract), `ExecutionEngine` |
| Job service and routes | `cron_jobs`, `cron_job_history` | create, update, enable, pause, delete (soft), execute | scheduler (after the commit), execution engine | `JobService`; its notifications in `CronScheduler` |
| Script service and routes | `scripts` | register, update, delete (soft, unless referenced) | scheduler: full resync on update | `JobService` |
| Cron expression validator | none | parse, normalise, expand, describe | schemas, job service, scheduler | `CronExpression` |
| Sessions | `revoked_tokens`, `users.tokens_invalid_before` | login, token check, logout, change password, purge | rate limiter, users | `Sessions` |
| Login rate limiter | attempts per key, in memory | look, register, reset, Retry-After | login | `Sessions` |
| User administration | `users` | create, edit, role, activation, delete | last-administrator rule, sessions | `UserAdmin`; its revocations in `Sessions` |
| Audit log | `audit_logs` | append, in the caller's commit | everything above | with each caller |
| Lifespan (`main.py`) | | create tables, purge, start and bind the scheduler, shut down | | `Init` and `Restart` of each module |

What makes the behaviour hard, and what must hold:

- **Overlap.** A fire asks for a running row, then inserts one, in two
  transactions; a manual request does not ask at all. Scheduled runs of one job
  must still exclude each other, also after a restart.
- **Crash and partial failure.** A run is recorded before its process exists
  and closed afterwards. Rows and audit records must agree after any crash or
  failed commit; a final row must never change.
- **Stale reads.** A session never refreshes a row it has read: a fire sees the
  first copy of its job, an update flushes what differs from its copy, a resync
  arms from a snapshot while handlers commit and notify. No update may be lost
  or undone, and the history and the trail must still tell what happened.
- **Check, then commit.** The count of administrators, the use of a script, the
  reference of a job, the owner of a job, the limiter's window: each is looked
  at in one step and relied upon in another.
- **Reconciliation.** The table of armed jobs follows the database through
  notifications that may be applied in another order than their commits. It
  must agree when handlers do not overlap, and in the end in any case.
- **Slots.** APScheduler allows one run per job; a slot lost on an error path
  would silence the job.
- **Clocks.** Tokens carry whole seconds, the revocation threshold and the
  limiter fractions of them. Rounding must not let an old token through or make
  Retry-After too short.
- **Three readings of one text.** The schema, the service and the scheduler
  parse a schedule, and APScheduler parses it once more with rules of its own.
  They must accept the same texts and mean the same times.

The complete list, each at its line, is under `hazards` in `PROJECT.json`.

## Modules

| Module | Models |
|---|---|
| `RunLedger` | Abstract specification of the executions table: runs begin, are closed once, or are abandoned; no scheduled run begins beside an open scheduled one |
| `ExecutionEngine` | `jobs.py`, `execution_service.py`, `executor.py`, `policy.py`: from the fire or the request to the final commit, with edits, failed commits and restarts around it |
| `CronScheduler` | `service.py`, `registry.py` and the handlers that notify them: how the armed table follows the database |
| `JobService` | `cron_job_service.py` and `script_service.py`: requests on stale copies of rows, and what the history and the trail say of them |
| `CronExpression` | `cron_validator.py` and everything a schedule goes through: schema, service, trigger, description |
| `Sessions` | `auth_service.py`, `security.py`, `dependencies.py`, `rate_limit.py`: tokens, their revocation, and the limiter before the login |
| `UserAdmin` | `user_service.py` behind `routes/users.py`: creating, updating and deleting users while other requests do the same |
| `OutputCap` | `_cap_output`, with its theorem |
| `Replay` | What a reader makes of a log about many rows: the entries about one of them, applied in order; used to say what `cron_job_history` and `audit_logs` tell |
| `ExecutionEngineProofs`, `CronSchedulerProofs`, `JobServiceProofs`, `CronExpressionProofs`, `SessionsProofs`, `UserAdminProofs`, `ReplayProofs` | The inductive invariants and the theorems of each |
| `MCExecutionEngine`, `MCCronScheduler`, `MCJobService`, `MCCronExpression`, `MCSessions`, `MCUserAdmin` | Symmetry sets and sets of inputs for TLC |

The modules meet at their edges. What `ExecutionEngine` calls `EditJob` and
`EditScript` is any commit of `JobService`; what `CronScheduler` calls
`UpdateJob` is a commit of `JobService` seen by the scheduler only; its
`Schedulable` is what `FromCrontab` of `CronExpression` accepts; a request in
`UserAdmin` or `JobService` begins where `GetCurrentUser` of `Sessions` accepts
a token. Each edge is modelled as a choice that covers whatever the other side
can do, so that every module can be checked by itself.

### ExecutionEngine

A thread's `pc` is the place between two database or process steps, its
`frame` the local variables that matter there.

| Action | Code |
|---|---|
| `Fire`, `FireAtMaxInstances` | APScheduler hands a due job to a pool thread, or drops the fire at `max_instances` (external) |
| `LoadJob` | `run_scheduled_job`, first read and silent return |
| `CheckRunning` | `has_running_execution` |
| `RereadJob` | `run_scheduled_cron_job`: the WHERE clause is fresh, the copied attributes are not |
| `RequestRun` | `run_cron_job` up to `_run` |
| `RaiseJobInactive`, `RaiseScriptUnavailable`, `RaiseScriptPath`, `ResolveScript` | the checks of `_run` and `_resolve_script` and what each caller does with their exceptions |
| `RecordSkip` | `_record_skip`, one commit |
| `StartExecution` | RUNNING row and EXECUTION_STARTED, one commit |
| `RaiseUnsupportedScript`, `LaunchScript` | `execute_script`, with `resolve_argv` outside its `try` |
| `FinaliseExecution` | final status and final audit record, one commit |
| `CommitFails` | the commit of `RecordSkip`, `StartExecution` or `FinaliseExecution` raises (SQLite locked past its timeout) |
| `Restart` | the process dies anywhere and comes back; the database stays |
| `EditJob`, `EditScript`, `ChangeFile` | what the rest of the program, or the host, commits meanwhile |

Row ids are positions in `executions`. Output, durations, names and paths are
left out; a script is Python (launched by the interpreter, so that a vanished
file is a failed run) or not (launched directly, if executable). Which fires
happen is left open: any job may fire at any time, also one that was just
paused, which covers every order of the triggers. `fired`, `discarded`, `used`
and `frame.seen` are bookkeeping for properties and bounds; no guard of the
program's own reads them except the bounds.

### CronScheduler

One action is the handler's commit, the following ones are its notification:
`add_or_replace_from_db` is two reads and a write (`ReadJob`, `ReadEligible`,
`ArmJob` or `DisarmJob`), `sync_from_db` a snapshot and one write per job
(`TakeSnapshot`, `SyncArm`, `ListStale`, `SyncRemove`, `EndSync`). `Restart`
empties the table; the first sync precedes the first request, as in the
lifespan. `Exprs` are expressions the validator accepts, `Schedulable` those
`CronTrigger.from_crontab` accepts too. `delete_script` is two steps, the look
for references and the commit, and does not notify. `solo` and `overlapped`
are bookkeeping: they say whether two activities overlapped since the last
sync that ran alone.

### JobService

A request arrives (`RequestCreate`, `RequestUpdate`, ...), reads its row into
the session (`LoadJob`, `LoadScript`: `_get_job_for_write`, `_get_script`),
perhaps looks at another table (`ValidateScriptReference`, `CheckUnused`), and
commits. Its first flush takes SQLite's only write lock, which it keeps until
the commit, so the flush, the history entry, the audit record and the commit are
one step (`CreateJob`, `UpdateJob`, `UpdateStatus`, `DeleteJob`, `CreateScript`,
`UpdateScript`, `DeleteScript`). `frame.copy` is the session's copy of the row:
what a PUT changes, and the old values in its history entry, are computed
against the copy, and the UPDATE writes only the columns that differ from it
(`WriteChanged`, `WriteDeleted`, `WriteScript`), also to a row that was deleted
meanwhile. An expression is a function from its `Parts` to texts, and a row has
a column for each part beside the expression itself: `ApplySchedule` is
`_apply_schedule`, which assigns all of them, and `Dirty` says which of these
assignments the UPDATE contains. `Named` are the columns that a request sets and
the history tells of; the derived ones are in neither. A body holds the columns
that are not null in the request. `Abandon` is every way to end without a
commit: refused, not found, nothing to change, a locked database, a stopped
process; since the database is all that is left then, a restart needs no action
of its own. `origin` (the rows as they were first) and `commits` are
bookkeeping.

### CronExpression

An expression is a sequence of fields, a field a sequence of tokens, a token
`*`, `N` or `N-M` with an optional step, or illegal. `Valid` and `Normalize`
are `parse_cron_expression` field by field (`_validate_token`,
`_normalize_token`, `_expand_token`), `Expand` the values a token stands for,
`Describe` the minutes, hours and days that a description names.
`TriggerAccepts` and `TriggerValues` are APScheduler's own reading of the same
text, from its documented field syntax (external). The actions follow one
expression: `Post` (the schema), `ApplySchedule` (the service and its commit),
`NotifyJobChanged` (the scheduler), `Respond` (the response with the
description), `SyncFromDb` at any time later, and `Preview`
(`POST /cron-jobs/validate`). The two stages "stuck" and "failed" are requests
that end in an exception nobody catches.

### Sessions

The clock counts ticks, several to the second. A token is known by its place in
`tokens`; `Iat` and `Exp` are whole seconds, as in the JWT. A login is
`LoginArrives` (`is_blocked`), `Authenticate`, then `RegisterFailure` or
`ResetKey` and `IssueAccessToken`, or `AnswerRetryAfter`; each call of the
limiter takes its lock by itself. A request is `DecodeToken` (signature and
exp), `IsRevoked` (the table), `GetCurrentUser` (the row), each a step; it may
go on to `Logout` and `PurgeExpired`, to `StartPasswordChange`, or to any other
route (`Answer`). An administrator's update of the user is `StartUpdateUser`.
`RevokeAllTokens(stamp)` is `_revoke_all_tokens_for_user`; its time is taken
before the write lock when the password or the role changes
(`CommitCredentials`), under it when the user is deactivated
(`CommitDeactivation`). `era`, `raced`, `ended`, `wait` and `left` are
bookkeeping: `wait` is when the Retry-After of the last 429 answer is over,
whatever the window held, and `left` how many failures may then be in the window
if the oldest one has gone.
Users are independent of each other here, and so are the limiter's keys, so one
of each is enough.

### UserAdmin

A request is authenticated (`RequestCreate`, `RequestUpdate`, `RequestDelete`,
`RequestJob`), reads its target (`LoadTarget`; its own row is already in the
session), checks (`CheckUpdate`, `CheckDelete`, `ReadOwnedJobs`) and commits
(`UpdateUser`, `DeleteUser`, `CreateUser`, `CreateJob`). Each read is a
statement of its own that sees what is committed then. The first flush takes
SQLite's write lock until the commit, and no other thread can write meanwhile,
so everything from the flush on is one step, the second role check of
`update_user` included. An exception there, or a locked database, is
`Abandon`. `Frame.copy` is the session's identity map: it is never refreshed,
and the UPDATE writes the columns that differ from it. Ids are row ids: SQLite
gives the largest one out again after a delete, so a request can meet a
stranger under its target's id. `CreateJob` is there because it is what can
refer to a user while the user is deleted.

Left out: e-mail, password and names (a row with only these changed is not
changed here), tokens (an active user may send a request at any time; see
`Sessions`), and the TOKEN_REVOKED, PASSWORD_RESET and USER_UPDATE records.

## What TLC checks

| Run | Instance | Shows |
|---|---|---|
| `EngineSafety` | 1 job, 2 scripts (one Python), 2 scheduler threads, 1 web thread, 2 fires, 1 request, 1 edit, 1 fault | type invariant; rows and trail agree; held rows are open and held once; one running scheduled row; every fire accounted for; slots taken only by threads at work; frozen final rows; no start over a known run; runs are let go of only for cause; the table implements `RunLedger`; a run in hand is finalised unless a fault or an unlaunchable file intervenes; a slot is always given back |
| `SchedulerSafety` | 1 job, 1 script, 3 expressions (one not schedulable), 2 web threads, 3 edits, 1 restart | triggers agree with rows whenever nothing overlapped, also after one sync that ran alone; in the end they agree for good |
| `JobService` | 2 threads, 2 jobs, 1 script, expressions of 2 parts with 2 texts each, 3 requests | each job's history replays to the columns it tells of and each script's trail to its row; trail and history tell the same; a deletion is final; old values, references and derived columns go wrong only by a race |
| `CronExpression` | every kind of token around every bound of every field, lists of two, combinations of minutes and hours | what is stored is canonical and keeps its meaning; what cannot be armed is known; a trigger fires at the values of the row; a description names them |
| `Sessions` | 2 threads, 2 ticks per second, tokens of 1 s, limit 2, window 1 s, clock to 5, 4 requests, 1 restart | a logged-out token stays out; a revoked one is refused unless its login raced; the limiter overshoots by less than the threads; when a Retry-After is over, the oldest failure has left |
| `UserAdminSafety` | 2 threads, 2 row ids, 2 roles, 3 requests | only a commit over another's commit takes the last active administrator or a job's owner away; the audit trail replays to the table |

Six runs check what a comment or a document says and the code does not do;
TLC finds the trace in each:

| Run | Claim | What happens |
|---|---|---|
| `EnginePaused` | a job flipped to inactive is skipped, and the skip recorded | a job paused after a fire's first read is run: the second read returns the copy of the first |
| `EngineUnlaunchable` | every run is finalised | a file that loses its execute bit after the check raises past the finalisation; nothing has crashed |
| `JobColumns` | minute, hour and so on are kept in sync with the expression on every write | an update from a stale copy writes only the columns that differ from it: `0 2 * * *` is left with minute 5 |
| `UserAdminLastAdmin` | the last active administrator cannot be removed | two requests both count two and deactivate both |
| `CronWeekdays` | there is no second parser and no divergent syntax | APScheduler numbers the days of the week from Monday: a job shown as every Sunday fires on Mondays |
| `CronDescription` | a valid expression has a description | `*/20,7` is valid; its description raises, after the commit and the notification |

**Bounds.** `MaxFires`, `MaxRequests`, `MaxEdits`, `MaxFaults`, `MaxRestarts`,
`MaxClock` and `MaxId` only cap what would grow for ever.

- Engine: two fires and a request are enough for every pair of calls to overlap
  and for one call to meet what another left; one fault separates a call before
  a crash from one after. Jobs share nothing but threads, so one is enough. The
  edit pauses, deletes or rebinds the job, disables or deletes a script or changes
  a file between any two steps of a call; the initial state has every other
  setting of the job. Several edits within one call are left to the proofs, which
  cover every safety property of this run for any number of them.
- Scheduler: three edits let a third request fall between two whose
  notifications overlap, or between a sync's snapshot and its writes, and all
  of that before or after a restart. Jobs share nothing but the sync and their
  script; the sync treats each of them independently, and the proofs have any
  number.
- Jobs and scripts: three requests by two threads are a request with another
  one in each of its gaps, and one that meets what both left. Two texts are
  what it takes to tell a copy from the row, and two parts what it takes for an
  expression that is partly another's; the five of the code are alike.
  `script_id` is a second column; name, description and command would be more of
  the same, and the proofs have any number of them.
- Expressions: the comparisons in the code are against the bounds of a field,
  its first value and the step, so the values around these tell every case
  apart; the sets contain every kind of token there, both with and without a
  step, also larger than the field.
- Sessions: two ticks are enough for a time that is not a whole second, tokens
  of one second expire within the five ticks, the limit of two is exceeded by
  two overlapping attempts after a first failure, and the window passes.
- Users: two row ids and three requests let a request in the middle meet any
  two commits of others: its target demoted, deleted, or deleted and created
  anew.

The engine, the job service, the sessions and the user administration really
stop when their bounds are used up, so their runs do not check deadlock.
`CronScheduler` never stops (its resync is periodic), nor does
`CronExpression`, and their runs do check it.

**Fairness.** `FairSpec` of the engine and of the scheduler says that a call
under way takes its next step (both pools run their threads, and
`subprocess.run` has a timeout of at most 300 s, so a script ends), and for the
scheduler that the interval trigger of `cronpanel:resync` fires again and again.
Nothing makes a request, an edit, a fire or a fault happen, and the other
modules need no fairness: what they promise is safety. `UndisturbedRunsFinalise`
speaks of the runs that a caller has in hand and names its two exceptions: after
a crash or a failed final commit a row stays RUNNING, and so it does when a file
cannot be launched (`EngineUnlaunchable`). `SlotIsReleased` has no exception.
`Converges` says that once requests and restarts stop, which their bounds
ensure, the table of triggers agrees with the database for good.

## What is proved

Each theorem holds for all values of the constants that satisfy the module's
assumptions: pools and null values are disjoint from what they must differ from,
bounds are natural numbers, settings are positive.

### ExecutionEngineProofs

| Theorem | Statement |
|---|---|
| `TypeCorrect` | `Spec => []TypeOK` |
| `SlotsCorrect` | `Spec => []SlotsOK` |
| `TrailCorrect` | `Spec => []TrailMatchesStatus` |
| `HeldRunsCorrect` | `Spec => []HeldRunsAreOpen` |
| `ScheduledRunsExclusive` | `Spec => []OneRunningScheduledRow` |
| `FinalRowsFrozen` | `Spec => FinalRowsAreFrozen` |
| `StartsKnowingly` | `Spec => NoStartOverAKnownRun` |
| `PausedNeverRecorded` | `Spec => []PausedIsNeverTheReason`: the reason "cron job is paused", which `jobs.py` and `docs/scheduler.md` promise, is never recorded |
| `EveryFireIsAccounted` | `Spec => []FiresAccounted` |
| `SlotsHaveHolders` | `Spec => []SlotsAreHeld` |
| `OrphansHaveACause` | `Spec => RunsLetGoForCause` |
| `EngineImplementsLedger` | `Spec => ImplementsLedger` |

The argument has two inductive invariants.

`CallsOK` is `TypeOK`, `FramesOK` (what a thread's stage says about its locals:
a call that starts has a script, a skip has a reason and it is not "paused", a
scheduled call past its first read holds a copy that says active, a call holds
a run exactly while it launches or runs it) and `SlotsOK` (a job's counter is 1
exactly while a pool thread handles the job, and then only one does). `TypeOK`
alone is not inductive: that the counter stays natural needs `SlotsOK`, and the
type of a skip's key needs `FramesOK`. There is one lemma per action.

`RunsOK`, on top of it, is `TrailMatchesStatus`, `HeldRunsAreOpen`,
`OneRunningScheduledRow` and `ViewsOK`: between its check and its insert a fire
knows that its job has no running scheduled row, and that any running row of
its job was appended after the check. `OneRunningScheduledRow` needs `ViewsOK`
at the insert, and `ViewsOK` needs `SlotsOK` to keep other fires of the job
away; this is the precise sense in which `max_instances` and
`has_running_execution` are both necessary. Only `StartExecution` and
`FinaliseExecution` write the table; every other action is shown to be `Quiet`
(it takes over no row and keeps or renews its view), and one lemma handles all
quiet steps. The action properties and the refinement follow from `CallsOK`
and `RunsOK` in one step each: `StartExecution` is `Begin`,
`FinaliseExecution` is `Close`, and a quiet step in which calls disappear is
`Abandon`.

`FiresAccounted` is a balance: fires on one side, recorded, undecided and
dropped ones on the other. `SlotsOK` makes the number of undecided fires of a
job 0 or 1 (`AtMostOne`, `PendingCount`), so each step either moves one fire
(`Fire`, `RecordSkip`, a scheduled `StartExecution`, a fire that ends without a
record, `Restart`) or leaves the balance `Untouched`, as requests, edits and
everything after the insert do.

`SlotsAreHeld` and `RunsLetGoForCause` are what safety can say of the two
liveness properties: a slot that is taken has a thread that will give it back
(`HoldersOK`, the converse of what `SlotsOK` says of a thread at work), and a
row that stays RUNNING was let go of by a fault or at a file that cannot be
launched. That the thread does go on is fairness, and stays with TLC.

### CronSchedulerProofs

| Theorem | Statement |
|---|---|
| `TypeCorrect` | `Spec => []TypeOK` |
| `QuietAgrees` | `Spec => []QuietMeansAgreed` |

`QuietMeansAgreed` says nothing while an activity is under way, so its
strengthening must. `Alone` says that a thread marked `solo` is the only one at
work. `Views` says what such a thread knows: a handler that started when every
trigger agreed leaves every job but its own in agreement, and its copies are
the rows (`HandlerView`); a sync that has been alone since it started has armed
every eligible job that is not left to do, and what is armed beyond them is on
its list to remove, whatever was wrong before (`SyncView`). Three lemmas, for a
thread that begins, goes on and ends, reduce each action to these views.

### JobServiceProofs

| Theorem | Statement |
|---|---|
| `TypeCorrect` | `Spec => []TypeOK` |
| `DeletionIsFinal` | `Spec => DeletedForGood` |
| `FromIsReplaced` | `Spec => FromIsWhatItReplaced` |
| `ReferencesKeptWithoutRace` | `Spec => ReferencesLostOnlyByRace` |
| `HistoryTellsTheRow` | `Spec => []HistoryReplaysToRow` (of the columns the history tells of) |
| `DerivedKeptWithoutRace` | `Spec => DerivedApartOnlyByRace` |
| `RecordsAgree` | `Spec => []AuditMatchesHistory` |
| `AuditTellsTheScript` | `Spec => []ScriptsAsAudited` |

A request is undisturbed when nobody has committed since it arrived
(`since = commits`). The invariant is `TypeOK` with `LocalOK` (types that
depend on the stage; a row that was found once stays in its table) and
`ViewOK`: an undisturbed request's copy is the row, and the checks it passed
still hold. A step that commits nothing keeps this because it changes one frame
(`QuietStep`); a commit keeps it because it disturbs everybody else
(`CommitStep`). One lemma per commit says which row it writes and what it knows
(`CreateIs`, `UpdateIs`, ...); the three action properties follow from these,
because the commit of a request that is not undisturbed is a `RacedCommit`.

The three invariants about the records need one more, `RecordsOK`: a row that
was never created has no entry, a row that exists replays to a row (and not to
the null of one that does not exist), and `origin` holds rows. A commit adds one
entry to the history and one to the trail; `ReplayOfAppend` and
`ReplayOfOthers` reduce the replay of the longer log to that entry. What is left
is the heart of the matter: the columns that a stale copy makes the UPDATE write
are the columns that its entry names, so the entry makes the same change of the
replayed row as the UPDATE of the stored one, whatever was committed between.
This holds for the `Named` columns only. A derived column that is right in the
stale copy is not written, and `JobColumns` shows the row this leaves;
`DerivedKeptWithoutRace` says that an undisturbed request, whose copy is the row,
never does it, and that the next one to change the schedule repairs it.

### CronExpressionProofs

| Theorem | Statement |
|---|---|
| `CanonicalForm` | `Spec => []StoredIsCanonical` |
| `NormalizingKeepsMeaning` | `Spec => []MeaningKept` |
| `ArmedAsStored` | `Spec => []TriggerFollowsRow` |
| `ExpressionTypes` | `Spec => []TypeOK` |
| `DisagreementIsAStep` | `Spec => []OnlyStepsDisagree` |
| `DescribedAsMeant` | `Spec => []DescriptionIsExact` |

For any set of texts that clients send. The inductive invariant `StoredInv` is
that what is stored, and what is armed, is the normal form of a valid text;
that the second and third parse accept it and change nothing is the lemma that
a valid token normalises to a valid token, and to itself when normalised again.
`NormalizingKeepsMeaning` (with its exception, `WrapsToSunday`: ranges of days
with 7 at one end) and `ArmedAsStored` then speak of tokens: what a token
expands to before and after normalising, and in the trigger's reading.

`AnswerInv`, on top of it, is what the answer to a request knows: without a
trigger, the trigger's parser rejected the stored text (also when resyncs try
again in between), and the description is that of the normal form.
`DisagreementIsAStep` follows because a valid, normalised token whose step is
within its range is accepted by the trigger (`TriggerAcceptsToken`): the bounds
of the two parsers agree once 7 has become 0. `DescribedAsMeant` follows because
a list that starts with a step never gets as far as a description.

### SessionsProofs

| Theorem | Statement |
|---|---|
| `TypeCorrect` | `Spec => []TypeOK` |
| `LoggedOutIsRefused` | `Spec => LoggedOutStaysOut` |
| `RevokedIsRefused` | `Spec => OldTokensRefused` |
| `AttemptsAreBounded` | `Spec => []AttemptsBounded` |
| `RetryAfterFreesAPlace` | `Spec => []OldestLeavesInTime` |
| `OneWaitIsEnough` | `Spec => []` a client whose wait is over is let in, if `left` is below the limit |

For any resolution of the clock, any lifetime, limit and window, and any finite
number of threads. Beside `TypeOK` there is one inductive invariant for each:
`EndedInv` (a token that was logged out has its row until it has expired, which
is why `Purged` must keep the row of a token whose exp is now), `CutoffInv` (a
token from before a revocation is older than the threshold or marked as raced;
a later commit may bring an older threshold, and then marks what was issued in
between), `AttemptsBounded` (in a step of the login the thread gives up its
place among the attempts, or the window has room), and `WaitInv` (until a wait
is over, what will be left of the window then is at most `left`). `OneWaitIsEnough`
follows from `OldestLeavesInTime`; its premise is what overlapping attempts, or
new failures before the wait is over, can make untrue.

### UserAdminProofs

| Theorem | Statement |
|---|---|
| `TypeCorrect` | `Spec => []TypeOK` |
| `LastAdminLostOnlyByRace` | `Spec => AdminsLostOnlyByRace` |
| `OwnersKeptWithoutRace` | `Spec => OwnersLostOnlyByRace` |
| `TrailTellsTheTable` | `Spec => []TrailReplaysToUsers` |

The run `UserAdminLastAdmin` shows that the rule fails when requests overlap;
the theorems say that overlapping commits are the only way. The argument is
that of `JobServiceProofs`: the invariant `CallsOK` is `LocalOK` and `ViewOK`,
kept by `QuietStep` and `CommitStep`. That a count above one leaves another
administrator beside the target is `AnotherActiveAdmin`, from the library's
facts about cardinality.

`TrailTellsTheTable` needs no more than the types of the rows: each commit
writes one row and appends the entries about it, which `ReplayOfAppend` applies
one by one.

### ReplayProofs

| Theorem | Statement |
|---|---|
| `ReplayOfNothing` | an empty log replays to the row it began with |
| `ReplayOfAppend` | an entry about the key, added to a log of any length, is applied to what the log replayed to |
| `ReplayOfOthers` | a log of any length that has no entry about the key leaves its row as it was |

`Replayed` is a recursive function, so one must first know that it exists and
is unique, which takes an induction on the length of the log. The library's
induction rules range over a predicate, which the provers cannot instantiate.
`SetInduction` says the same of a set of numbers, which they can: it follows
from the well-foundedness of `<` on the natural numbers (`LeastNatural`). The
operators that tell one log from another, `Apply` and `About`, are constants of
the module; `UserAdminProofs` and `JobServiceProofs` instantiate it with theirs
and cite its theorems through the instance.

### OutputCap

`OutputIsBounded`: for every text and every limit, what `_cap_output` returns
is within the limit, is the whole text if that fits, and is otherwise as long
as the limit allows up to one character, whether or not the marker fits.

### Only model-checked

The three liveness properties (`UndisturbedRunsFinalise`, `SlotIsReleased`,
`Converges`): the prover has no rule for fairness and ENABLED. Every other
property of a passing run has its theorem. The violation runs are
counterexamples; there is nothing to prove about them.

## Where code and documents part

Beside the six violation runs, modelling met these. The models do what the
code does.

- **Orphans.** `has_running_execution` speaks of a run "still in flight"
  (`execution_repository.py:77`). After a restart or a failed final commit the
  row stays RUNNING, and every later fire of the job is skipped.
- **Simultaneous runs.** "`max_instances=1` + the `jobs` pre-check keep two
  simultaneous runs of the same CronJob impossible" (`scheduler/service.py:11`).
  `run_cron_job` never asks `has_running_execution`, so a manual run starts beside
  any other, and a scheduled one beside a manual one recorded after its check.
  `OneRunningScheduledRow` and `NoStartOverAKnownRun` are what holds.
- **Fires without a record.** `discarded` counts them by cause, and
  `FiresAccounted` says there are no others. Cause "ignored" is the fire of a
  job that its first read finds paused or deleted (`jobs.py:47-53`), which
  `docs/scheduler.md` line 72 says is dropped, and lines 91 and 163 and the header
  of `jobs.py` say is recorded; a job paused after that read is run
  (`EnginePaused`); cause "error" includes the script whose file
  is gone, which the header of `jobs.py` counts among the recorded skips and
  which the code only logs (`ScriptPathError` falls in the generic handler).
- **Changes "al instante"** (`docs/scheduler.md:43`): a resync with an older
  snapshot can arm a job again that was just paused, until the next one
  (`service.py:172`).
- **Deleting a script** notifies the scheduler according to
  `docs/scheduler.md:43` and `:145`; its route does not. Without a race no job
  refers to the script by then.
- **"No arma el job"** (`docs/scheduler.md:140`): an edit to an expression that
  `from_crontab` rejects leaves the old trigger armed (`service.py:134`).
- **Day of week 7 in a range.** 7 becomes 0 before the ends are compared: `0-7`
  is stored as `0-0`, `5-7` is refused. `MeaningKept` exempts these ranges
  (`WrapsToSunday`).
- **Steps.** The panel counts `*/S` from 0 also in the day of the month and the
  month, the trigger from 1; `N/S` is N in the panel and N to the last value in
  the trigger; a step larger than its range is accepted by the panel and
  rejected by the trigger.
- **`* 1-5 * * *`** is described as every minute, without its hours.
- **A null in a PUT** unlinks the script according to `docs/cron-jobs.md:37`;
  the code takes null for "not given".
- **References.** "A job may point only to an existing, non-deleted script"
  (`cron_job_service.py:114`) holds unless requests overlap; what
  `ReferencesLostOnlyByRace` says is all that can be said.
- **A deleted job** can still say `is_active`, when it is enabled between its
  deletion's read and commit. Nothing that selects live jobs sees it.
- **A deleted script** keeps its name and its path. The name is checked, the
  path is not: registering it again violates the unique column and is answered
  with 500.
- **Tokens.** A token issued in the same second as a change of password, but
  after it, is refused for its whole life. A login that verified the old
  password before the change can leave a token that survives it.
- **Retry-After.** It does what its docstring says: the oldest failure has left
  by then (`OldestLeavesInTime`). "Esperar el tiempo indicado"
  (`docs/installation.md:160`) is not enough after overlapping attempts have put
  more failures into the window than the limit: the client is then turned away
  again. `OneWaitIsEnough` says when it is let in.

## What the race properties leave out

`AdminsLostOnlyByRace`, `OwnersLostOnlyByRace`, `ReferencesLostOnlyByRace`,
`DerivedApartOnlyByRace`, `FromIsWhatItReplaced` and, for logins, `OldTokensRefused`
say that something goes wrong only when a request commits over another's commit.
They exempt that race, so they cannot show it: they rule out every other cause.
That the race does happen is shown by a run of its own for the last administrator
(`UserAdminLastAdmin`) and the derived columns (`JobColumns`); for references, old
values, owners and logins it is described above and in the notes of `hazards`.

## Not modelled, and assumptions

- Password policy, configuration and logging, schema creation, migrations and
  the seed, the read-only routes, the browser code and packaging: they keep no
  state that a property is about, or run before the program serves.
- When a trigger is due: `next_run_time`, coalescing and the grace time are
  inside APScheduler, of which this code fixes three options. The engine lets a
  fire happen or be missed at any time instead.
- The wording of descriptions, error codes, sanitising of audit details, e-mail
  and the uniqueness of names, the fields of scripts other than `is_enabled`.
- Signatures, password hashes and jti values are what they should be. The clock
  does not go back. A PUT of a user changes one thing that concerns sessions.
- A single worker process (`docs/scheduler.md` requires it), and SQLite with
  its one write lock.
