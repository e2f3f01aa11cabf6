----------------------------- MODULE UserAdmin -----------------------------
(***************************************************************************)
(* Administration of users (services/user_service.py behind                *)
(* api/routes/users.py): who may be created, deactivated, demoted and      *)
(* deleted, while several requests are under way.                          *)
(*                                                                         *)
(* A request reads the actor, then the target, then counts the active      *)
(* administrators, each in a statement that sees what is committed at that *)
(* moment (SQLite takes no lock for a SELECT here).  Its first flush takes *)
(* SQLite's only write lock, which it keeps until its commit, so that from *)
(* the flush on the handler is one step.                                   *)
(*                                                                         *)
(* Names, e-mail addresses, passwords and tokens are left out: an active   *)
(* user may send a request at any time.  Rows are named by their id, which *)
(* SQLite gives out again once the last rows are deleted.                  *)
(***************************************************************************)
EXTENDS Naturals, FiniteSets, Sequences

CONSTANTS
    WebThreads,
    Roles,              \* the roles of ROLE_PERMISSIONS that the table uses
    MaxId,              \* bound: row ids
    MaxRequests         \* bound: requests

ASSUME RolesAssumption == /\ "admin" \in Roles
                          /\ Roles \subseteq {"admin", "operator", "viewer"}
ASSUME BoundsAssumption == {MaxId, MaxRequests} \subseteq Nat

VARIABLES
    (* The database. *)
    users,      \* users: role and is_active of each row
    owners,     \* the ids found in cron_jobs.owner_id
    trail,      \* audit_logs: the events about users, oldest first
    (* The process. *)
    pc, frame,  \* each thread's position and local variables
    (* Bookkeeping that the program does not keep. *)
    origin,     \* the users table before the first request
    commits,    \* commits that wrote users or cron_jobs
    requests

database == <<users, owners, trail>>
vars == <<database, pc, frame, origin, commits, requests>>

Ids == 1 .. MaxId
Unset == "unset"
Absent == [status |-> "absent", role |-> Unset]
UserRows == [status : {"active", "inactive"}, role : Roles]
Tables == [Ids -> UserRows \cup {Absent}]
ActiveAdmin == [status |-> "active", role |-> "admin"]

\* The roles that ROLE_PERMISSIONS grants cron_jobs.create.
JobCreators == Roles \cap {"admin", "operator"}

AuditActions == {"USER_CREATE", "USER_ACTIVATE", "USER_DEACTIVATE",
                 "ROLE_CHANGE", "USER_DELETE"}
Events == [action : AuditActions, user : Ids, role : Roles \cup {Unset}]

(***************************************************************************)
(* A frame holds the actor, the path and the body of the request, and the  *)
(* row of the target as this session first saw it: the session's identity  *)
(* map never refreshes it.  "since" is bookkeeping: the commits there had  *)
(* been when the request's first read took place.                          *)
(***************************************************************************)
IdleFrame == [op |-> "none", actor |-> 0, target |-> 0, status |-> Unset,
              role |-> Unset, copy |-> Absent, since |-> 0]

Frames == [op : {"none", "create", "update", "delete", "job"},
           actor : Ids \cup {0}, target : Ids \cup {0},
           status : {"active", "inactive", Unset}, role : Roles \cup {Unset},
           copy : UserRows \cup {Absent}, since : Nat]

Stages == {"idle", "load", "check", "children", "write"}

TypeOK ==
    /\ users \in Tables
    /\ owners \subseteq Ids
    /\ trail \in Seq(Events)
    /\ pc \in [WebThreads -> Stages]
    /\ frame \in [WebThreads -> Frames]
    /\ origin \in Tables
    /\ commits \in Nat
    /\ requests \in Nat

-----------------------------------------------------------------------------
Present == {u \in Ids : users[u] # Absent}

\* count_active_admins counts these.
ActiveAdminsOf(table) == {u \in Ids : table[u] = ActiveAdmin}
ActiveAdmins == ActiveAdminsOf(users)

\* Mutant: the comparison is off by one.
EnsureOneActiveAdmin(row, table) ==
    row = ActiveAdmin => Cardinality(ActiveAdminsOf(table)) > 0

(***************************************************************************)
(* _ensure_not_last_active_admin, for the row as the session sees it.      *)
(***************************************************************************)
EnsureNotLastActiveAdmin(row, table) ==
    row = ActiveAdmin => Cardinality(ActiveAdminsOf(table)) > 1

\* What the body of a PUT changes in the session's copy of the row.
ChangesStatus(f) == f.status \notin {Unset, f.copy.status}
ChangesRole(f) == f.role \notin {Unset, f.copy.role}

\* Mutant: the role of the body is written without a test for None.
WriteRoleUnchecked(f, row) == [row EXCEPT !.role = f.role]

\* Mutant: the whole copy is written back.
WriteWholeCopy(f, row) ==
    [row EXCEPT !.role = IF ChangesRole(f) THEN f.role ELSE f.copy.role]

(***************************************************************************)
(* The UPDATE writes the columns that differ from the session's copy.      *)
(***************************************************************************)
WriteStatus(f, row) ==
    IF ChangesStatus(f) THEN [row EXCEPT !.status = f.status] ELSE row

WriteRole(f, row) == IF ChangesRole(f) THEN [row EXCEPT !.role = f.role] ELSE row

UserEvent(action, u, role) == [action |-> action, user |-> u, role |-> role]

UpdateEvents(f) ==
    (IF ChangesStatus(f)
       THEN <<UserEvent(IF f.status = "active" THEN "USER_ACTIVATE" ELSE "USER_DEACTIVATE",
                        f.target, Unset)>>
       ELSE <<>>)
    \o (IF ChangesRole(f) THEN <<UserEvent("ROLE_CHANGE", f.target, f.role)>> ELSE <<>>)

-----------------------------------------------------------------------------
(***************************************************************************)
(* Any table with an active administrator, which init_db provides.         *)
(***************************************************************************)
Init ==
    /\ users \in Tables
    /\ ActiveAdmins # {}
    /\ owners \in SUBSET Present
    /\ trail = <<>>
    /\ pc = [t \in WebThreads |-> "idle"]
    /\ frame = [t \in WebThreads |-> IdleFrame]
    /\ origin = users
    /\ commits = 0
    /\ requests = 0

Goto(t, stage, local) ==
    /\ pc' = [pc EXCEPT ![t] = stage]
    /\ frame' = [frame EXCEPT ![t] = local]
    /\ UNCHANGED <<origin, requests>>

\* The handler returns or raises; its session is closed.
Done(t) == Goto(t, "idle", IdleFrame)

(***************************************************************************)
(* get_current_user and require_permissions: the actor is active and its   *)
(* role has the permission.  The actor's row stays in the session, also as *)
(* the target when they are the same.                                      *)
(***************************************************************************)
Arrive(t, stage, local) ==
    /\ pc[t] = "idle"
    /\ requests < MaxRequests
    /\ requests' = requests + 1
    /\ pc' = [pc EXCEPT ![t] = stage]
    /\ frame' = [frame EXCEPT ![t] = local]
    /\ UNCHANGED <<database, origin, commits>>

RequestCreate(t) ==
    \E a \in ActiveAdmins, r \in Roles :
        Arrive(t, "write", [IdleFrame EXCEPT !.op = "create", !.actor = a,
                                             !.role = r, !.since = commits])

RequestUpdate(t) ==
    \E a \in ActiveAdmins, u \in Ids, s \in {"active", "inactive", Unset},
       r \in Roles \cup {Unset} :
        Arrive(t, "load", [op |-> "update", actor |-> a, target |-> u, status |-> s,
                           role |-> r, copy |-> users[a], since |-> commits])

RequestDelete(t) ==
    \E a \in ActiveAdmins, u \in Ids :
        Arrive(t, "load", [op |-> "delete", actor |-> a, target |-> u, status |-> Unset,
                           role |-> Unset, copy |-> users[a], since |-> commits])

RequestJob(t) ==
    \E a \in Present :
        /\ users[a].status = "active"
        /\ users[a].role \in JobCreators
        /\ Arrive(t, "write", [IdleFrame EXCEPT !.op = "job", !.actor = a, !.since = commits])

(***************************************************************************)
(* get_user_or_raise: session.get finds the actor's own row in the         *)
(* session and reads any other one.                                        *)
(***************************************************************************)
LoadTarget(t) ==
    LET f == frame[t]
        row == IF f.target = f.actor THEN f.copy ELSE users[f.target] IN
    /\ pc[t] = "load"
    /\ \/ row # Absent /\ Goto(t, "check", [f EXCEPT !.copy = row])
       \/ row = Absent /\ Done(t)
    /\ UNCHANGED <<database, commits>>

(***************************************************************************)
(* update_user up to its first flush.  With a new status, the role is      *)
(* looked at after the flush.                                              *)
(***************************************************************************)
StatusAllowed(f) == EnsureNotLastActiveAdmin(f.copy, users)
RoleAllowed(f, row, table) ==
    /\ f.actor # f.target
    /\ EnsureNotLastActiveAdmin(row, table)

CheckUpdate(t) ==
    LET f == frame[t]
        allowed == /\ ChangesStatus(f) => StatusAllowed(f)
                   /\ ~ChangesStatus(f) /\ ChangesRole(f) => RoleAllowed(f, f.copy, users) IN
    /\ pc[t] = "check" /\ f.op = "update"
    /\ \/ allowed /\ Goto(t, "write", f)
       \/ ~allowed /\ Done(t)
    /\ UNCHANGED <<database, commits>>

CheckDelete(t) ==
    LET f == frame[t]
        allowed == EnsureNotLastActiveAdmin(f.copy, users) /\ f.actor # f.target IN
    /\ pc[t] = "check" /\ f.op = "delete"
    /\ \/ allowed /\ Goto(t, "children", f)
       \/ ~allowed /\ Done(t)
    /\ UNCHANGED <<database, commits>>

\* Mutant: the jobs of the user are left as they are.
LeaveOwnedJobs(t) ==
    /\ pc[t] = "children"
    /\ Goto(t, "write", frame[t])
    /\ UNCHANGED <<database, commits>>

(***************************************************************************)
(* The flush of a delete first reads the user's jobs, to clear their       *)
(* owner_id.  That column is NOT NULL: with a job the flush raises.        *)
(***************************************************************************)
ReadOwnedJobs(t) ==
    LET f == frame[t] IN
    /\ pc[t] = "children"
    /\ \/ f.target \notin owners /\ Goto(t, "write", f)
       \/ f.target \in owners /\ Done(t)
    /\ UNCHANGED <<database, commits>>

-----------------------------------------------------------------------------
(***************************************************************************)
(* From the first flush to the commit.                                     *)
(***************************************************************************)
Commit(t, op) ==
    /\ pc[t] = "write"
    /\ frame[t].op = op
    /\ commits' = commits + 1
    /\ Done(t)

(***************************************************************************)
(* The rest of update_user.  An UPDATE of a row that is gone raises        *)
(* StaleDataError; an exception takes the new status back, too.            *)
(***************************************************************************)
UpdateUser(t) ==
    LET f == frame[t]
        flushed == [users EXCEPT ![f.target] = WriteStatus(f, @)] IN
    /\ Commit(t, "update")
    /\ f.target \in Present
    /\ ChangesStatus(f) \/ ChangesRole(f)
    /\ ChangesStatus(f) /\ ChangesRole(f) =>
          RoleAllowed(f, [f.copy EXCEPT !.status = f.status], flushed)
    /\ users' = [flushed EXCEPT ![f.target] = WriteRole(f, @)]
    /\ trail' = trail \o UpdateEvents(f)
    /\ UNCHANGED owners

(***************************************************************************)
(* delete_user's commit.  A DELETE that finds no row only warns.           *)
(***************************************************************************)
DeleteUser(t) ==
    LET f == frame[t] IN
    /\ Commit(t, "delete")
    /\ users' = [users EXCEPT ![f.target] = Absent]
    /\ trail' = Append(trail, UserEvent("USER_DELETE", f.target, Unset))
    /\ UNCHANGED owners

(***************************************************************************)
(* create_user: the id is one more than the largest in the table.          *)
(***************************************************************************)
CreateUser(t) ==
    LET f == frame[t] IN
    /\ Commit(t, "create")
    /\ \E u \in Ids :
          /\ \A v \in Present : v < u
          /\ u = 1 \/ u - 1 \in Present
          /\ users' = [users EXCEPT ![u] = [status |-> "active", role |-> f.role]]
          /\ trail' = Append(trail, UserEvent("USER_CREATE", u, f.role))
    /\ UNCHANGED owners

(***************************************************************************)
(* create_cron_job's commit, with the id of the actor as it was read.      *)
(* Foreign keys are not enforced (SQLite without PRAGMA foreign_keys).     *)
(***************************************************************************)
CreateJob(t) ==
    /\ Commit(t, "job")
    /\ owners' = owners \cup {frame[t].actor}
    /\ UNCHANGED <<users, trail>>

(***************************************************************************)
(* A request ends without a commit: a check raised after the flush, there  *)
(* was nothing to write, the database was locked, or the process stopped.  *)
(***************************************************************************)
Abandon(t) ==
    /\ pc[t] # "idle"
    /\ Done(t)
    /\ UNCHANGED <<database, commits>>

Next ==
    \E t \in WebThreads :
        \/ RequestCreate(t) \/ RequestUpdate(t) \/ RequestDelete(t) \/ RequestJob(t)
        \/ LoadTarget(t) \/ CheckUpdate(t) \/ CheckDelete(t) \/ ReadOwnedJobs(t)
        \/ UpdateUser(t) \/ DeleteUser(t) \/ CreateUser(t) \/ CreateJob(t)
        \/ Abandon(t)

Spec == Init /\ [][Next]_vars

-----------------------------------------------------------------------------
(***************************************************************************)
(* What may only happen when requests overlap.                             *)
(***************************************************************************)
\* The request t has seen every commit that there is.
Undisturbed(t) == frame[t].since = commits

\* A request commits although another one has committed since its first read.
RacedCommit ==
    \E t \in WebThreads : pc[t] = "write" /\ pc'[t] = "idle" /\ ~Undisturbed(t)

AnAdminRemains == ActiveAdmins # {}
JobsHaveOwners == owners \subseteq Present

\* The last active administrator is only ever lost to a race: a request whose
\* reads still hold when it commits, whatever it does and whoever sends it,
\* leaves one (_ensure_not_last_active_admin before and after the flush).
AdminsLostOnlyByRace == [][AnAdminRemains => AnAdminRemains' \/ RacedCommit]_vars

\* A job loses its owner's row only to a race: the delete of a user with jobs
\* fails, and a job is created by a user whose row is there.
OwnersLostOnlyByRace == [][JobsHaveOwners => JobsHaveOwners' \/ RacedCommit]_vars

(***************************************************************************)
(* A row as a reader of the audit trail reconstructs it from the first one.*)
(***************************************************************************)
ApplyEvent(row, e) ==
    CASE e.action = "USER_CREATE"     -> [status |-> "active", role |-> e.role]
      [] e.action = "USER_DELETE"     -> Absent
      [] e.action = "USER_ACTIVATE"   -> [row EXCEPT !.status = "active"]
      [] e.action = "USER_DEACTIVATE" -> [row EXCEPT !.status = "inactive"]
      [] e.action = "ROLE_CHANGE"     -> [row EXCEPT !.role = e.role]

UserOf(e) == e.user

Trail == INSTANCE Replay WITH Apply <- ApplyEvent, About <- UserOf

\* The audit trail, replayed from the first table, gives the table, also when
\* requests work on stale copies of one row, a row goes away under an update,
\* or an id is given out again: no update is lost and none goes unrecorded.
TrailReplaysToUsers == \A u \in Ids : users[u] = Trail!Replayed(u, origin[u], trail)
=============================================================================
