-------------------------- MODULE UserAdminProofs --------------------------
(***************************************************************************)
(* Theorems of UserAdmin, for any number of threads, row ids and requests. *)
(***************************************************************************)
EXTENDS UserAdmin, FiniteSetTheorems, SequenceTheorems, TLAPS

(***************************************************************************)
(* What a thread's stage says about its local variables.                   *)
(***************************************************************************)
LocalOK(stage, f) ==
    /\ stage \in {"load", "check"} => f.op \in {"update", "delete"}
    /\ stage = "children" => f.op = "delete"
    /\ f.op \in {"update", "delete"} => f.target \in Ids
    /\ f.op \in {"update", "delete", "job"} => f.actor \in Ids
    /\ f.op \in {"update", "delete"} /\ stage \in {"check", "children", "write"} =>
          f.copy \in UserRows
    /\ f.op = "create" => f.role \in Roles
    /\ f.since <= commits

(***************************************************************************)
(* What an undisturbed request knows of the database: its copy is the row, *)
(* and the checks that it has passed still hold.                           *)
(***************************************************************************)
ViewOK(stage, f) ==
    f.since = commits =>
        /\ stage = "load" /\ f.actor = f.target => f.copy = users[f.target]
        /\ f.op \in {"update", "delete"} /\ stage \in {"check", "children", "write"} =>
              f.copy = users[f.target]
        /\ f.op = "update" /\ stage = "write" /\ (ChangesStatus(f) \/ ChangesRole(f)) =>
              EnsureNotLastActiveAdmin(f.copy, users)
        /\ f.op = "delete" /\ stage \in {"children", "write"} =>
              EnsureNotLastActiveAdmin(f.copy, users)
        /\ f.op = "delete" /\ stage = "write" => f.target \notin owners
        /\ f.op = "job" => f.actor \in Present

CallsOK == \A t \in WebThreads : LocalOK(pc[t], frame[t]) /\ ViewOK(pc[t], frame[t])

IInv == TypeOK /\ CallsOK

-----------------------------------------------------------------------------
LEMMA RowTypes ==
    /\ Absent \notin UserRows
    /\ ActiveAdmin \in UserRows
    /\ ActiveAdmin # Absent
    /\ \A row \in UserRows : row.status \in {"active", "inactive"} /\ row.role \in Roles
BY RolesAssumption DEF Absent, Unset, UserRows, ActiveAdmin

LEMMA IdleFrameOK ==
    ASSUME commits \in Nat
    PROVE  IdleFrame \in Frames /\ LocalOK("idle", IdleFrame) /\ ViewOK("idle", IdleFrame)
BY DEF IdleFrame, Frames, LocalOK, ViewOK, Unset, Absent

LEMMA UpdateEventsType ==
    ASSUME NEW f \in Frames, f.target \in Ids
    PROVE  UpdateEvents(f) \in Seq(Events)
<1> DEFINE
      status == IF f.status = "active" THEN "USER_ACTIVATE" ELSE "USER_DEACTIVATE"
      first == UserEvent(status, f.target, Unset)
      second == UserEvent("ROLE_CHANGE", f.target, f.role)
      left == IF ChangesStatus(f) THEN <<first>> ELSE <<>>
      right == IF ChangesRole(f) THEN <<second>> ELSE <<>>
<1>1. f.role \in Roles \cup {Unset}
    BY DEF Frames
<1>2. first \in Events
    BY DEF Events, UserEvent, AuditActions
<1>3. second \in Events
    BY <1>1 DEF Events, UserEvent, AuditActions
<1>4. left \in Seq(Events) /\ right \in Seq(Events)
  <2> HIDE DEF first, second
  <2> QED BY <1>2, <1>3
<1>5. UpdateEvents(f) = left \o right
    BY DEF UpdateEvents
<1> HIDE DEF left, right
<1> QED BY <1>4, <1>5

(***************************************************************************)
(* Where two are counted there is one beside any given one.                *)
(***************************************************************************)
LEMMA AnotherActiveAdmin ==
    ASSUME NEW table \in Tables, NEW u \in Ids,
           EnsureNotLastActiveAdmin(table[u], table),
           ActiveAdminsOf(table) # {}
    PROVE  \E v \in ActiveAdminsOf(table) : v # u
<1> DEFINE S == ActiveAdminsOf(table)
<1>1. CASE u \notin S
    BY <1>1
<1>2. CASE u \in S
  <2>1. Cardinality(S) > 1
      BY <1>2 DEF EnsureNotLastActiveAdmin, ActiveAdminsOf
  <2>2. IsFiniteSet(Ids)
      BY FS_Interval, BoundsAssumption DEF Ids
  <2>3. IsFiniteSet(S)
      BY <2>2, FS_Subset DEF ActiveAdminsOf
  <2>4. SUFFICES ASSUME \A v \in S : v = u
                 PROVE  FALSE
      OBVIOUS
  <2>5. S = {u}
      BY <1>2, <2>4
  <2>6. Cardinality(S) = 1
      BY <2>5, FS_Singleton
  <2> HIDE DEF S
  <2> QED BY <2>1, <2>6
<1> QED BY <1>1, <1>2

-----------------------------------------------------------------------------
LEMMA InitOK == Init => IInv
<1> SUFFICES ASSUME Init PROVE IInv
    OBVIOUS
<1>1. commits \in Nat
    BY DEF Init
<1>2. IdleFrame \in Frames /\ LocalOK("idle", IdleFrame) /\ ViewOK("idle", IdleFrame)
    BY <1>1, IdleFrameOK
<1>3. TypeOK
  <2>1. users \in Tables /\ owners \subseteq Ids /\ origin \in Tables
      BY DEF Init, Present
  <2>2. trail \in Seq(Events) /\ commits \in Nat /\ requests \in Nat
      BY DEF Init
  <2>3. pc \in [WebThreads -> Stages] /\ frame \in [WebThreads -> Frames]
      BY <1>2 DEF Init, Stages
  <2> QED BY <2>1, <2>2, <2>3 DEF TypeOK
<1>4. CallsOK
    BY <1>2 DEF Init, CallsOK
<1> QED BY <1>3, <1>4 DEF IInv

(***************************************************************************)
(* A step of one thread that commits nothing leaves the others as they     *)
(* are.                                                                    *)
(***************************************************************************)
LEMMA QuietStep ==
    ASSUME IInv,
           NEW t \in WebThreads, NEW stage \in Stages, NEW local \in Frames,
           LocalOK(stage, local), ViewOK(stage, local),
           pc' = [pc EXCEPT ![t] = stage],
           frame' = [frame EXCEPT ![t] = local],
           UNCHANGED <<database, origin, commits>>,
           requests' \in Nat
    PROVE  IInv'
<1>1. TypeOK'
    BY DEF IInv, TypeOK, database
<1>2. \A u \in WebThreads : /\ pc'[u] = IF u = t THEN stage ELSE pc[u]
                            /\ frame'[u] = IF u = t THEN local ELSE frame[u]
    BY DEF IInv, TypeOK
<1>3. UNCHANGED <<users, owners, commits>>
    BY DEF database
<1>5. ASSUME NEW u \in WebThreads
      PROVE  LocalOK(pc[u], frame[u])' /\ ViewOK(pc[u], frame[u])'
  <2>1. CASE u = t
    <3>1. pc'[u] = stage /\ frame'[u] = local
        BY <2>1, <1>2
    <3>2. LocalOK(pc[u], frame[u])'
        BY <3>1, <1>3 DEF LocalOK
    <3>3. ViewOK(pc[u], frame[u])'
        BY <3>1, <1>3 DEF ViewOK, EnsureNotLastActiveAdmin, ActiveAdminsOf, Present,
                          ChangesStatus, ChangesRole
    <3> QED BY <3>2, <3>3
  <2>2. CASE u # t
    <3>1. pc'[u] = pc[u] /\ frame'[u] = frame[u]
        BY <2>2, <1>2
    <3>2. LocalOK(pc[u], frame[u]) /\ ViewOK(pc[u], frame[u])
        BY DEF IInv, CallsOK
    <3>3. LocalOK(pc[u], frame[u])'
        BY <3>1, <3>2, <1>3 DEF LocalOK
    <3>4. ViewOK(pc[u], frame[u])'
        BY <3>1, <3>2, <1>3 DEF ViewOK, EnsureNotLastActiveAdmin, ActiveAdminsOf, Present,
                                ChangesStatus, ChangesRole
    <3> QED BY <3>3, <3>4
  <2> QED BY <2>1, <2>2
<1> QED BY <1>1, <1>5 DEF IInv, CallsOK

LEMMA GotoStep ==
    ASSUME IInv,
           NEW t \in WebThreads, NEW stage \in Stages, NEW local \in Frames,
           LocalOK(stage, local), ViewOK(stage, local),
           Goto(t, stage, local),
           UNCHANGED <<database, commits>>
    PROVE  IInv'
<1>1. requests' \in Nat
    BY DEF Goto, IInv, TypeOK
<1> QED BY <1>1, QuietStep DEF Goto

LEMMA DoneStep ==
    ASSUME IInv, NEW t \in WebThreads, Done(t), UNCHANGED <<database, commits>>
    PROVE  IInv'
<1>1. commits \in Nat
    BY DEF IInv, TypeOK
<1>2. "idle" \in Stages
    BY DEF Stages
<1> QED BY <1>1, <1>2, IdleFrameOK, GotoStep DEF Done

LEMMA ArriveStep ==
    ASSUME IInv,
           NEW t \in WebThreads, NEW stage \in Stages, NEW local \in Frames,
           LocalOK(stage, local), ViewOK(stage, local),
           Arrive(t, stage, local)
    PROVE  IInv'
<1>1. requests' \in Nat
    BY DEF Arrive, IInv, TypeOK
<1> QED BY <1>1, QuietStep DEF Arrive

(***************************************************************************)
(* A commit disturbs every other request.                                  *)
(***************************************************************************)
LEMMA CommitStep ==
    ASSUME IInv, NEW t \in WebThreads, NEW op, Commit(t, op),
           users' \in Tables, owners' \subseteq Ids, trail' \in Seq(Events)
    PROVE  IInv'
<1>1. commits \in Nat /\ commits' = commits + 1
    BY DEF IInv, TypeOK, Commit
<1>2. IdleFrame \in Frames
    BY <1>1, IdleFrameOK
<1>3. TypeOK'
    BY <1>1, <1>2 DEF IInv, TypeOK, Commit, Done, Goto, Stages
<1>4. \A u \in WebThreads : /\ pc'[u] = IF u = t THEN "idle" ELSE pc[u]
                            /\ frame'[u] = IF u = t THEN IdleFrame ELSE frame[u]
    BY DEF IInv, TypeOK, Commit, Done, Goto
<1>5. ASSUME NEW u \in WebThreads
      PROVE  LocalOK(pc[u], frame[u])' /\ ViewOK(pc[u], frame[u])'
  <2>1. CASE u = t
    <3>1. pc'[u] = "idle" /\ frame'[u] = IdleFrame
        BY <2>1, <1>4
    <3> QED BY <3>1, <1>1 DEF LocalOK, ViewOK, IdleFrame
  <2>2. CASE u # t
    <3>1. pc'[u] = pc[u] /\ frame'[u] = frame[u]
        BY <2>2, <1>4
    <3>2. LocalOK(pc[u], frame[u]) /\ frame[u].since \in Nat
        BY DEF IInv, CallsOK, TypeOK, Frames
    <3>3. frame[u].since <= commits
        BY <3>2 DEF LocalOK
    <3>4. LocalOK(pc[u], frame[u])'
        BY <3>1, <3>2, <3>3, <1>1 DEF LocalOK
    <3>5. frame'[u].since # commits'
        BY <3>1, <3>2, <3>3, <1>1
    <3>6. ViewOK(pc[u], frame[u])'
        BY <3>5 DEF ViewOK
    <3> QED BY <3>4, <3>6
  <2> QED BY <2>1, <2>2
<1> QED BY <1>3, <1>5 DEF IInv, CallsOK

-----------------------------------------------------------------------------
(***************************************************************************)
(* The steps before the commit.                                            *)
(***************************************************************************)
LEMMA ArrivalsOK ==
    ASSUME IInv, NEW t \in WebThreads,
           RequestCreate(t) \/ RequestUpdate(t) \/ RequestDelete(t) \/ RequestJob(t)
    PROVE  IInv'
<1>1. commits \in Nat /\ users \in Tables
    BY DEF IInv, TypeOK
<1>2. \A a \in Present : users[a] \in UserRows
    BY <1>1 DEF Present, Tables
<1>3. ActiveAdmins \subseteq Present
    BY RowTypes DEF ActiveAdmins, ActiveAdminsOf, Present
<1>4. CASE RequestCreate(t)
  <2>1. PICK a \in ActiveAdmins, r \in Roles :
            Arrive(t, "write", [IdleFrame EXCEPT !.op = "create", !.actor = a,
                                                 !.role = r, !.since = commits])
      BY <1>4 DEF RequestCreate
  <2> DEFINE f == [IdleFrame EXCEPT !.op = "create", !.actor = a, !.role = r, !.since = commits]
  <2>2. a \in Ids /\ IdleFrame \in Frames
      BY <1>1, IdleFrameOK DEF ActiveAdmins, ActiveAdminsOf
  <2>3. /\ f \in Frames
        /\ f.op = "create" /\ f.role = r /\ f.since = commits
      BY <1>1, <2>2 DEF Frames
  <2> HIDE DEF f
  <2>4. LocalOK("write", f) /\ ViewOK("write", f)
      BY <1>1, <2>2, <2>3 DEF LocalOK, ViewOK
  <2> QED BY <2>1, <2>3, <2>4, ArriveStep DEF Stages, f
<1>5. CASE RequestUpdate(t)
  <2>1. PICK a \in ActiveAdmins, u \in Ids, s \in {"active", "inactive", Unset},
             r \in Roles \cup {Unset} :
            Arrive(t, "load", [op |-> "update", actor |-> a, target |-> u, status |-> s,
                               role |-> r, copy |-> users[a], since |-> commits])
      BY <1>5 DEF RequestUpdate
  <2> DEFINE f == [op |-> "update", actor |-> a, target |-> u, status |-> s,
                   role |-> r, copy |-> users[a], since |-> commits]
  <2>2. a \in Ids /\ users[a] \in UserRows
      BY <1>2, <1>3 DEF Present
  <2>3. f \in Frames
      BY <1>1, <2>2 DEF Frames
  <2>4. LocalOK("load", f) /\ ViewOK("load", f)
      BY <1>1, <2>2 DEF LocalOK, ViewOK
  <2> QED BY <2>1, <2>3, <2>4, ArriveStep DEF Stages
<1>6. CASE RequestDelete(t)
  <2>1. PICK a \in ActiveAdmins, u \in Ids :
            Arrive(t, "load", [op |-> "delete", actor |-> a, target |-> u, status |-> Unset,
                               role |-> Unset, copy |-> users[a], since |-> commits])
      BY <1>6 DEF RequestDelete
  <2> DEFINE f == [op |-> "delete", actor |-> a, target |-> u, status |-> Unset,
                   role |-> Unset, copy |-> users[a], since |-> commits]
  <2>2. a \in Ids /\ users[a] \in UserRows
      BY <1>2, <1>3 DEF Present
  <2>3. f \in Frames
      BY <1>1, <2>2 DEF Frames
  <2>4. LocalOK("load", f) /\ ViewOK("load", f)
      BY <1>1, <2>2 DEF LocalOK, ViewOK
  <2> QED BY <2>1, <2>3, <2>4, ArriveStep DEF Stages
<1>7. CASE RequestJob(t)
  <2>1. PICK a \in Present :
            Arrive(t, "write", [IdleFrame EXCEPT !.op = "job", !.actor = a, !.since = commits])
      BY <1>7 DEF RequestJob
  <2> DEFINE f == [IdleFrame EXCEPT !.op = "job", !.actor = a, !.since = commits]
  <2>2. a \in Ids /\ IdleFrame \in Frames
      BY <1>1, IdleFrameOK DEF Present
  <2>3. /\ f \in Frames
        /\ f.op = "job" /\ f.actor = a /\ f.since = commits
      BY <1>1, <2>2 DEF Frames
  <2> HIDE DEF f
  <2>4. LocalOK("write", f) /\ ViewOK("write", f)
      BY <1>1, <2>2, <2>3 DEF LocalOK, ViewOK, Present
  <2> QED BY <2>1, <2>3, <2>4, ArriveStep DEF Stages, f
<1> QED BY <1>4, <1>5, <1>6, <1>7

LEMMA LoadTargetOK ==
    ASSUME IInv, NEW t \in WebThreads, LoadTarget(t)
    PROVE  IInv'
<1> DEFINE f == frame[t]
           row == IF f.target = f.actor THEN f.copy ELSE users[f.target]
<1>1. pc[t] = "load" /\ UNCHANGED <<database, commits>>
    BY DEF LoadTarget
<1>2. f \in Frames /\ LocalOK("load", f) /\ ViewOK("load", f) /\ users \in Tables
    BY <1>1 DEF IInv, TypeOK, CallsOK
<1>3. CASE row = Absent /\ Done(t)
    BY <1>1, <1>3, DoneStep
<1>4. CASE row # Absent /\ Goto(t, "check", [f EXCEPT !.copy = row])
  <2> DEFINE g == [f EXCEPT !.copy = row]
  <2>1. f.target \in Ids /\ f.op \in {"update", "delete"}
      BY <1>2 DEF LocalOK
  <2>2. row \in UserRows
      BY <1>2, <1>4, <2>1 DEF Frames, Tables
  <2>3. /\ g \in Frames
        /\ g.copy = row
        /\ g.op = f.op /\ g.actor = f.actor /\ g.target = f.target /\ g.since = f.since
      BY <1>2, <2>2 DEF Frames
  <2>4. f.since = commits => row = users[f.target]
      BY <1>2 DEF ViewOK
  <2> HIDE DEF g, row
  <2>5. LocalOK("check", g)
      BY <1>2, <2>1, <2>2, <2>3 DEF LocalOK
  <2>6. ViewOK("check", g)
      BY <2>1, <2>3, <2>4 DEF ViewOK
  <2> QED BY <1>1, <1>4, <2>3, <2>5, <2>6, GotoStep DEF g, Stages
<1> QED BY <1>3, <1>4 DEF LoadTarget

LEMMA CheckUpdateOK ==
    ASSUME IInv, NEW t \in WebThreads, CheckUpdate(t)
    PROVE  IInv'
<1> DEFINE f == frame[t]
           allowed == /\ ChangesStatus(f) => StatusAllowed(f)
                      /\ ~ChangesStatus(f) /\ ChangesRole(f) => RoleAllowed(f, f.copy, users)
<1>1. pc[t] = "check" /\ f.op = "update" /\ UNCHANGED <<database, commits>>
    BY DEF CheckUpdate
<1>2. f \in Frames /\ LocalOK("check", f) /\ ViewOK("check", f)
    BY <1>1 DEF IInv, TypeOK, CallsOK
<1>3. CASE ~allowed /\ Done(t)
    BY <1>1, <1>3, DoneStep
<1>4. CASE allowed /\ Goto(t, "write", f)
  <2>1. ChangesStatus(f) \/ ChangesRole(f) => EnsureNotLastActiveAdmin(f.copy, users)
      BY <1>4 DEF StatusAllowed, RoleAllowed
  <2>2. LocalOK("write", f)
      BY <1>1, <1>2 DEF LocalOK
  <2>3. ViewOK("write", f)
      BY <1>1, <1>2, <2>1 DEF ViewOK
  <2> QED BY <1>1, <1>2, <1>4, <2>2, <2>3, GotoStep DEF Stages
<1> QED BY <1>3, <1>4 DEF CheckUpdate

LEMMA CheckDeleteOK ==
    ASSUME IInv, NEW t \in WebThreads, CheckDelete(t)
    PROVE  IInv'
<1> DEFINE f == frame[t]
           allowed == EnsureNotLastActiveAdmin(f.copy, users) /\ f.actor # f.target
<1>1. pc[t] = "check" /\ f.op = "delete" /\ UNCHANGED <<database, commits>>
    BY DEF CheckDelete
<1>2. f \in Frames /\ LocalOK("check", f) /\ ViewOK("check", f)
    BY <1>1 DEF IInv, TypeOK, CallsOK
<1>3. CASE ~allowed /\ Done(t)
    BY <1>1, <1>3, DoneStep
<1>4. CASE allowed /\ Goto(t, "children", f)
  <2>1. LocalOK("children", f)
      BY <1>1, <1>2 DEF LocalOK
  <2>2. ViewOK("children", f)
      BY <1>1, <1>2, <1>4 DEF ViewOK
  <2> QED BY <1>1, <1>2, <1>4, <2>1, <2>2, GotoStep DEF Stages
<1> QED BY <1>3, <1>4 DEF CheckDelete

LEMMA ReadOwnedJobsOK ==
    ASSUME IInv, NEW t \in WebThreads, ReadOwnedJobs(t)
    PROVE  IInv'
<1> DEFINE f == frame[t]
<1>1. pc[t] = "children" /\ UNCHANGED <<database, commits>>
    BY DEF ReadOwnedJobs
<1>2. f \in Frames /\ LocalOK("children", f) /\ ViewOK("children", f)
    BY <1>1 DEF IInv, TypeOK, CallsOK
<1>3. CASE Done(t)
    BY <1>1, <1>3, DoneStep
<1>4. CASE f.target \notin owners /\ Goto(t, "write", f)
  <2>1. LocalOK("write", f)
      BY <1>2 DEF LocalOK
  <2>2. ViewOK("write", f)
      BY <1>2, <1>4 DEF ViewOK, LocalOK
  <2> QED BY <1>1, <1>2, <1>4, <2>1, <2>2, GotoStep DEF Stages
<1> QED BY <1>3, <1>4 DEF ReadOwnedJobs

(***************************************************************************)
(* The commits: the types of what they write.                              *)
(***************************************************************************)
LEMMA WrittenRow ==
    ASSUME NEW f \in Frames, NEW row \in UserRows
    PROVE  WriteRole(f, WriteStatus(f, row)) \in UserRows
<1>1. f.status \in {"active", "inactive", Unset} /\ f.role \in Roles \cup {Unset}
    BY DEF Frames
<1>2. WriteStatus(f, row) \in UserRows
    BY <1>1 DEF WriteStatus, ChangesStatus, UserRows
<1> HIDE DEF UserRows
<1>3. \A r \in UserRows : WriteRole(f, r) \in UserRows
    BY <1>1 DEF WriteRole, ChangesRole, UserRows
<1> QED BY <1>2, <1>3

LEMMA UpdateUserOK ==
    ASSUME IInv, NEW t \in WebThreads, UpdateUser(t)
    PROVE  /\ IInv'
           /\ LET f == frame[t] IN
              /\ f \in Frames /\ f.op = "update" /\ f.target \in Present /\ pc[t] = "write"
              /\ users' = [users EXCEPT ![f.target] = WriteRole(f, WriteStatus(f, @))]
              /\ users'[f.target] # Absent
<1> DEFINE f == frame[t]
<1>1. /\ Commit(t, "update") /\ f.target \in Present
      /\ trail' = trail \o UpdateEvents(f) /\ UNCHANGED owners
    BY DEF UpdateUser
<1>2. pc[t] = "write" /\ f.op = "update"
    BY <1>1 DEF Commit
<1>3. f \in Frames /\ users \in Tables /\ trail \in Seq(Events) /\ owners \subseteq Ids
    BY DEF IInv, TypeOK
<1>4. f.target \in Ids /\ users[f.target] \in UserRows
    BY <1>1, <1>3 DEF Present, Tables
<1>5. users' = [users EXCEPT ![f.target] = WriteRole(f, WriteStatus(f, @))]
    BY <1>3, <1>4 DEF UpdateUser, Tables
<1>6. WriteRole(f, WriteStatus(f, users[f.target])) \in UserRows
    BY <1>3, <1>4, WrittenRow
<1>7. users' \in Tables /\ users'[f.target] # Absent
    BY <1>3, <1>4, <1>5, <1>6, RowTypes DEF Tables
<1>8. trail' \in Seq(Events)
    BY <1>1, <1>3, <1>4, UpdateEventsType
<1>9. IInv'
    BY <1>1, <1>3, <1>7, <1>8, CommitStep
<1> QED BY <1>1, <1>2, <1>3, <1>5, <1>7, <1>9

LEMMA DeleteUserOK ==
    ASSUME IInv, NEW t \in WebThreads, DeleteUser(t)
    PROVE  IInv'
<1> DEFINE f == frame[t]
<1>1. /\ Commit(t, "delete") /\ UNCHANGED owners
      /\ users' = [users EXCEPT ![f.target] = Absent]
      /\ trail' = Append(trail, UserEvent("USER_DELETE", f.target, Unset))
    BY DEF DeleteUser
<1>2. LocalOK("write", f) /\ f.op = "delete"
    BY <1>1 DEF Commit, IInv, CallsOK
<1>3. f.target \in Ids
    BY <1>2 DEF LocalOK
<1>4. users \in Tables /\ trail \in Seq(Events) /\ owners \subseteq Ids
    BY DEF IInv, TypeOK
<1>5. users' \in Tables
    BY <1>1, <1>4 DEF Tables
<1>6. UserEvent("USER_DELETE", f.target, Unset) \in Events
    BY <1>3 DEF UserEvent, Events, AuditActions
<1>7. trail' \in Seq(Events)
    BY <1>1, <1>4, <1>6, AppendProperties
<1> QED BY <1>1, <1>4, <1>5, <1>7, CommitStep

LEMMA CreateUserOK ==
    ASSUME IInv, NEW t \in WebThreads, CreateUser(t)
    PROVE  /\ IInv'
           /\ \A u \in Present : users'[u] = users[u]
<1> DEFINE f == frame[t]
<1>1. Commit(t, "create") /\ UNCHANGED owners
    BY DEF CreateUser
<1>2. PICK u \in Ids :
         /\ \A v \in Present : v < u
         /\ users' = [users EXCEPT ![u] = [status |-> "active", role |-> f.role]]
         /\ trail' = Append(trail, UserEvent("USER_CREATE", u, f.role))
    BY DEF CreateUser
<1>3. LocalOK("write", f) /\ f.op = "create"
    BY <1>1 DEF Commit, IInv, CallsOK
<1>4. f.role \in Roles
    BY <1>3 DEF LocalOK
<1>5. users \in Tables /\ trail \in Seq(Events) /\ owners \subseteq Ids
    BY DEF IInv, TypeOK
<1>6. [status |-> "active", role |-> f.role] \in UserRows
    BY <1>4 DEF UserRows
<1>7. users' \in Tables
    BY <1>2, <1>5, <1>6 DEF Tables
<1>8. UserEvent("USER_CREATE", u, f.role) \in Events
    BY <1>4 DEF UserEvent, Events, AuditActions
<1>9. trail' \in Seq(Events)
    BY <1>2, <1>5, <1>8, AppendProperties
<1>12. IInv'
    BY <1>1, <1>5, <1>7, <1>9, CommitStep
<1>10. \A v \in Present : v # u
    BY <1>2 DEF Present, Ids
<1>11. \A v \in Present : users'[v] = users[v]
    BY <1>2, <1>5, <1>10 DEF Tables, Present
<1> QED BY <1>11, <1>12

LEMMA CreateJobOK ==
    ASSUME IInv, NEW t \in WebThreads, CreateJob(t)
    PROVE  IInv'
<1>1. Commit(t, "job") /\ owners' = owners \cup {frame[t].actor} /\ UNCHANGED <<users, trail>>
    BY DEF CreateJob
<1>2. LocalOK("write", frame[t]) /\ frame[t].op = "job"
    BY <1>1 DEF Commit, IInv, CallsOK
<1>3. frame[t].actor \in Ids
    BY <1>2 DEF LocalOK
<1> QED BY <1>1, <1>3, CommitStep DEF IInv, TypeOK

-----------------------------------------------------------------------------
(***************************************************************************)
(* The invariant, and the types.                                           *)
(***************************************************************************)
LEMMA StepOK == IInv /\ [Next]_vars => IInv'
<1> SUFFICES ASSUME IInv, [Next]_vars PROVE IInv'
    OBVIOUS
<1>1. ASSUME NEW t \in WebThreads,
             RequestCreate(t) \/ RequestUpdate(t) \/ RequestDelete(t) \/ RequestJob(t)
      PROVE  IInv'
    BY <1>1, ArrivalsOK
<1>2. ASSUME NEW t \in WebThreads,
             LoadTarget(t) \/ CheckUpdate(t) \/ CheckDelete(t) \/ ReadOwnedJobs(t)
      PROVE  IInv'
    BY <1>2, LoadTargetOK, CheckUpdateOK, CheckDeleteOK, ReadOwnedJobsOK
<1>3. ASSUME NEW t \in WebThreads,
             UpdateUser(t) \/ DeleteUser(t) \/ CreateUser(t) \/ CreateJob(t)
      PROVE  IInv'
    BY <1>3, UpdateUserOK, DeleteUserOK, CreateUserOK, CreateJobOK
<1>4. ASSUME NEW t \in WebThreads, Abandon(t)
      PROVE  IInv'
    BY <1>4, DoneStep DEF Abandon
<1>5. CASE UNCHANGED vars
    BY <1>5 DEF vars, database, IInv, TypeOK, CallsOK, LocalOK, ViewOK, Present,
                EnsureNotLastActiveAdmin, ActiveAdminsOf, ChangesStatus, ChangesRole
<1> QED BY <1>1, <1>2, <1>3, <1>4, <1>5 DEF Next

LEMMA Invariance == Spec => []IInv
<1> QED BY InitOK, StepOK, PTL DEF Spec

\* The state of the user administration keeps its types.
THEOREM TypeCorrect == Spec => []TypeOK
<1>1. IInv => TypeOK
    BY DEF IInv
<1> QED BY <1>1, Invariance, PTL

-----------------------------------------------------------------------------
(***************************************************************************)
(* The audit trail.  What one more event does to a replay.                 *)
(***************************************************************************)
TrailFacts == INSTANCE ReplayProofs WITH Apply <- ApplyEvent, About <- UserOf

LEMMA TrailIsReplay ==
    ASSUME NEW u, NEW first, NEW log
    PROVE  Trail!Replayed(u, first, log) = TrailFacts!Replayed(u, first, log)
BY DEF Trail!Replayed, TrailFacts!Replayed, Trail!Step, TrailFacts!Step

LEMMA TrailStarts ==
    ASSUME NEW u, NEW first
    PROVE  Trail!Replayed(u, first, << >>) = first
BY TrailIsReplay, TrailFacts!ReplayOfNothing

LEMMA TrailGrows ==
    ASSUME NEW u, NEW first, NEW log \in Seq(Events), NEW e \in Events
    PROVE  Trail!Replayed(u, first, Append(log, e))
              = IF e.user = u THEN ApplyEvent(Trail!Replayed(u, first, log), e)
                              ELSE Trail!Replayed(u, first, log)
<1>1. TrailFacts!Replayed(u, first, Append(log, e))
         = TrailFacts!Step(TrailFacts!Replayed(u, first, log), u, e)
    BY TrailFacts!ReplayOfAppend
<1> QED BY <1>1, TrailIsReplay DEF TrailFacts!Step, UserOf

(***************************************************************************)
(* Each change that an update makes has its own event, which tells it in   *)
(* full whatever the row was.                                              *)
(***************************************************************************)
LEMMA StatusEventTells ==
    ASSUME NEW f \in Frames, f.target \in Ids, ChangesStatus(f), NEW row \in UserRows
    PROVE  LET e == UserEvent(IF f.status = "active" THEN "USER_ACTIVATE" ELSE "USER_DEACTIVATE",
                              f.target, Unset)
           IN  e \in Events /\ e.user = f.target /\ ApplyEvent(row, e) = WriteStatus(f, row)
<1>1. f.status \in {"active", "inactive"}
    BY DEF Frames, ChangesStatus
<1>2. CASE f.status = "active"
    BY <1>2 DEF UserEvent, Events, AuditActions, ApplyEvent, WriteStatus
<1>3. CASE f.status = "inactive"
    BY <1>3 DEF UserEvent, Events, AuditActions, ApplyEvent, WriteStatus
<1> QED BY <1>1, <1>2, <1>3

LEMMA RoleEventTells ==
    ASSUME NEW f \in Frames, f.target \in Ids, ChangesRole(f), NEW row \in UserRows
    PROVE  LET e == UserEvent("ROLE_CHANGE", f.target, f.role)
           IN  e \in Events /\ e.user = f.target /\ ApplyEvent(row, e) = WriteRole(f, row)
<1>1. f.role \in Roles \cup {Unset}
    BY DEF Frames
<1> QED BY <1>1 DEF UserEvent, Events, AuditActions, ApplyEvent, WriteRole

LEMMA OneMoreOrNone ==
    ASSUME NEW log \in Seq(Events), NEW c \in BOOLEAN, NEW e, c => e \in Events
    PROVE  LET part == IF c THEN <<e>> ELSE <<>> IN
           /\ part \in Seq(Events)
           /\ log \o part \in Seq(Events)
           /\ log \o part = IF c THEN Append(log, e) ELSE log
<1>1. CASE c
    BY <1>1, AppendIsConcat
<1>2. CASE ~c
    BY <1>2, ConcatEmptySeq
<1> QED BY <1>1, <1>2

LEMMA UpdateGrows ==
    ASSUME NEW f \in Frames, f.target \in Ids, NEW u, NEW first, NEW log \in Seq(Events),
           u = f.target => Trail!Replayed(u, first, log) \in UserRows
    PROVE  Trail!Replayed(u, first, log \o UpdateEvents(f))
              = IF u = f.target
                  THEN WriteRole(f, WriteStatus(f, Trail!Replayed(u, first, log)))
                  ELSE Trail!Replayed(u, first, log)
<1> DEFINE
      status == IF f.status = "active" THEN "USER_ACTIVATE" ELSE "USER_DEACTIVATE"
      e1 == UserEvent(status, f.target, Unset)
      e2 == UserEvent("ROLE_CHANGE", f.target, f.role)
      left == IF ChangesStatus(f) THEN <<e1>> ELSE <<>>
      right == IF ChangesRole(f) THEN <<e2>> ELSE <<>>
      mid == log \o left
      row == Trail!Replayed(u, first, log)
<1>1. UpdateEvents(f) = left \o right
    BY DEF UpdateEvents
<1>2. /\ ChangesStatus(f) => /\ e1 \in Events /\ e1.user = f.target
                             /\ \A r \in UserRows : ApplyEvent(r, e1) = WriteStatus(f, r)
      /\ ChangesRole(f) => /\ e2 \in Events /\ e2.user = f.target
                           /\ \A r \in UserRows : ApplyEvent(r, e2) = WriteRole(f, r)
  <2>1. ASSUME ChangesStatus(f), NEW r \in UserRows
        PROVE  e1 \in Events /\ e1.user = f.target /\ ApplyEvent(r, e1) = WriteStatus(f, r)
      BY <2>1, StatusEventTells
  <2>2. ASSUME ChangesRole(f), NEW r \in UserRows
        PROVE  e2 \in Events /\ e2.user = f.target /\ ApplyEvent(r, e2) = WriteRole(f, r)
      BY <2>2, RoleEventTells
  <2>3. ActiveAdmin \in UserRows
      BY RowTypes
  <2> HIDE DEF e1, e2
  <2> QED BY <2>1, <2>2, <2>3
<1>3. /\ ~ChangesStatus(f) => \A r : WriteStatus(f, r) = r
      /\ ~ChangesRole(f) => \A r : WriteRole(f, r) = r
    BY DEF WriteStatus, WriteRole
<1>4. u = f.target => WriteStatus(f, row) \in UserRows
    BY DEF Frames, WriteStatus, ChangesStatus, UserRows
<1>5. ChangesStatus(f) \in BOOLEAN /\ ChangesRole(f) \in BOOLEAN
    BY DEF ChangesStatus, ChangesRole
<1> HIDE DEF e1, e2
<1>6. /\ left \in Seq(Events) /\ mid \in Seq(Events)
      /\ mid = IF ChangesStatus(f) THEN Append(log, e1) ELSE log
    BY <1>2, <1>5, OneMoreOrNone
<1> HIDE DEF left, mid
<1>7. /\ right \in Seq(Events)
      /\ mid \o right = IF ChangesRole(f) THEN Append(mid, e2) ELSE mid
    BY <1>2, <1>5, <1>6, OneMoreOrNone
<1> HIDE DEF right
<1>8. log \o (left \o right) = mid \o right
  <2>1. left \in Seq(Events) /\ right \in Seq(Events)
      BY <1>6, <1>7
  <2>2. (log \o left) \o right = log \o (left \o right)
      BY <2>1, ConcatAssociative
  <2> QED BY <2>2 DEF mid
<1>9. Trail!Replayed(u, first, mid) = IF u = f.target THEN WriteStatus(f, row) ELSE row
  <2>1. CASE ChangesStatus(f)
    <3>1. Trail!Replayed(u, first, Append(log, e1))
             = IF e1.user = u THEN ApplyEvent(row, e1) ELSE row
        BY <1>2, <2>1, TrailGrows
    <3> QED BY <1>2, <1>6, <2>1, <3>1
  <2>2. CASE ~ChangesStatus(f)
      BY <1>3, <1>6, <2>2
  <2> QED BY <2>1, <2>2
<1>10. Trail!Replayed(u, first, mid \o right)
         = IF u = f.target THEN WriteRole(f, WriteStatus(f, row)) ELSE row
  <2>1. CASE ChangesRole(f)
    <3>1. e2 \in Events /\ mid \in Seq(Events)
        BY <1>2, <1>6, <2>1
    <3>2. Trail!Replayed(u, first, Append(mid, e2))
             = IF e2.user = u THEN ApplyEvent(Trail!Replayed(u, first, mid), e2)
                              ELSE Trail!Replayed(u, first, mid)
        BY <3>1, TrailGrows
    <3> QED BY <1>2, <1>4, <1>7, <1>9, <2>1, <3>2
  <2>2. CASE ~ChangesRole(f)
      BY <1>3, <1>7, <1>9, <2>2
  <2> QED BY <2>1, <2>2
<1> QED BY <1>1, <1>8, <1>10

LEMMA UpdateRecorded ==
    ASSUME IInv, TrailReplaysToUsers, NEW t \in WebThreads, UpdateUser(t)
    PROVE  TrailReplaysToUsers'
<1> DEFINE f == frame[t]
<1>1. /\ f \in Frames /\ f.target \in Present
      /\ users' = [users EXCEPT ![f.target] = WriteRole(f, WriteStatus(f, @))]
    BY UpdateUserOK
<1>2. users \in Tables /\ trail \in Seq(Events)
    BY DEF IInv, TypeOK
<1>3. f.target \in Ids /\ users[f.target] \in UserRows
    BY <1>1, <1>2 DEF Present, Tables
<1>4. trail' = trail \o UpdateEvents(f) /\ origin' = origin
    BY DEF UpdateUser, Commit, Done, Goto
<1>5. SUFFICES ASSUME NEW u \in Ids
               PROVE  users'[u] = Trail!Replayed(u, origin[u], trail \o UpdateEvents(f))
    BY <1>4 DEF TrailReplaysToUsers
<1>6. Trail!Replayed(u, origin[u], trail) = users[u]
    BY DEF TrailReplaysToUsers
<1>7. u = f.target => Trail!Replayed(u, origin[u], trail) \in UserRows
    BY <1>3, <1>6
<1>8. Trail!Replayed(u, origin[u], trail \o UpdateEvents(f))
         = IF u = f.target THEN WriteRole(f, WriteStatus(f, users[u])) ELSE users[u]
    BY <1>1, <1>2, <1>3, <1>6, <1>7, UpdateGrows
<1>9. users'[u] = IF u = f.target THEN WriteRole(f, WriteStatus(f, users[u])) ELSE users[u]
    BY <1>1, <1>2 DEF Tables
<1> QED BY <1>8, <1>9

LEMMA DeleteRecorded ==
    ASSUME IInv, TrailReplaysToUsers, NEW t \in WebThreads, DeleteUser(t)
    PROVE  TrailReplaysToUsers'
<1> DEFINE f == frame[t]
           e == UserEvent("USER_DELETE", f.target, Unset)
<1>1. Commit(t, "delete")
    BY DEF DeleteUser
<1>2. /\ users' = [users EXCEPT ![f.target] = Absent] /\ trail' = Append(trail, e)
      /\ origin' = origin
    BY DEF DeleteUser, Commit, Done, Goto
<1>3. LocalOK("write", f) /\ f.op = "delete"
    BY <1>1 DEF Commit, IInv, CallsOK
<1>4. f.target \in Ids /\ users \in Tables /\ trail \in Seq(Events)
    BY <1>3 DEF LocalOK, IInv, TypeOK
<1>5. e \in Events /\ e.user = f.target /\ e.action = "USER_DELETE"
    BY <1>4 DEF UserEvent, Events, AuditActions
<1> HIDE DEF e
<1>6. \A row : ApplyEvent(row, e) = Absent
    BY <1>5 DEF ApplyEvent
<1>7. ASSUME NEW u \in Ids
      PROVE  users'[u] = Trail!Replayed(u, origin[u], Append(trail, e))
  <2>1. Trail!Replayed(u, origin[u], Append(trail, e))
           = IF e.user = u THEN ApplyEvent(users[u], e) ELSE users[u]
      BY <1>4, <1>5, TrailGrows DEF TrailReplaysToUsers
  <2> QED BY <1>2, <1>4, <1>5, <1>6, <2>1 DEF Tables
<1> QED BY <1>2, <1>7 DEF TrailReplaysToUsers

LEMMA CreateRecorded ==
    ASSUME IInv, TrailReplaysToUsers, NEW t \in WebThreads, CreateUser(t)
    PROVE  TrailReplaysToUsers'
<1> DEFINE f == frame[t]
           Row == [status |-> "active", role |-> f.role]
<1>1. Commit(t, "create") /\ origin' = origin
    BY DEF CreateUser, Commit, Done, Goto
<1>2. PICK v \in Ids : /\ users' = [users EXCEPT ![v] = Row]
                       /\ trail' = Append(trail, UserEvent("USER_CREATE", v, f.role))
    BY DEF CreateUser
<1> DEFINE e == UserEvent("USER_CREATE", v, f.role)
<1>3. LocalOK("write", f) /\ f.op = "create"
    BY <1>1 DEF Commit, IInv, CallsOK
<1>4. f.role \in Roles /\ users \in Tables /\ trail \in Seq(Events)
    BY <1>3 DEF LocalOK, IInv, TypeOK
<1>5. e \in Events /\ e.user = v /\ e.action = "USER_CREATE" /\ e.role = f.role
    BY <1>4 DEF UserEvent, Events, AuditActions
<1>6. trail' = Append(trail, e)
    BY <1>2
<1> HIDE DEF e
<1>7. \A row : ApplyEvent(row, e) = Row
    BY <1>5 DEF ApplyEvent
<1>8. ASSUME NEW u \in Ids
      PROVE  users'[u] = Trail!Replayed(u, origin[u], Append(trail, e))
  <2>1. Trail!Replayed(u, origin[u], Append(trail, e))
           = IF e.user = u THEN ApplyEvent(users[u], e) ELSE users[u]
      BY <1>4, <1>5, TrailGrows DEF TrailReplaysToUsers
  <2> QED BY <1>2, <1>4, <1>5, <1>7, <2>1 DEF Tables
<1> QED BY <1>1, <1>6, <1>8 DEF TrailReplaysToUsers

LEMMA TrailStep == IInv /\ TrailReplaysToUsers /\ [Next]_vars => TrailReplaysToUsers'
<1> SUFFICES ASSUME IInv, TrailReplaysToUsers, [Next]_vars
             PROVE  TrailReplaysToUsers'
    OBVIOUS
<1>1. ASSUME UNCHANGED <<users, trail, origin>>
      PROVE  TrailReplaysToUsers'
    BY <1>1 DEF TrailReplaysToUsers
<1>2. ASSUME NEW t \in WebThreads,
             RequestCreate(t) \/ RequestUpdate(t) \/ RequestDelete(t) \/ RequestJob(t)
      PROVE  TrailReplaysToUsers'
    BY <1>1, <1>2 DEF RequestCreate, RequestUpdate, RequestDelete, RequestJob, Arrive, database
<1>3. ASSUME NEW t \in WebThreads,
             \/ LoadTarget(t) \/ CheckUpdate(t) \/ CheckDelete(t) \/ ReadOwnedJobs(t)
             \/ CreateJob(t) \/ Abandon(t)
      PROVE  TrailReplaysToUsers'
    BY <1>1, <1>3 DEF LoadTarget, CheckUpdate, CheckDelete, ReadOwnedJobs, CreateJob, Abandon,
                      Commit, Done, Goto, database
<1>4. ASSUME NEW t \in WebThreads, UpdateUser(t) \/ DeleteUser(t) \/ CreateUser(t)
      PROVE  TrailReplaysToUsers'
    BY <1>4, UpdateRecorded, DeleteRecorded, CreateRecorded
<1>5. CASE UNCHANGED vars
    BY <1>1, <1>5 DEF vars, database
<1> QED BY <1>2, <1>3, <1>4, <1>5 DEF Next

\* However many requests overlap on stale copies of a row, the audit trail tells
\* of every change of the users table and of nothing else: replayed from the
\* first table, it gives the present one (update_user, delete_user, create_user
\* and their record_event calls).
THEOREM TrailTellsTheTable == Spec => []TrailReplaysToUsers
<1>1. Init => TrailReplaysToUsers
    BY TrailStarts DEF Init, TrailReplaysToUsers
<1> QED BY <1>1, TrailStep, Invariance, PTL DEF Spec

-----------------------------------------------------------------------------
(***************************************************************************)
(* Races.  Without one, a commit is that of an undisturbed request.        *)
(***************************************************************************)
LEMMA CommitUndisturbed ==
    ASSUME IInv, ~RacedCommit, NEW t \in WebThreads, NEW op, Commit(t, op)
    PROVE  /\ frame[t].op = op
           /\ frame[t].since = commits
           /\ LocalOK("write", frame[t])
           /\ ViewOK("write", frame[t])
<1>1. pc[t] = "write" /\ frame[t].op = op /\ pc'[t] = "idle"
    BY DEF Commit, Done, Goto, IInv, TypeOK
<1>2. frame[t].since = commits
    BY <1>1 DEF RacedCommit, Undisturbed
<1> QED BY <1>1, <1>2 DEF IInv, CallsOK

LEMMA OtherStepsKeepTables ==
    ASSUME NEW t \in WebThreads,
           \/ RequestCreate(t) \/ RequestUpdate(t) \/ RequestDelete(t) \/ RequestJob(t)
           \/ LoadTarget(t) \/ CheckUpdate(t) \/ CheckDelete(t) \/ ReadOwnedJobs(t)
           \/ Abandon(t)
    PROVE  UNCHANGED <<users, owners>>
BY DEF RequestCreate, RequestUpdate, RequestDelete, RequestJob, Arrive, LoadTarget,
       CheckUpdate, CheckDelete, ReadOwnedJobs, Abandon, database

(***************************************************************************)
(* An undisturbed commit rewrites the row of its target only, and another  *)
(* active administrator was there when it was checked.                     *)
(***************************************************************************)
LEMMA AdminsStep ==
    ASSUME IInv, [Next]_vars, AnAdminRemains, ~RacedCommit
    PROVE  AnAdminRemains'
<1> USE DEF AnAdminRemains
<1>1. users \in Tables /\ ActiveAdmins \subseteq Present
    BY RowTypes DEF IInv, TypeOK, ActiveAdmins, ActiveAdminsOf, Present
<1>2. ASSUME NEW v \in ActiveAdmins, users'[v] = users[v]
      PROVE  AnAdminRemains'
  <2>1. v \in ActiveAdmins'
      BY <1>2 DEF ActiveAdmins, ActiveAdminsOf
  <2> QED BY <2>1
<1>3. ASSUME NEW t \in WebThreads, UpdateUser(t)
      PROVE  AnAdminRemains'
  <2> DEFINE f == frame[t]
  <2>1. Commit(t, "update") /\ (ChangesStatus(f) \/ ChangesRole(f))
      BY <1>3 DEF UpdateUser
  <2>2. /\ f.target \in Ids /\ f.copy = users[f.target]
        /\ EnsureNotLastActiveAdmin(users[f.target], users)
      BY <2>1, CommitUndisturbed DEF LocalOK, ViewOK
  <2>3. PICK v \in ActiveAdmins : v # f.target
      BY <1>1, <2>2, AnotherActiveAdmin DEF ActiveAdmins
  <2>4. users'[v] = users[v]
      BY <1>1, <1>3, <2>3, UpdateUserOK DEF Present, Tables
  <2> QED BY <1>2, <2>4
<1>4. ASSUME NEW t \in WebThreads, DeleteUser(t)
      PROVE  AnAdminRemains'
  <2> DEFINE f == frame[t]
  <2>1. Commit(t, "delete") /\ users' = [users EXCEPT ![f.target] = Absent]
      BY <1>4 DEF DeleteUser
  <2>2. /\ f.target \in Ids /\ f.copy = users[f.target]
        /\ EnsureNotLastActiveAdmin(users[f.target], users)
      BY <2>1, CommitUndisturbed DEF LocalOK, ViewOK
  <2>3. PICK v \in ActiveAdmins : v # f.target
      BY <1>1, <2>2, AnotherActiveAdmin DEF ActiveAdmins
  <2>4. users'[v] = users[v]
      BY <1>1, <2>1, <2>3 DEF Present, Tables
  <2> QED BY <1>2, <2>4
<1>5. ASSUME NEW t \in WebThreads, CreateUser(t)
      PROVE  AnAdminRemains'
    BY <1>1, <1>2, <1>5, CreateUserOK
<1>6. CASE UNCHANGED users
    BY <1>2, <1>6
<1> QED BY <1>3, <1>4, <1>5, <1>6, OtherStepsKeepTables DEF Next, vars, database, CreateJob

\* However many administrators work at once, only a request that commits over
\* another's commit can take the last active administrator away.
THEOREM LastAdminLostOnlyByRace == Spec => AdminsLostOnlyByRace
<1>1. IInv /\ [Next]_vars => [AnAdminRemains => AnAdminRemains' \/ RacedCommit]_vars
    BY AdminsStep
<1> QED BY <1>1, Invariance, PTL DEF Spec, AdminsLostOnlyByRace

LEMMA OwnersStep ==
    ASSUME IInv, [Next]_vars, JobsHaveOwners, ~RacedCommit
    PROVE  JobsHaveOwners'
<1>1. users \in Tables
    BY DEF IInv, TypeOK
<1>2. ASSUME NEW t \in WebThreads, UpdateUser(t)
      PROVE  JobsHaveOwners'
  <2> DEFINE f == frame[t]
  <2>1. UNCHANGED owners
      BY <1>2 DEF UpdateUser
  <2>2. \A u \in Present : users'[u] # Absent
      BY <1>1, <1>2, UpdateUserOK DEF Present, Tables
  <2> QED BY <2>1, <2>2 DEF JobsHaveOwners, Present
<1>3. ASSUME NEW t \in WebThreads, DeleteUser(t)
      PROVE  JobsHaveOwners'
  <2> DEFINE f == frame[t]
  <2>1. /\ Commit(t, "delete") /\ UNCHANGED owners
        /\ users' = [users EXCEPT ![f.target] = Absent]
      BY <1>3 DEF DeleteUser
  <2>2. f.target \notin owners
      BY <2>1, CommitUndisturbed DEF ViewOK
  <2> QED BY <1>1, <2>1, <2>2 DEF JobsHaveOwners, Present, Tables
<1>4. ASSUME NEW t \in WebThreads, CreateUser(t)
      PROVE  JobsHaveOwners'
  <2>1. UNCHANGED owners
      BY <1>4 DEF CreateUser
  <2>2. \A u \in Present : users'[u] = users[u]
      BY <1>4, CreateUserOK
  <2> QED BY <2>1, <2>2 DEF JobsHaveOwners, Present
<1>5. ASSUME NEW t \in WebThreads, CreateJob(t)
      PROVE  JobsHaveOwners'
  <2>1. Commit(t, "job") /\ owners' = owners \cup {frame[t].actor} /\ UNCHANGED users
      BY <1>5 DEF CreateJob
  <2>2. frame[t].actor \in Present
      BY <2>1, CommitUndisturbed DEF ViewOK
  <2> QED BY <2>1, <2>2 DEF JobsHaveOwners, Present
<1>6. CASE UNCHANGED <<users, owners>>
    BY <1>6 DEF JobsHaveOwners, Present
<1> QED BY <1>2, <1>3, <1>4, <1>5, <1>6, OtherStepsKeepTables DEF Next, vars, database

\* Only a request that commits over another's commit can leave a job whose
\* owner has no row.
THEOREM OwnersKeptWithoutRace == Spec => OwnersLostOnlyByRace
<1>1. IInv /\ [Next]_vars => [JobsHaveOwners => JobsHaveOwners' \/ RacedCommit]_vars
    BY OwnersStep
<1> QED BY <1>1, Invariance, PTL DEF Spec, OwnersLostOnlyByRace
=============================================================================
