-------------------------- MODULE JobServiceProofs --------------------------
(***************************************************************************)
(* Theorems of JobService, for any number of threads, jobs, scripts,       *)
(* columns and requests.                                                   *)
(***************************************************************************)
EXTENDS JobService, SequenceTheorems, TLAPS

JobWrites == {"update", "status", "delete"}
ScriptWrites == {"update_script", "delete_script"}

(***************************************************************************)
(* What a thread's stage says about its local variables.  A row that was   *)
(* found once stays in its table.                                          *)
(***************************************************************************)
LocalOK(stage, f) ==
    /\ f.op \in JobWrites => f.id \in Ids
    /\ f.op \in ScriptWrites \cup {"new_script"} => f.id \in Scripts
    /\ f.op = "create" => f.body \in Posts
    /\ f.op = "update" => f.body \in Bodies
    /\ f.op = "status" => f.flag \in BOOLEAN
    /\ stage = "load" => f.op \in JobWrites \cup ScriptWrites
    /\ stage = "reference" => f.op \in {"create", "update"}
    /\ stage = "unused" => f.op = "delete_script"
    /\ f.op \in JobWrites /\ stage \in {"reference", "write"} =>
          f.copy \in JobRows /\ job[f.id] \in JobRows
    /\ f.op \in ScriptWrites /\ stage \in {"unused", "write"} =>
          f.copy \in ScriptRows /\ script[f.id] \in ScriptRows
    /\ f.since <= commits

(***************************************************************************)
(* What an undisturbed request knows of the database: its copy is the row, *)
(* and the checks that it has passed still hold.                           *)
(***************************************************************************)
ViewOK(stage, f) ==
    f.since = commits =>
        /\ f.op \in JobWrites /\ stage \in {"reference", "write"} => f.copy = job[f.id]
        /\ f.op \in JobWrites /\ stage \in {"reference", "write"} => ~f.copy.deleted
        /\ f.op \in {"create", "update"} /\ stage = "write" /\ "script_id" \in DOMAIN f.body =>
              f.body["script_id"] \in LiveScripts \cup {NoScript}
        /\ f.op = "delete_script" /\ stage = "write" => ~IsReferenced(f.id)

CallsOK == \A t \in WebThreads : LocalOK(pc[t], frame[t]) /\ ViewOK(pc[t], frame[t])

IInv == TypeOK /\ CallsOK

-----------------------------------------------------------------------------
LEMMA IdleFrameOK ==
    ASSUME commits \in Nat
    PROVE  /\ IdleFrame \in Frames /\ IdleFrame.op = "none"
           /\ LocalOK("idle", IdleFrame) /\ ViewOK("idle", IdleFrame)
<1>1. NoBody \in Bodies
  <2>1. DOMAIN NoBody = {} /\ NoBody \in [{} -> Values]
    BY DEF NoBody
  <2> HIDE DEF NoBody
  <2> QED
    BY <2>1 DEF Bodies
<1>2. IdleFrame \in Frames /\ IdleFrame.op = "none" /\ IdleFrame.since = 0
    BY <1>1 DEF IdleFrame, Frames, Operations
<1> QED
    BY <1>2 DEF LocalOK, ViewOK, JobWrites, ScriptWrites

\* The columns, and what each may hold.
LEMMA ColumnTypes ==
    /\ Named \subseteq Columns /\ Parts \subseteq Columns /\ Columns = Named \cup Parts
    /\ Named \cap Parts = {} /\ "script_id" \in Named /\ "schedule_expression" \in Named
    /\ Column("schedule_expression") = Expressions
    /\ \A p \in Parts : Column(p) = Texts
    /\ \A c : Column(c) \subseteq Values
<1>1. /\ Named \subseteq Columns /\ Parts \subseteq Columns /\ Columns = Named \cup Parts
      /\ Named \cap Parts = {} /\ "script_id" \in Named /\ "schedule_expression" \in Named
    BY FieldsAssumption DEF Named, Columns
<1>2. Column("schedule_expression") = Expressions
    BY DEF Column
<1>3. \A p \in Parts : p # "script_id" /\ p # "schedule_expression"
    BY FieldsAssumption
<1>4. \A p \in Parts : Column(p) = Texts
    BY <1>3 DEF Column
<1>5. \A c : Column(c) \subseteq Values
    BY DEF Column, Values
<1> QED
    BY <1>1, <1>2, <1>4, <1>5

\* What a body and a row may hold.
LEMMA BodyTypes ==
    /\ \A b \in Bodies : DOMAIN b \subseteq Named /\ \A c \in DOMAIN b : b[c] \in Column(c)
    /\ \A b \in Posts : DOMAIN b = Named /\ \A c \in Named : b[c] \in Column(c)
    /\ \A v \in JobValues : DOMAIN v = Columns /\ \A c \in Columns : v[c] \in Column(c)
BY DEF Bodies, Posts, JobValues

(***************************************************************************)
(* A step of one thread that commits nothing leaves the others as they     *)
(* are.                                                                    *)
(***************************************************************************)
LEMMA QuietStep ==
    ASSUME IInv,
           NEW t \in WebThreads, NEW stage \in Stages, NEW local \in Frames,
           LocalOK(stage, local), ViewOK(stage, local),
           Goto(t, stage, local),
           UNCHANGED <<database, origin, commits>>,
           requests' \in Nat
    PROVE  IInv'
<1>1. TypeOK'
    BY DEF IInv, TypeOK, database, Goto
<1>2. \A u \in WebThreads : /\ pc'[u] = IF u = t THEN stage ELSE pc[u]
                            /\ frame'[u] = IF u = t THEN local ELSE frame[u]
    BY DEF IInv, TypeOK, Goto
<1>3. UNCHANGED <<job, script, commits>>
    BY DEF database
<1>4. UNCHANGED LiveScripts /\ \A s : IsReferenced(s)' = IsReferenced(s)
    BY <1>3 DEF LiveScripts, IsReferenced, LiveJobs, Alive
<1>5. ASSUME NEW u \in WebThreads
      PROVE  LocalOK(pc[u], frame[u])' /\ ViewOK(pc[u], frame[u])'
  <2> DEFINE s == IF u = t THEN stage ELSE pc[u]
             f == IF u = t THEN local ELSE frame[u]
  <2>1. LocalOK(s, f) /\ ViewOK(s, f)
    BY DEF IInv, CallsOK
  <2>2. pc'[u] = s /\ frame'[u] = f
    BY <1>2
  <2> HIDE DEF s, f
  <2>3. LocalOK(pc[u], frame[u])'
    BY <2>1, <2>2, <1>3 DEF LocalOK
  <2>4. ViewOK(pc[u], frame[u])'
    BY <2>1, <2>2, <1>3, <1>4 DEF ViewOK
  <2> QED
    BY <2>3, <2>4
<1> QED
    BY <1>1, <1>5 DEF IInv, CallsOK

LEMMA ArriveStep ==
    ASSUME IInv,
           NEW t \in WebThreads, NEW stage \in Stages, NEW local \in Frames,
           LocalOK(stage, [local EXCEPT !.since = commits]),
           ViewOK(stage, [local EXCEPT !.since = commits]),
           Arrive(t, stage, local)
    PROVE  IInv'
<1>1. requests' \in Nat /\ commits \in Nat
    BY DEF Arrive, IInv, TypeOK
<1>2. [local EXCEPT !.since = commits] \in Frames
    BY <1>1 DEF Frames
<1> QED
    BY <1>1, <1>2, QuietStep DEF Arrive

LEMMA DoneStep ==
    ASSUME IInv, NEW t \in WebThreads, Done(t),
           UNCHANGED <<database, origin, commits, requests>>
    PROVE  IInv'
<1>1. commits \in Nat /\ requests' \in Nat /\ "idle" \in Stages
    BY DEF IInv, TypeOK, Stages
<1> QED
    BY <1>1, IdleFrameOK, QuietStep DEF Done

(***************************************************************************)
(* A commit disturbs every other request, and takes no row away.           *)
(***************************************************************************)
LEMMA CommitStep ==
    ASSUME IInv, NEW t \in WebThreads, NEW op, Commit(t, op),
           job' \in [Ids -> JobRows \cup {NoRow}],
           script' \in [Scripts -> ScriptRows \cup {NoRow}],
           history' \in Seq(Entries), audit' \in Seq(Events),
           \A j \in Ids : job[j] \in JobRows => job'[j] \in JobRows,
           \A s \in Scripts : script[s] \in ScriptRows => script'[s] \in ScriptRows
    PROVE  IInv'
<1>1. commits \in Nat /\ commits' = commits + 1 /\ requests' \in Nat
    BY DEF IInv, TypeOK, Commit
<1>2. IdleFrame \in Frames /\ IdleFrame.op = "none"
    BY <1>1, IdleFrameOK
<1>3. TypeOK'
    BY <1>1, <1>2 DEF IInv, TypeOK, Commit, Done, Goto, Stages
<1>4. \A u \in WebThreads : /\ pc'[u] = IF u = t THEN "idle" ELSE pc[u]
                            /\ frame'[u] = IF u = t THEN IdleFrame ELSE frame[u]
    BY DEF IInv, TypeOK, Commit, Done, Goto
<1>5. ASSUME NEW u \in WebThreads
      PROVE  LocalOK(pc[u], frame[u])' /\ ViewOK(pc[u], frame[u])'
  <2>1. CASE u = t
    <3>1. pc'[u] = "idle" /\ frame'[u] = IdleFrame /\ IdleFrame.since = 0
      BY <2>1, <1>4 DEF IdleFrame
    <3> QED
      BY <3>1, <1>1, <1>2 DEF LocalOK, ViewOK, JobWrites, ScriptWrites
  <2>2. CASE u # t
    <3>1. pc'[u] = pc[u] /\ frame'[u] = frame[u]
      BY <2>2, <1>4
    <3>2. LocalOK(pc[u], frame[u]) /\ frame[u].since \in Nat
      BY DEF IInv, CallsOK, TypeOK, Frames
    <3>3. frame[u].since <= commits
      BY <3>2 DEF LocalOK
    <3>4. LocalOK(pc[u], frame[u])'
      BY <3>1, <3>2, <3>3, <1>1 DEF LocalOK
    <3>5. frame'[u].since # commits'
      BY <3>1, <3>2, <3>3, <1>1
    <3> QED
      BY <3>4, <3>5 DEF ViewOK
  <2> QED
    BY <2>1, <2>2
<1> QED
    BY <1>3, <1>5 DEF IInv, CallsOK

-----------------------------------------------------------------------------
(***************************************************************************)
(* The steps before the commit.                                            *)
(***************************************************************************)
LEMMA ArrivalsOK ==
    ASSUME IInv, NEW t \in WebThreads,
           \/ RequestCreate(t) \/ RequestUpdate(t) \/ RequestStatus(t) \/ RequestDelete(t)
           \/ RequestScript(t)
    PROVE  IInv'
<1>1. commits \in Nat /\ IdleFrame \in Frames /\ IdleFrame.op = "none"
    BY IdleFrameOK DEF IInv, TypeOK
<1>2. ASSUME NEW local \in Frames, NEW stage \in {"load", "reference", "write"},
             Arrive(t, stage, local),
             \/ local.op = "create" /\ local.body \in Posts /\ stage = "reference"
             \/ local.op = "update" /\ local.body \in Bodies /\ local.id \in Ids /\ stage = "load"
             \/ local.op = "status" /\ local.flag \in BOOLEAN /\ local.id \in Ids /\ stage = "load"
             \/ local.op = "delete" /\ local.id \in Ids /\ stage = "load"
             \/ local.op = "new_script" /\ local.id \in Scripts /\ stage = "write"
             \/ local.op \in ScriptWrites /\ local.id \in Scripts /\ stage = "load"
      PROVE  IInv'
  <2> DEFINE f == [local EXCEPT !.since = commits]
  <2>1. /\ f.op = local.op /\ f.id = local.id /\ f.body = local.body /\ f.flag = local.flag
        /\ f.copy = local.copy /\ f.since = commits
    BY <1>2 DEF Frames
  <2> HIDE DEF f
  <2>2. LocalOK(stage, f) /\ ViewOK(stage, f)
    BY <1>1, <1>2, <2>1 DEF LocalOK, ViewOK, JobWrites, ScriptWrites
  <2> QED
    BY <1>2, <2>2, ArriveStep DEF Stages, f
<1>3. CASE RequestCreate(t)
  <2>1. PICK v \in Posts :
            Arrive(t, "reference", [IdleFrame EXCEPT !.op = "create", !.body = v])
    BY <1>3 DEF RequestCreate
  <2> DEFINE f == [IdleFrame EXCEPT !.op = "create", !.body = v]
  <2>2. f \in Frames /\ f.op = "create" /\ f.body = v
    BY <1>1 DEF Frames, Operations
  <2> HIDE DEF f
  <2> QED
    BY <1>2, <2>1, <2>2 DEF f
<1>4. CASE RequestUpdate(t)
  <2>1. PICK j \in Ids, b \in Bodies :
            Arrive(t, "load", [IdleFrame EXCEPT !.op = "update", !.id = j, !.body = b])
    BY <1>4 DEF RequestUpdate
  <2> DEFINE f == [IdleFrame EXCEPT !.op = "update", !.id = j, !.body = b]
  <2>2. f \in Frames /\ f.op = "update" /\ f.id = j /\ f.body = b
    BY <1>1 DEF Frames, Operations
  <2> HIDE DEF f
  <2> QED
    BY <1>2, <2>1, <2>2 DEF f
<1>5. CASE RequestStatus(t)
  <2>1. PICK j \in Ids, a \in BOOLEAN :
            Arrive(t, "load", [IdleFrame EXCEPT !.op = "status", !.id = j, !.flag = a])
    BY <1>5 DEF RequestStatus
  <2> DEFINE f == [IdleFrame EXCEPT !.op = "status", !.id = j, !.flag = a]
  <2>2. f \in Frames /\ f.op = "status" /\ f.id = j
    BY <1>1 DEF Frames, Operations
  <2>3. f.flag \in BOOLEAN
    BY <1>1 DEF Frames
  <2> HIDE DEF f
  <2> QED
    BY <1>2, <2>1, <2>2, <2>3 DEF f
<1>6. CASE RequestDelete(t)
  <2>1. PICK j \in Ids : Arrive(t, "load", [IdleFrame EXCEPT !.op = "delete", !.id = j])
    BY <1>6 DEF RequestDelete
  <2> DEFINE f == [IdleFrame EXCEPT !.op = "delete", !.id = j]
  <2>2. f \in Frames /\ f.op = "delete" /\ f.id = j
    BY <1>1 DEF Frames, Operations
  <2> HIDE DEF f
  <2> QED
    BY <1>2, <2>1, <2>2 DEF f
<1>7. CASE RequestScript(t)
  <2>1. PICK s \in Scripts :
            \/ Arrive(t, "write", [IdleFrame EXCEPT !.op = "new_script", !.id = s])
            \/ Arrive(t, "load", [IdleFrame EXCEPT !.op = "delete_script", !.id = s])
            \/ \E e \in BOOLEAN \cup {Null} :
                  Arrive(t, "load", [IdleFrame EXCEPT !.op = "update_script", !.id = s, !.flag = e])
    BY <1>7 DEF RequestScript
  <2>2. CASE Arrive(t, "write", [IdleFrame EXCEPT !.op = "new_script", !.id = s])
    <3> DEFINE f == [IdleFrame EXCEPT !.op = "new_script", !.id = s]
    <3>1. f \in Frames /\ f.op = "new_script" /\ f.id = s
      BY <1>1 DEF Frames, Operations
    <3> HIDE DEF f
    <3> QED
      BY <1>2, <2>2, <3>1 DEF f
  <2>3. CASE Arrive(t, "load", [IdleFrame EXCEPT !.op = "delete_script", !.id = s])
    <3> DEFINE f == [IdleFrame EXCEPT !.op = "delete_script", !.id = s]
    <3>1. f \in Frames /\ f.op \in ScriptWrites /\ f.id = s
      BY <1>1 DEF Frames, Operations, ScriptWrites
    <3> HIDE DEF f
    <3> QED
      BY <1>2, <2>3, <3>1 DEF f
  <2>4. CASE \E e \in BOOLEAN \cup {Null} :
                Arrive(t, "load", [IdleFrame EXCEPT !.op = "update_script", !.id = s, !.flag = e])
    <3>1. PICK e \in BOOLEAN \cup {Null} :
                Arrive(t, "load", [IdleFrame EXCEPT !.op = "update_script", !.id = s, !.flag = e])
      BY <2>4
    <3> DEFINE f == [IdleFrame EXCEPT !.op = "update_script", !.id = s, !.flag = e]
    <3>2. f \in Frames /\ f.op \in ScriptWrites /\ f.id = s
      BY <1>1 DEF Frames, Operations, ScriptWrites
    <3> HIDE DEF f
    <3> QED
      BY <1>2, <3>1, <3>2 DEF f
  <2> QED
    BY <2>1, <2>2, <2>3, <2>4
<1> QED
    BY <1>3, <1>4, <1>5, <1>6, <1>7

\* A row that a select finds is a row of its table.
LEMMA AliveRows ==
    /\ TypeOK => \A j \in Ids : Alive(job[j]) => job[j] \in JobRows /\ ~job[j].deleted
    /\ TypeOK => \A s \in Scripts : Alive(script[s]) => script[s] \in ScriptRows
BY DEF TypeOK, Alive

LEMMA LoadJobOK == ASSUME IInv, NEW t \in WebThreads, LoadJob(t) PROVE IInv'
<1> DEFINE f == frame[t]
           stage == IF f.op = "update" /\ "script_id" \in DOMAIN f.body THEN "reference"
                                                                        ELSE "write"
           g == [f EXCEPT !.copy = job[f.id]]
<1>1. /\ pc[t] = "load" /\ f.op \in JobWrites /\ Alive(job[f.id]) /\ Goto(t, stage, g)
      /\ UNCHANGED <<database, origin, commits, requests>>
    BY DEF LoadJob, JobWrites
<1>2. f \in Frames /\ LocalOK("load", f) /\ requests' \in Nat
    BY <1>1 DEF IInv, TypeOK, CallsOK
<1>3. f.id \in Ids
    BY <1>1, <1>2 DEF LocalOK
<1>4. job[f.id] \in JobRows /\ ~job[f.id].deleted
    BY <1>1, <1>3, AliveRows DEF IInv
<1>5. /\ g \in Frames /\ g.op = f.op /\ g.id = f.id /\ g.body = f.body /\ g.flag = f.flag
      /\ g.copy = job[f.id] /\ g.since = f.since
    BY <1>2, <1>4 DEF Frames
<1>6. stage \in {"reference", "write"} /\ (stage = "reference" => f.op = "update")
    BY DEF Stages
<1>7. f.op = "update" /\ "script_id" \in DOMAIN f.body => stage = "reference"
    OBVIOUS
<1> HIDE DEF f, g, stage
<1>8. LocalOK(stage, g)
    BY <1>1, <1>2, <1>3, <1>4, <1>5, <1>6 DEF LocalOK, JobWrites, ScriptWrites
<1>9. ViewOK(stage, g)
    BY <1>1, <1>4, <1>5, <1>6, <1>7 DEF ViewOK, JobWrites
<1> QED
    BY <1>1, <1>2, <1>5, <1>6, <1>8, <1>9, QuietStep DEF Stages

LEMMA LoadScriptOK == ASSUME IInv, NEW t \in WebThreads, LoadScript(t) PROVE IInv'
<1> DEFINE f == frame[t]
           stage == IF f.op = "delete_script" THEN "unused" ELSE "write"
           g == [f EXCEPT !.copy = script[f.id]]
<1>1. /\ pc[t] = "load" /\ f.op \in ScriptWrites /\ Alive(script[f.id]) /\ Goto(t, stage, g)
      /\ UNCHANGED <<database, origin, commits, requests>>
    BY DEF LoadScript, ScriptWrites
<1>2. f \in Frames /\ LocalOK("load", f) /\ requests' \in Nat
    BY <1>1 DEF IInv, TypeOK, CallsOK
<1>3. f.id \in Scripts
    BY <1>1, <1>2 DEF LocalOK
<1>4. script[f.id] \in ScriptRows
    BY <1>1, <1>3, AliveRows DEF IInv
<1>5. /\ g \in Frames /\ g.op = f.op /\ g.id = f.id /\ g.body = f.body /\ g.flag = f.flag
      /\ g.copy = script[f.id] /\ g.since = f.since
    BY <1>2, <1>4 DEF Frames
<1>6. stage \in {"unused", "write"} /\ (f.op = "delete_script" <=> stage = "unused")
    OBVIOUS
<1> HIDE DEF f, g, stage
<1>7. LocalOK(stage, g)
    BY <1>1, <1>2, <1>3, <1>4, <1>5, <1>6 DEF LocalOK, JobWrites, ScriptWrites
<1>8. ViewOK(stage, g)
    BY <1>1, <1>5, <1>6 DEF ViewOK, JobWrites, ScriptWrites
<1> QED
    BY <1>1, <1>2, <1>5, <1>6, <1>7, <1>8, QuietStep DEF Stages

LEMMA ReferenceOK == ASSUME IInv, NEW t \in WebThreads, ValidateScriptReference(t) PROVE IInv'
<1> DEFINE f == frame[t]
<1>1. /\ pc[t] = "reference" /\ f.body["script_id"] \in LiveScripts \cup {NoScript}
      /\ Goto(t, "write", f)
      /\ UNCHANGED <<database, origin, commits, requests>>
    BY DEF ValidateScriptReference
<1>2. f \in Frames /\ LocalOK("reference", f) /\ ViewOK("reference", f) /\ requests' \in Nat
    BY <1>1 DEF IInv, TypeOK, CallsOK
<1> HIDE DEF f
<1>3. LocalOK("write", f)
    BY <1>2 DEF LocalOK, JobWrites, ScriptWrites
<1>4. ViewOK("write", f)
    BY <1>1, <1>2 DEF LocalOK, ViewOK
<1> QED
    BY <1>1, <1>2, <1>3, <1>4, QuietStep DEF Stages

LEMMA UnusedOK == ASSUME IInv, NEW t \in WebThreads, CheckUnused(t) PROVE IInv'
<1> DEFINE f == frame[t]
<1>1. /\ pc[t] = "unused" /\ ~IsReferenced(f.id) /\ Goto(t, "write", f)
      /\ UNCHANGED <<database, origin, commits, requests>>
    BY DEF CheckUnused
<1>2. f \in Frames /\ LocalOK("unused", f) /\ requests' \in Nat
    BY <1>1 DEF IInv, TypeOK, CallsOK
<1> HIDE DEF f
<1>3. LocalOK("write", f) /\ f.op = "delete_script"
    BY <1>2 DEF LocalOK, JobWrites, ScriptWrites
<1>4. ViewOK("write", f)
    BY <1>1, <1>3 DEF ViewOK, JobWrites
<1> QED
    BY <1>1, <1>2, <1>3, <1>4, QuietStep DEF Stages

-----------------------------------------------------------------------------
(***************************************************************************)
(* What the commits write.                                                 *)
(***************************************************************************)
\* _apply_schedule assigns what it is given, and the parts of the expression.
LEMMA ApplyScheduleIs ==
    ASSUME NEW v, DOMAIN v \subseteq Named, \A c \in DOMAIN v : v[c] \in Column(c)
    PROVE  /\ DOMAIN v \subseteq DOMAIN ApplySchedule(v)
           /\ DOMAIN ApplySchedule(v) \subseteq DOMAIN v \cup Parts
           /\ \A c \in DOMAIN v : ApplySchedule(v)[c] = v[c]
           /\ "schedule_expression" \in DOMAIN v =>
                 /\ Parts \subseteq DOMAIN ApplySchedule(v)
                 /\ \A p \in Parts : ApplySchedule(v)[p] = v["schedule_expression"][p]
           /\ "schedule_expression" \notin DOMAIN v => DOMAIN ApplySchedule(v) = DOMAIN v
           /\ \A c \in DOMAIN ApplySchedule(v) : ApplySchedule(v)[c] \in Column(c)
<1> DEFINE D == DOMAIN v \cup (IF "schedule_expression" \in DOMAIN v THEN Parts ELSE {})
<1>1. ApplySchedule(v) = [c \in D |-> IF c \in Parts THEN v["schedule_expression"][c] ELSE v[c]]
    BY DEF ApplySchedule
<1>2. DOMAIN ApplySchedule(v) = D
    BY <1>1
<1>3. \A c \in DOMAIN v : c \notin Parts /\ ApplySchedule(v)[c] = v[c]
    BY <1>1, ColumnTypes
<1>4. ASSUME "schedule_expression" \in DOMAIN v, NEW p \in Parts
      PROVE  /\ ApplySchedule(v)[p] = v["schedule_expression"][p]
             /\ ApplySchedule(v)[p] \in Column(p)
  <2>1. ApplySchedule(v)[p] = v["schedule_expression"][p]
      BY <1>1, <1>4
  <2>2. v["schedule_expression"] \in [Parts -> Texts]
      BY <1>4, ColumnTypes DEF Expressions
  <2> QED
      BY <2>1, <2>2, ColumnTypes
<1> QED
    BY <1>2, <1>3, <1>4

\* The row that a POST makes.
LEMMA CreatedRow ==
    ASSUME NEW v \in Posts
    PROVE  /\ ApplySchedule(v) \in JobValues
           /\ ApplySchedule(v)["script_id"] = v["script_id"]
           /\ \A p \in Parts : ApplySchedule(v)[p] = ApplySchedule(v)["schedule_expression"][p]
<1>1. DOMAIN v = Named /\ \A c \in Named : v[c] \in Column(c)
    BY BodyTypes
<1>2. /\ DOMAIN ApplySchedule(v) = Columns
      /\ \A c \in Columns : ApplySchedule(v)[c] \in Column(c)
      /\ \A c \in Named : ApplySchedule(v)[c] = v[c]
      /\ \A p \in Parts : ApplySchedule(v)[p] = v["schedule_expression"][p]
    BY <1>1, ApplyScheduleIs, ColumnTypes
<1>3. \A c \in Columns : ApplySchedule(v)[c] \in Values
    BY <1>2, ColumnTypes
<1>4. ApplySchedule(v) = [c \in Columns |-> ApplySchedule(v)[c]]
    BY <1>2 DEF ApplySchedule
<1>5. ApplySchedule(v) \in JobValues
    BY <1>2, <1>3, <1>4 DEF JobValues
<1> QED
    BY <1>2, <1>5, ColumnTypes

\* What an update assigns in the session.
LEMMA AssignedIs ==
    ASSUME NEW f, f.body \in Bodies
    PROVE  /\ Changed(f) \subseteq Named /\ \A c \in Changed(f) : f.body[c] \in Column(c)
           /\ \A c \in Named : c \in DOMAIN Assigned(f) <=> c \in Changed(f)
           /\ \A c \in Changed(f) : Assigned(f)[c] = f.body[c]
           /\ \A p \in Parts :
                 IF "schedule_expression" \in Changed(f)
                   THEN /\ p \in DOMAIN Assigned(f)
                        /\ Assigned(f)[p] = f.body["schedule_expression"][p]
                   ELSE p \notin DOMAIN Assigned(f)
           /\ \A c \in DOMAIN Assigned(f) : c \in Columns /\ Assigned(f)[c] \in Column(c)
<1> DEFINE v == Restrict(f.body, Changed(f))
<1>1. Changed(f) \subseteq DOMAIN f.body /\ DOMAIN f.body \subseteq Named
    BY BodyTypes DEF Changed
<1>2. \A c \in Changed(f) : f.body[c] \in Column(c)
    BY <1>1, BodyTypes
<1>3. DOMAIN v = Changed(f) /\ \A c \in Changed(f) : v[c] = f.body[c]
    BY DEF Restrict
<1>4. Assigned(f) = ApplySchedule(v)
    BY DEF Assigned
<1> HIDE DEF v
<1>5. DOMAIN v \subseteq Named /\ \A c \in DOMAIN v : v[c] \in Column(c)
    BY <1>1, <1>2, <1>3
<1>6. /\ DOMAIN v \subseteq DOMAIN ApplySchedule(v)
      /\ DOMAIN ApplySchedule(v) \subseteq DOMAIN v \cup Parts
      /\ \A c \in DOMAIN v : ApplySchedule(v)[c] = v[c]
      /\ "schedule_expression" \in DOMAIN v =>
            /\ Parts \subseteq DOMAIN ApplySchedule(v)
            /\ \A p \in Parts : ApplySchedule(v)[p] = v["schedule_expression"][p]
      /\ "schedule_expression" \notin DOMAIN v => DOMAIN ApplySchedule(v) = DOMAIN v
      /\ \A c \in DOMAIN ApplySchedule(v) : ApplySchedule(v)[c] \in Column(c)
    BY <1>5, ApplyScheduleIs
<1> QED
    BY <1>1, <1>2, <1>3, <1>4, <1>6, ColumnTypes

\* The UPDATE of a job, and its entry in the history.
LEMMA UpdateWrites ==
    ASSUME NEW f \in Frames, f.body \in Bodies, f.copy \in JobRows, NEW row \in JobRows
    PROVE  /\ WriteChanged(f, row) \in JobRows
           /\ WriteChanged(f, row).deleted = row.deleted
           /\ WriteChanged(f, row).active = row.active
           /\ \A c \in Columns : WriteChanged(f, row).values[c] =
                                     IF c \in Dirty(f) THEN Assigned(f)[c] ELSE row.values[c]
           /\ \A c \in Named : WriteChanged(f, row).values[c] =
                                     IF c \in Changed(f) THEN f.body[c] ELSE row.values[c]
           /\ Diff(f) \in Diffs /\ DOMAIN Diff(f) = Changed(f) /\ Changed(f) \subseteq Named
           /\ \A c \in Changed(f) : /\ Diff(f)[c].to = f.body[c]
                                    /\ Diff(f)[c].from = f.copy.values[c]
<1> DEFINE values == [c \in Columns |-> IF c \in Dirty(f) THEN Assigned(f)[c] ELSE row.values[c]]
<1>1. /\ Changed(f) \subseteq Named /\ \A c \in Changed(f) : f.body[c] \in Column(c)
      /\ \A c \in Named : c \in DOMAIN Assigned(f) <=> c \in Changed(f)
      /\ \A c \in Changed(f) : Assigned(f)[c] = f.body[c]
      /\ \A c \in DOMAIN Assigned(f) : Assigned(f)[c] \in Column(c)
    BY AssignedIs
<1>2. Dirty(f) = {c \in DOMAIN Assigned(f) : Assigned(f)[c] # f.copy.values[c]}
    BY DEF Dirty
<1>3. row.values \in JobValues /\ f.copy.values \in JobValues
    BY DEF JobRows
<1>4. \A c \in Columns : row.values[c] \in Column(c) /\ f.copy.values[c] \in Column(c)
    BY <1>3, BodyTypes
<1>5. \A c \in Columns : values[c] \in Column(c) /\ values[c] \in Values
    BY <1>1, <1>2, <1>4, ColumnTypes
<1>6. values \in JobValues
    BY <1>5 DEF JobValues
<1>7. WriteChanged(f, row) = [row EXCEPT !.values = values]
    BY DEF WriteChanged
<1>8. /\ WriteChanged(f, row) \in JobRows
      /\ WriteChanged(f, row).deleted = row.deleted
      /\ WriteChanged(f, row).active = row.active
      /\ WriteChanged(f, row).values = values
    <2> HIDE DEF values
    <2> QED
      BY <1>6, <1>7 DEF JobRows
<1>9. \A c \in Changed(f) : f.copy.values[c] \in Values /\ f.body[c] \in Values
    BY <1>1, <1>4, ColumnTypes
<1>10. Diff(f) \in [Changed(f) -> [from : Values, to : Values]]
    BY <1>9 DEF Diff
<1>11. Diff(f) \in Diffs
    BY <1>1, <1>10 DEF Diffs
<1>12. \A c \in Named : c \in Dirty(f) <=> c \in Changed(f)
  <2>1. \A c \in Changed(f) : f.body[c] # f.copy.values[c]
      BY DEF Changed
  <2> QED
      BY <1>1, <1>2, <2>1
<1>13. \A c \in Columns : WriteChanged(f, row).values[c] =
                               IF c \in Dirty(f) THEN Assigned(f)[c] ELSE row.values[c]
    BY <1>8
<1>14. \A c \in Named : WriteChanged(f, row).values[c] =
                             IF c \in Changed(f) THEN f.body[c] ELSE row.values[c]
    BY <1>1, <1>12, <1>13, ColumnTypes
<1>15. /\ DOMAIN Diff(f) = Changed(f)
       /\ \A c \in Changed(f) : /\ Diff(f)[c].to = f.body[c]
                                /\ Diff(f)[c].from = f.copy.values[c]
    BY DEF Diff
<1> QED
    BY <1>1, <1>8, <1>11, <1>13, <1>14, <1>15

LEMMA NoDiffOK == NoDiff \in Diffs /\ DOMAIN NoDiff = {}
<1>1. NoDiff \in [{} -> [from : Values, to : Values]]
    BY DEF NoDiff, NoBody
<1> QED
    BY <1>1 DEF Diffs, NoDiff, NoBody

\* One history entry and one audit record more.
LEMMA RecordOK ==
    ASSUME TypeOK, NEW j \in Ids, NEW action \in JobActions, NEW changes \in Diffs,
           Record(j, action, changes)
    PROVE  /\ history' \in Seq(Entries) /\ audit' \in Seq(Events)
           /\ Last(history') = [job |-> j, action |-> action, changes |-> changes]
<1> DEFINE e == [job |-> j, action |-> action, changes |-> changes]
<1>1. history \in Seq(Entries) /\ audit \in Seq(Events)
    BY DEF TypeOK
<1>2. e \in Entries /\ Event("cron_job", j, action) \in Events
    BY DEF Entries, Event, Events
<1>3. history' = Append(history, e) /\ audit' = Append(audit, Event("cron_job", j, action))
    BY DEF Record
<1> HIDE DEF e
<1>4. history' \in Seq(Entries) /\ audit' \in Seq(Events)
    BY <1>1, <1>2, <1>3
<1>5. Len(history') = Len(history) + 1 /\ history'[Len(history) + 1] = e
    BY <1>1, <1>2, <1>3
<1> QED
    BY <1>4, <1>5 DEF Last, e

(***************************************************************************)
(* A commit of a job: one row changes, and the history tells of it.        *)
(***************************************************************************)
JobCommitted(t, j, new, action, changes) ==
    /\ j \in Ids /\ new \in JobRows /\ action \in JobActions /\ changes \in Diffs
    /\ Commit(t, frame[t].op)
    /\ job' = [job EXCEPT ![j] = new]
    /\ Record(j, action, changes)
    /\ UNCHANGED script

LEMMA JobCommittedOK ==
    ASSUME IInv, NEW t \in WebThreads, NEW j, NEW new, NEW action, NEW changes,
           JobCommitted(t, j, new, action, changes)
    PROVE  /\ IInv'
           /\ job'[j] = new /\ \A i \in Ids \ {j} : job'[i] = job[i]
           /\ Last(history') = [job |-> j, action |-> action, changes |-> changes]
<1>1. /\ j \in Ids /\ new \in JobRows /\ action \in JobActions /\ changes \in Diffs
      /\ Commit(t, frame[t].op) /\ job' = [job EXCEPT ![j] = new]
      /\ Record(j, action, changes) /\ UNCHANGED script
    BY DEF JobCommitted
<1>2. TypeOK
    BY DEF IInv
<1>3. /\ history' \in Seq(Entries) /\ audit' \in Seq(Events)
      /\ Last(history') = [job |-> j, action |-> action, changes |-> changes]
    BY <1>1, <1>2, RecordOK
<1>4. job'[j] = new /\ \A i \in Ids \ {j} : job'[i] = job[i]
    BY <1>1, <1>2 DEF TypeOK
<1>5. /\ job' \in [Ids -> JobRows \cup {NoRow}]
      /\ script' \in [Scripts -> ScriptRows \cup {NoRow}]
    BY <1>1, <1>2 DEF TypeOK
<1>6. /\ \A i \in Ids : job[i] \in JobRows => job'[i] \in JobRows
      /\ \A s \in Scripts : script[s] \in ScriptRows => script'[s] \in ScriptRows
    BY <1>1, <1>4
<1> QED
    BY <1>1, <1>3, <1>4, <1>5, <1>6, CommitStep

(***************************************************************************)
(* What each of them is.  What a request that nobody has overtaken found   *)
(* out still holds at its commit.                                          *)
(***************************************************************************)
Undisturbed(t) == frame[t].since = commits

LEMMA CreateIs ==
    ASSUME IInv, NEW t \in WebThreads, CreateJob(t)
    PROVE  \E j \in Ids, new \in JobRows :
              /\ JobCommitted(t, j, new, "CREATED", NoDiff)
              /\ job[j] = NoRow
              /\ InSync(new)
              /\ Undisturbed(t) => new.values["script_id"] \in LiveScripts \cup {NoScript}
<1> DEFINE f == frame[t]
<1>1. PICK j \in Ids :
          /\ job[j] = NoRow
          /\ job' = [job EXCEPT ![j] = [values |-> ApplySchedule(f.body), active |-> TRUE, deleted |-> FALSE]]
          /\ Record(j, "CREATED", NoDiff)
    BY DEF CreateJob
<1> DEFINE new == [values |-> ApplySchedule(f.body), active |-> TRUE, deleted |-> FALSE]
<1>2. Commit(t, "create") /\ pc[t] = "write" /\ f.op = "create" /\ UNCHANGED script
    BY DEF CreateJob, Commit
<1>3. LocalOK("write", f) /\ ViewOK("write", f)
    BY <1>2 DEF IInv, CallsOK
<1>4. f.body \in Posts
    BY <1>2, <1>3 DEF LocalOK
<1>5. /\ new \in JobRows /\ InSync(new)
      /\ new.values["script_id"] = f.body["script_id"]
    BY <1>4, CreatedRow DEF JobRows, InSync
<1>6. "script_id" \in DOMAIN f.body
    BY <1>4, BodyTypes, ColumnTypes
<1>7. Undisturbed(t) => new.values["script_id"] \in LiveScripts \cup {NoScript}
    BY <1>2, <1>3, <1>5, <1>6 DEF ViewOK, Undisturbed
<1>8. JobCommitted(t, j, new, "CREATED", NoDiff)
    BY <1>1, <1>2, <1>5, NoDiffOK DEF JobCommitted, JobActions
<1> QED
    BY <1>1, <1>5, <1>7, <1>8

LEMMA UpdateIs ==
    ASSUME IInv, NEW t \in WebThreads, UpdateJob(t)
    PROVE  LET f == frame[t]  new == WriteChanged(f, job[f.id]) IN
           /\ JobCommitted(t, f.id, new, "UPDATED", Diff(f))
           /\ job[f.id] \in JobRows /\ f.copy \in JobRows /\ f.body \in Bodies
           /\ Undisturbed(t) => /\ f.copy = job[f.id] /\ ~job[f.id].deleted
                                /\ "script_id" \in DOMAIN f.body =>
                                      f.body["script_id"] \in LiveScripts \cup {NoScript}
<1> DEFINE f == frame[t]
<1>1. /\ Commit(t, "update") /\ pc[t] = "write" /\ f.op = "update"
      /\ job' = [job EXCEPT ![f.id] = WriteChanged(f, job[f.id])]
      /\ Record(f.id, "UPDATED", Diff(f)) /\ UNCHANGED script
    BY DEF UpdateJob, Commit
<1>2. LocalOK("write", f) /\ ViewOK("write", f) /\ f \in Frames
    BY <1>1 DEF IInv, CallsOK, TypeOK
<1>3. f.id \in Ids /\ job[f.id] \in JobRows /\ f.copy \in JobRows /\ f.body \in Bodies
    BY <1>1, <1>2 DEF LocalOK, JobWrites
<1>4. JobCommitted(t, f.id, WriteChanged(f, job[f.id]), "UPDATED", Diff(f))
    BY <1>1, <1>2, <1>3, UpdateWrites DEF JobCommitted, JobActions
<1>5. Undisturbed(t) => /\ f.copy = job[f.id] /\ ~job[f.id].deleted
                        /\ "script_id" \in DOMAIN f.body =>
                              f.body["script_id"] \in LiveScripts \cup {NoScript}
    BY <1>1, <1>2 DEF ViewOK, Undisturbed, JobWrites
<1> QED
    BY <1>3, <1>4, <1>5

LEMMA StatusIs ==
    ASSUME IInv, NEW t \in WebThreads, UpdateStatus(t)
    PROVE  LET f == frame[t]  new == [job[f.id] EXCEPT !.active = f.flag] IN
           /\ JobCommitted(t, f.id, new, StatusAction(f.flag), NoDiff)
           /\ job[f.id] \in JobRows
           /\ new.values = job[f.id].values /\ new.deleted = job[f.id].deleted
<1> DEFINE f == frame[t]
           new == [job[f.id] EXCEPT !.active = f.flag]
<1>1. /\ Commit(t, "status") /\ pc[t] = "write" /\ f.op = "status"
      /\ job' = [job EXCEPT ![f.id].active = f.flag]
      /\ Record(f.id, StatusAction(f.flag), NoDiff) /\ UNCHANGED script
    BY DEF UpdateStatus, Commit
<1>2. LocalOK("write", f)
    BY <1>1 DEF IInv, CallsOK
<1>3. f.id \in Ids /\ job[f.id] \in JobRows /\ f.flag \in BOOLEAN
    BY <1>1, <1>2 DEF LocalOK, JobWrites
<1>4. job' = [job EXCEPT ![f.id] = new]
    BY <1>1
<1>5. new.values = job[f.id].values /\ new.deleted = job[f.id].deleted
    BY <1>3 DEF JobRows
<1>6. new \in JobRows
    BY <1>3 DEF JobRows
<1>7. StatusAction(f.flag) \in JobActions
    BY DEF StatusAction, JobActions
<1>8. JobCommitted(t, f.id, new, StatusAction(f.flag), NoDiff)
    BY <1>1, <1>3, <1>4, <1>6, <1>7, NoDiffOK DEF JobCommitted
<1> QED
    BY <1>3, <1>5, <1>8

LEMMA DeleteIs ==
    ASSUME IInv, NEW t \in WebThreads, DeleteJob(t)
    PROVE  LET f == frame[t]  new == WriteDeleted(f, job[f.id]) IN
           JobCommitted(t, f.id, new, "DELETED", NoDiff) /\ new.deleted
<1> DEFINE f == frame[t]
           new == WriteDeleted(f, job[f.id])
<1>1. /\ Commit(t, "delete") /\ pc[t] = "write" /\ f.op = "delete"
      /\ job' = [job EXCEPT ![f.id] = new]
      /\ Record(f.id, "DELETED", NoDiff) /\ UNCHANGED script
    BY DEF DeleteJob, Commit
<1>2. LocalOK("write", f)
    BY <1>1 DEF IInv, CallsOK
<1>3. f.id \in Ids /\ job[f.id] \in JobRows
    BY <1>1, <1>2 DEF LocalOK, JobWrites
<1>4. new \in JobRows /\ new.deleted
    BY <1>3 DEF WriteDeleted, JobRows
<1>5. JobCommitted(t, f.id, new, "DELETED", NoDiff)
    BY <1>1, <1>3, <1>4, NoDiffOK DEF JobCommitted, JobActions
<1> QED
    BY <1>4, <1>5

(***************************************************************************)
(* A commit of a script: one row changes, and no job does.                 *)
(***************************************************************************)
ScriptCommitted(t, s, new) ==
    /\ s \in Scripts /\ new \in ScriptRows
    /\ Commit(t, frame[t].op)
    /\ script' = [script EXCEPT ![s] = new]
    /\ audit' \in Seq(Events)
    /\ UNCHANGED <<job, history>>

LEMMA ScriptCommittedOK ==
    ASSUME IInv, NEW t \in WebThreads, NEW s, NEW new, ScriptCommitted(t, s, new)
    PROVE  IInv' /\ script'[s] = new /\ \A r \in Scripts \ {s} : script'[r] = script[r]
<1>1. /\ s \in Scripts /\ new \in ScriptRows /\ Commit(t, frame[t].op)
      /\ script' = [script EXCEPT ![s] = new] /\ audit' \in Seq(Events)
      /\ UNCHANGED <<job, history>>
    BY DEF ScriptCommitted
<1>2. TypeOK
    BY DEF IInv
<1>3. script'[s] = new /\ \A r \in Scripts \ {s} : script'[r] = script[r]
    BY <1>1, <1>2 DEF TypeOK
<1>4. /\ job' \in [Ids -> JobRows \cup {NoRow}] /\ history' \in Seq(Entries)
      /\ script' \in [Scripts -> ScriptRows \cup {NoRow}]
    BY <1>1, <1>2 DEF TypeOK
<1>5. /\ \A i \in Ids : job[i] \in JobRows => job'[i] \in JobRows
      /\ \A r \in Scripts : script[r] \in ScriptRows => script'[r] \in ScriptRows
    BY <1>1, <1>3
<1> QED
    BY <1>1, <1>3, <1>4, <1>5, CommitStep

LEMMA CreateScriptIs ==
    ASSUME IInv, NEW t \in WebThreads, CreateScript(t)
    PROVE  LET s == frame[t].id IN
           /\ ScriptCommitted(t, s, [enabled |-> TRUE, deleted |-> FALSE])
           /\ script[s] = NoRow
<1> DEFINE s == frame[t].id
           new == [enabled |-> TRUE, deleted |-> FALSE]
<1>1. /\ Commit(t, "new_script") /\ pc[t] = "write" /\ frame[t].op = "new_script"
      /\ script[s] = NoRow /\ script' = [script EXCEPT ![s] = new]
      /\ audit' = Append(audit, Event("script", s, "CREATED"))
      /\ UNCHANGED <<job, history>>
    BY DEF CreateScript, Commit
<1>2. LocalOK("write", frame[t]) /\ audit \in Seq(Events)
    BY <1>1 DEF IInv, CallsOK, TypeOK
<1>3. s \in Scripts
    BY <1>1, <1>2 DEF LocalOK
<1>4. Event("script", s, "CREATED") \in Events
    BY <1>3 DEF Event, Events, JobActions
<1>5. audit' \in Seq(Events)
    BY <1>1, <1>2, <1>4
<1>6. new \in ScriptRows
    BY DEF ScriptRows
<1> QED
    BY <1>1, <1>3, <1>5, <1>6 DEF ScriptCommitted

LEMMA UpdateScriptIs ==
    ASSUME IInv, NEW t \in WebThreads, UpdateScript(t)
    PROVE  LET f == frame[t]  new == WriteScript(f, script[f.id]) IN
           /\ ScriptCommitted(t, f.id, new)
           /\ script[f.id] \in ScriptRows /\ new.deleted = script[f.id].deleted
<1> DEFINE f == frame[t]
           new == WriteScript(f, script[f.id])
           first == Event("script", f.id, "UPDATED")
           rest == IF ChangesEnabled(f)
                     THEN <<Event("script", f.id, StatusAction(f.flag))>> ELSE <<>>
<1>1. /\ Commit(t, "update_script") /\ pc[t] = "write" /\ f.op = "update_script"
      /\ script' = [script EXCEPT ![f.id] = new]
      /\ audit' = Append(audit, first) \o rest
      /\ UNCHANGED <<job, history>>
    BY DEF UpdateScript, Commit
<1>2. LocalOK("write", f) /\ audit \in Seq(Events) /\ f \in Frames
    BY <1>1 DEF IInv, CallsOK, TypeOK
<1>3. f.id \in Scripts /\ script[f.id] \in ScriptRows
    BY <1>1, <1>2 DEF LocalOK, ScriptWrites
<1>4. first \in Events /\ Event("script", f.id, StatusAction(f.flag)) \in Events
    BY <1>3 DEF Event, Events, JobActions, StatusAction
<1>5. rest \in Seq(Events)
  <2> HIDE DEF f
  <2> QED
    BY <1>4
<1>6. audit' \in Seq(Events)
  <2> HIDE DEF first, rest
  <2>1. Append(audit, first) \in Seq(Events)
    BY <1>2, <1>4
  <2> QED
    BY <1>1, <1>5, <2>1, ConcatProperties
<1>7. ChangesEnabled(f) => f.flag \in BOOLEAN
    BY <1>2 DEF ChangesEnabled, Frames
<1>8. new \in ScriptRows /\ new.deleted = script[f.id].deleted
    BY <1>3, <1>7 DEF WriteScript, ScriptRows
<1> QED
    BY <1>1, <1>3, <1>6, <1>8 DEF ScriptCommitted

LEMMA DeleteScriptIs ==
    ASSUME IInv, NEW t \in WebThreads, DeleteScript(t)
    PROVE  LET s == frame[t].id IN
           /\ ScriptCommitted(t, s, [script[s] EXCEPT !.deleted = TRUE])
           /\ Undisturbed(t) => ~IsReferenced(s)
<1> DEFINE s == frame[t].id
           new == [script[s] EXCEPT !.deleted = TRUE]
<1>1. /\ Commit(t, "delete_script") /\ pc[t] = "write" /\ frame[t].op = "delete_script"
      /\ script' = [script EXCEPT ![s].deleted = TRUE]
      /\ audit' = Append(audit, Event("script", s, "DELETED"))
      /\ UNCHANGED <<job, history>>
    BY DEF DeleteScript, Commit
<1>2. LocalOK("write", frame[t]) /\ ViewOK("write", frame[t]) /\ audit \in Seq(Events)
    BY <1>1 DEF IInv, CallsOK, TypeOK
<1>3. s \in Scripts /\ script[s] \in ScriptRows
    BY <1>1, <1>2 DEF LocalOK, ScriptWrites
<1>4. Event("script", s, "DELETED") \in Events
    BY <1>3 DEF Event, Events, JobActions
<1>5. audit' \in Seq(Events)
    BY <1>1, <1>2, <1>4
<1>6. new \in ScriptRows /\ script' = [script EXCEPT ![s] = new]
    BY <1>1, <1>3 DEF ScriptRows
<1>7. Undisturbed(t) => ~IsReferenced(s)
    BY <1>1, <1>2 DEF ViewOK, Undisturbed
<1> QED
    BY <1>1, <1>3, <1>5, <1>6, <1>7 DEF ScriptCommitted

-----------------------------------------------------------------------------
LEMMA InitOK == Init => IInv
<1> SUFFICES ASSUME Init PROVE IInv
    OBVIOUS
<1>1. commits \in Nat /\ requests \in Nat /\ history \in Seq(Entries) /\ audit \in Seq(Events)
    BY DEF Init
<1>2. /\ IdleFrame \in Frames /\ LocalOK("idle", IdleFrame) /\ ViewOK("idle", IdleFrame)
    BY <1>1, IdleFrameOK
<1>3. job \in [Ids -> JobRows \cup {NoRow}]
  <2>1. PICK v \in Posts, a \in BOOLEAN :
            job = [j \in Ids |->
                      IF j = 1 THEN [values |-> ApplySchedule(v), active |-> a, deleted |-> FALSE]
                               ELSE NoRow]
    BY DEF Init
  <2>2. [values |-> ApplySchedule(v), active |-> a, deleted |-> FALSE] \in JobRows
    BY CreatedRow DEF JobRows
  <2> QED
    BY <2>1, <2>2
<1>4. script \in [Scripts -> ScriptRows \cup {NoRow}]
    BY DEF Init, ScriptRows
<1>5. pc \in [WebThreads -> Stages] /\ frame \in [WebThreads -> Frames]
    BY <1>2 DEF Init, Stages
<1>6. CallsOK
    BY <1>2 DEF Init, CallsOK
<1> QED
    BY <1>1, <1>3, <1>4, <1>5, <1>6 DEF IInv, TypeOK

LEMMA StepOK == IInv /\ [Next]_vars => IInv'
<1> SUFFICES ASSUME IInv, [Next]_vars PROVE IInv'
    OBVIOUS
<1>1. ASSUME NEW t \in WebThreads, 
             \/ RequestCreate(t) \/ RequestUpdate(t) \/ RequestStatus(t) \/ RequestDelete(t)
             \/ RequestScript(t) \/ LoadJob(t) \/ LoadScript(t) \/ ValidateScriptReference(t)
             \/ CheckUnused(t)
      PROVE  IInv'
    BY <1>1, ArrivalsOK, LoadJobOK, LoadScriptOK, ReferenceOK, UnusedOK
<1>2. ASSUME NEW t \in WebThreads,
             CreateJob(t) \/ UpdateJob(t) \/ UpdateStatus(t) \/ DeleteJob(t)
      PROVE  IInv'
    BY <1>2, CreateIs, UpdateIs, StatusIs, DeleteIs, JobCommittedOK
<1>3. ASSUME NEW t \in WebThreads, CreateScript(t) \/ UpdateScript(t) \/ DeleteScript(t)
      PROVE  IInv'
    BY <1>3, CreateScriptIs, UpdateScriptIs, DeleteScriptIs, ScriptCommittedOK
<1>4. ASSUME NEW t \in WebThreads, Abandon(t) PROVE IInv'
    BY <1>4, DoneStep DEF Abandon
<1>5. CASE UNCHANGED vars
  <2>1. TypeOK'
    BY <1>5 DEF IInv, TypeOK, vars, database
  <2>2. CallsOK'
    BY <1>5 DEF IInv, CallsOK, vars, database, LocalOK, ViewOK, LiveScripts, LiveJobs, Alive,
                IsReferenced
  <2> QED
    BY <2>1, <2>2 DEF IInv
<1> QED
    BY <1>1, <1>2, <1>3, <1>4, <1>5 DEF Next

\* Every reachable state satisfies the invariant.
LEMMA Invariant == Spec => []IInv
    BY InitOK, StepOK, PTL DEF Spec

\* The tables, the history, the trail and every request under way keep their types.
THEOREM TypeCorrect == Spec => []TypeOK
<1>1. IInv => TypeOK
    BY DEF IInv
<1> QED
    BY <1>1, Invariant, PTL

-----------------------------------------------------------------------------
(***************************************************************************)
(* The action properties: a step leaves the tables alone, or commits one   *)
(* job, or commits one script.                                             *)
(***************************************************************************)
CommitsJob(t) == CreateJob(t) \/ UpdateJob(t) \/ UpdateStatus(t) \/ DeleteJob(t)

CommitsScript(t) == CreateScript(t) \/ UpdateScript(t) \/ DeleteScript(t)

LEMMA StepKinds ==
    ASSUME [Next]_vars
    PROVE  \/ UNCHANGED <<job, script, history>>
           \/ \E t \in WebThreads : CommitsJob(t) \/ CommitsScript(t)
<1>1. ASSUME NEW t \in WebThreads,
             \/ RequestCreate(t) \/ RequestUpdate(t) \/ RequestStatus(t) \/ RequestDelete(t)
             \/ RequestScript(t)
      PROVE  UNCHANGED <<job, script, history>>
    BY <1>1 DEF RequestCreate, RequestUpdate, RequestStatus, RequestDelete, RequestScript,
                Arrive, database
<1>2. ASSUME NEW t \in WebThreads,
             \/ LoadJob(t) \/ LoadScript(t) \/ ValidateScriptReference(t) \/ CheckUnused(t)
             \/ Abandon(t)
      PROVE  UNCHANGED <<job, script, history>>
    BY <1>2 DEF LoadJob, LoadScript, ValidateScriptReference, CheckUnused, Abandon, database
<1>3. UNCHANGED vars => UNCHANGED <<job, script, history>>
    BY DEF vars, database
<1> QED
    BY <1>1, <1>2, <1>3 DEF Next, CommitsJob, CommitsScript

\* The commit of a request that another one has overtaken is a raced one.
LEMMA OvertakenIsRaced ==
    ASSUME IInv, NEW t \in WebThreads, CommitsJob(t) \/ CommitsScript(t)
    PROVE  Undisturbed(t) \/ RacedCommit
<1>1. PICK op : Commit(t, op)
    BY DEF CommitsJob, CommitsScript, CreateJob, UpdateJob, UpdateStatus, DeleteJob,
           CreateScript, UpdateScript, DeleteScript
<1>2. pc[t] = "write" /\ pc'[t] = "idle"
    BY <1>1 DEF Commit, Done, Goto, IInv, TypeOK
<1> QED
    BY <1>2 DEF Undisturbed, RacedCommit

\* A job that is not a row of its table has no "deleted" to keep.
DeletionKept == \A j \in Ids : job[j] # NoRow /\ job[j].deleted => job'[j].deleted

LEMMA DeletionStep ==
    ASSUME IInv, [Next]_vars
    PROVE  DeletionKept
<1>1. CASE UNCHANGED job
    BY <1>1 DEF DeletionKept
<1>2. ASSUME NEW t \in WebThreads, CommitsJob(t) PROVE DeletionKept
  <2>1. ASSUME NEW j, NEW new, NEW action, NEW changes,
               JobCommitted(t, j, new, action, changes),
               job[j] = NoRow \/ (job[j].deleted => new.deleted)
        PROVE  DeletionKept
    BY <2>1, JobCommittedOK DEF DeletionKept
  <2>2. CASE CreateJob(t)
    BY <2>1, <2>2, CreateIs
  <2>3. CASE UpdateJob(t)
    <3> DEFINE f == frame[t]  new == WriteChanged(f, job[f.id])
    <3>1. /\ JobCommitted(t, f.id, new, "UPDATED", Diff(f)) /\ job[f.id] \in JobRows
          /\ f.copy \in JobRows /\ f.body \in Bodies /\ f \in Frames
      BY <2>3, UpdateIs DEF IInv, TypeOK
    <3>2. new.deleted = job[f.id].deleted
      BY <3>1, UpdateWrites
    <3> HIDE DEF f, new
    <3> QED
      BY <2>1, <3>1, <3>2
  <2>4. CASE UpdateStatus(t)
    BY <2>1, <2>4, StatusIs
  <2>5. CASE DeleteJob(t)
    BY <2>1, <2>5, DeleteIs
  <2> QED
    BY <1>2, <2>2, <2>3, <2>4, <2>5 DEF CommitsJob
<1>3. ASSUME NEW t \in WebThreads, CommitsScript(t) PROVE UNCHANGED job
    BY <1>3 DEF CommitsScript, CreateScript, UpdateScript, DeleteScript
<1> QED
    BY <1>1, <1>2, <1>3, StepKinds

\* Deletion is final for every number of requests at work on copies of the row:
\* no commit clears is_deleted, whatever its copy says.
THEOREM DeletionIsFinal == Spec => DeletedForGood
<1>1. IInv /\ [Next]_vars => [DeletionKept]_vars
    BY DeletionStep
<1> QED
    BY <1>1, Invariant, PTL DEF Spec, DeletedForGood, DeletionKept

\* What FromIsWhatItReplaced says of a step.
EntryIsTrue ==
    history' # history =>
        LET e == Last(history') IN
        \A c \in DOMAIN e.changes :
           /\ e.changes[c].to = job'[e.job].values[c]
           /\ e.changes[c].from = job[e.job].values[c] \/ RacedCommit

LEMMA EntryStep ==
    ASSUME IInv, [Next]_vars
    PROVE  EntryIsTrue
<1>1. CASE UNCHANGED history
    BY <1>1 DEF EntryIsTrue
<1>2. ASSUME NEW t \in WebThreads, CommitsJob(t) PROVE EntryIsTrue
  <2>1. ASSUME NEW j, NEW new, NEW action, NEW changes,
               JobCommitted(t, j, new, action, changes),
               \A c \in DOMAIN changes :
                  /\ changes[c].to = new.values[c]
                  /\ changes[c].from = job[j].values[c] \/ RacedCommit
        PROVE  EntryIsTrue
    <3>1. /\ job'[j] = new
          /\ Last(history') = [job |-> j, action |-> action, changes |-> changes]
      BY <2>1, JobCommittedOK
    <3> QED
      BY <2>1, <3>1 DEF EntryIsTrue
  <2>2. CASE CreateJob(t)
    BY <2>1, <2>2, CreateIs, NoDiffOK
  <2>3. CASE UpdateJob(t)
    <3> DEFINE f == frame[t]  new == WriteChanged(f, job[f.id])
    <3>1. /\ JobCommitted(t, f.id, new, "UPDATED", Diff(f))
          /\ job[f.id] \in JobRows /\ f.copy \in JobRows /\ f.body \in Bodies /\ f \in Frames
          /\ Undisturbed(t) => f.copy = job[f.id]
      BY <2>3, UpdateIs DEF IInv, TypeOK
    <3>2. Undisturbed(t) \/ RacedCommit
      BY <1>2, OvertakenIsRaced
    <3>3. DOMAIN Diff(f) = Changed(f) /\ Changed(f) \subseteq Named
      BY <3>1, UpdateWrites
    <3>4. ASSUME NEW c \in Changed(f)
          PROVE  /\ Diff(f)[c].to = new.values[c]
                 /\ Diff(f)[c].from = job[f.id].values[c] \/ RacedCommit
      <4>1. Diff(f)[c].to = f.body[c] /\ Diff(f)[c].from = f.copy.values[c]
        BY <3>4 DEF Diff
      <4>2. new.values[c] = f.body[c]
        BY <3>1, <3>3, <3>4, UpdateWrites
      <4> HIDE DEF new
      <4>3. f.copy = job[f.id] \/ RacedCommit
        BY <3>1, <3>2
      <4> QED
        BY <4>1, <4>2, <4>3
    <3> HIDE DEF f, new
    <3> QED
      BY <2>1, <3>1, <3>3, <3>4
  <2>4. CASE UpdateStatus(t)
    BY <2>1, <2>4, StatusIs, NoDiffOK
  <2>5. CASE DeleteJob(t)
    BY <2>1, <2>5, DeleteIs, NoDiffOK
  <2> QED
    BY <1>2, <2>2, <2>3, <2>4, <2>5 DEF CommitsJob
<1>3. ASSUME NEW t \in WebThreads, CommitsScript(t) PROVE UNCHANGED history
    BY <1>3 DEF CommitsScript, CreateScript, UpdateScript, DeleteScript
<1> QED
    BY <1>1, <1>2, <1>3, StepKinds

\* The history is true of what each commit replaced and wrote, for every number
\* of requests: its old values can be wrong only if another request has
\* committed between this one's read and its commit.
THEOREM FromIsReplaced == Spec => FromIsWhatItReplaced
<1>1. IInv /\ [Next]_vars => [EntryIsTrue]_vars
    BY EntryStep
<1> QED
    BY <1>1, Invariant, PTL DEF Spec, FromIsWhatItReplaced, EntryIsTrue

-----------------------------------------------------------------------------
\* What DerivedApartOnlyByRace says of a step.
DerivedKept ==
    \A j \in Ids :
       job'[j] # job[j] /\ (Rescheduled(j) \/ InSync(job[j])) => InSync(job'[j]) \/ RacedCommit

LEMMA DerivedStep ==
    ASSUME IInv, [Next]_vars
    PROVE  DerivedKept
<1>1. CASE UNCHANGED job
    BY <1>1 DEF DerivedKept
<1>2. ASSUME NEW t \in WebThreads, CommitsJob(t) PROVE DerivedKept
  <2>1. ASSUME NEW j, NEW new, NEW action, NEW changes,
               JobCommitted(t, j, new, action, changes),
               InSync(new) \/ RacedCommit \/ ~(Rescheduled(j) \/ InSync(job[j]))
        PROVE  DerivedKept
    <3>1. job'[j] = new /\ \A i \in Ids \ {j} : job'[i] = job[i]
      BY <2>1, JobCommittedOK
    <3> QED
      BY <2>1, <3>1 DEF DerivedKept
  <2>2. ASSUME NEW j, NEW new, NEW action, NEW changes,
               JobCommitted(t, j, new, action, changes), job[j] \in JobRows,
               new.values = job[j].values
        PROVE  DerivedKept
    <3>1. job'[j] = new
      BY <2>2, JobCommittedOK
    <3>2. ~Rescheduled(j)
      BY <2>2, <3>1, NoRowAssumption DEF Rescheduled
    <3>3. InSync(job[j]) => InSync(new)
      BY <2>2 DEF InSync
    <3> QED
      BY <2>1, <2>2, <3>2, <3>3
  <2>3. CASE CreateJob(t)
    BY <2>1, <2>3, CreateIs
  <2>4. CASE UpdateJob(t)
    <3> DEFINE f == frame[t]  row == job[f.id]  new == WriteChanged(f, row)
               s == "schedule_expression"
    <3>1. /\ JobCommitted(t, f.id, new, "UPDATED", Diff(f))
          /\ row \in JobRows /\ f.copy \in JobRows /\ f.body \in Bodies /\ f \in Frames
          /\ Undisturbed(t) => f.copy = row
      BY <2>4, UpdateIs DEF IInv, TypeOK
    <3>2. Undisturbed(t) \/ RacedCommit
      BY <1>2, OvertakenIsRaced
    <3>3. job'[f.id] = new
      BY <3>1, JobCommittedOK
    <3>4. /\ \A c \in Columns : new.values[c] =
                IF c \in Dirty(f) THEN Assigned(f)[c] ELSE row.values[c]
          /\ new.values[s] = IF s \in Changed(f) THEN f.body[s] ELSE row.values[s]
      BY <3>1, UpdateWrites, ColumnTypes
    <3>5. \A c : c \in Dirty(f) <=> c \in DOMAIN Assigned(f) /\ Assigned(f)[c] # f.copy.values[c]
      BY DEF Dirty
    <3>6. \A p \in Parts : IF s \in Changed(f)
                              THEN p \in DOMAIN Assigned(f) /\ Assigned(f)[p] = f.body[s][p]
                              ELSE p \notin DOMAIN Assigned(f)
      BY <3>1, AssignedIs
    <3> HIDE DEF f, row, new
    <3>7. ASSUME f.copy = row, s \in Changed(f) PROVE InSync(new)
      BY <3>4, <3>5, <3>6, <3>7, ColumnTypes DEF InSync
    <3>8. ASSUME s \notin Changed(f), InSync(row) PROVE InSync(new)
      BY <3>4, <3>5, <3>6, <3>8, ColumnTypes DEF InSync
    <3>9. s \notin Changed(f) => ~Rescheduled(f.id)
      BY <3>1, <3>3, <3>4, NoRowAssumption DEF Rescheduled, row
    <3>10. InSync(new) \/ RacedCommit \/ ~(Rescheduled(f.id) \/ InSync(job[f.id]))
      BY <3>1, <3>2, <3>7, <3>8, <3>9 DEF row
    <3> QED
      BY <2>1, <3>1, <3>10
  <2>5. CASE UpdateStatus(t)
    BY <2>2, <2>5, StatusIs
  <2>6. CASE DeleteJob(t)
    <3> DEFINE f == frame[t]  new == WriteDeleted(f, job[f.id])
    <3>1. JobCommitted(t, f.id, new, "DELETED", NoDiff)
      BY <2>6, DeleteIs
    <3>2. pc[t] = "write" /\ f.op \in JobWrites
      BY <2>6 DEF DeleteJob, Commit, JobWrites
    <3>3. job[f.id] \in JobRows
      BY <3>2 DEF IInv, CallsOK, LocalOK
    <3>4. new.values = job[f.id].values
      BY <3>3 DEF WriteDeleted, JobRows
    <3> HIDE DEF f, new
    <3> QED
      BY <2>2, <3>1, <3>3, <3>4
  <2> QED
    BY <1>2, <2>3, <2>4, <2>5, <2>6 DEF CommitsJob
<1>3. ASSUME NEW t \in WebThreads, CommitsScript(t) PROVE UNCHANGED job
    BY <1>3 DEF CommitsScript, CreateScript, UpdateScript, DeleteScript
<1> QED
    BY <1>1, <1>2, <1>3, StepKinds

\* The derived columns come apart from the expression only where two requests
\* overlap, for every number of requests and columns: a commit that nobody has
\* overtaken leaves them right if it sets the schedule or finds them right
\* (_apply_schedule and the UPDATE of update_cron_job).
THEOREM DerivedKeptWithoutRace == Spec => DerivedApartOnlyByRace
<1>1. IInv /\ [Next]_vars => [DerivedKept]_vars
    BY DerivedStep
<1> QED
    BY <1>1, Invariant, PTL DEF Spec, DerivedApartOnlyByRace, DerivedKept

-----------------------------------------------------------------------------
\* A row that is written stays, or becomes, one that a select finds.
LEMMA AliveIs ==
    /\ \A row \in JobRows : Alive(row) <=> ~row.deleted
    /\ \A row \in ScriptRows : Alive(row) <=> ~row.deleted
BY NoRowAssumption DEF Alive

LEMMA ReferencesStep ==
    ASSUME IInv, [Next]_vars, ReferencesAreAlive
    PROVE  ReferencesAreAlive' \/ RacedCommit
<1> SUFFICES ASSUME ~RacedCommit PROVE ReferencesAreAlive'
    OBVIOUS
<1> USE DEF ReferencesAreAlive
<1>1. CASE UNCHANGED <<job, script>>
    BY <1>1 DEF LiveJobs, LiveScripts, Alive
<1>2. ASSUME NEW t \in WebThreads, CommitsJob(t) PROVE ReferencesAreAlive'
  <2>1. Undisturbed(t)
    BY <1>2, OvertakenIsRaced
  <2>2. ASSUME NEW j, NEW new, NEW action, NEW changes,
               JobCommitted(t, j, new, action, changes),
               Alive(new) => new.values["script_id"] \in LiveScripts \cup {NoScript}
        PROVE  ReferencesAreAlive'
    <3>1. LiveScripts' = LiveScripts
      BY <2>2 DEF JobCommitted, LiveScripts, Alive
    <3>2. job'[j] = new /\ \A i \in Ids \ {j} : job'[i] = job[i]
      BY <2>2, JobCommittedOK
    <3>3. ASSUME NEW i \in Ids, Alive(job'[i])
          PROVE  job'[i].values["script_id"] \in LiveScripts \cup {NoScript}
      BY <2>2, <3>2, <3>3 DEF LiveJobs
    <3> QED
      BY <3>1, <3>3 DEF LiveJobs, Alive
  <2>3. CASE CreateJob(t)
    BY <2>1, <2>2, <2>3, CreateIs
  <2>4. CASE UpdateJob(t)
    <3> DEFINE f == frame[t]  new == WriteChanged(f, job[f.id])
    <3>1. /\ JobCommitted(t, f.id, new, "UPDATED", Diff(f))
          /\ job[f.id] \in JobRows /\ ~job[f.id].deleted
          /\ f.copy \in JobRows /\ f.body \in Bodies /\ f \in Frames
          /\ "script_id" \in DOMAIN f.body =>
                f.body["script_id"] \in LiveScripts \cup {NoScript}
      BY <2>1, <2>4, UpdateIs DEF IInv, TypeOK
    <3>2. f.id \in Ids
      BY <3>1 DEF JobCommitted
    <3>3. job[f.id].values["script_id"] \in LiveScripts \cup {NoScript}
      BY <3>1, <3>2, AliveIs DEF LiveJobs
    <3>4. new.values["script_id"] = IF "script_id" \in Changed(f) THEN f.body["script_id"]
                                    ELSE job[f.id].values["script_id"]
      BY <3>1, UpdateWrites, ColumnTypes
    <3>5. Changed(f) \subseteq DOMAIN f.body
      BY DEF Changed
    <3> HIDE DEF f, new
    <3>6. new.values["script_id"] \in LiveScripts \cup {NoScript}
      BY <3>1, <3>3, <3>4, <3>5
    <3> QED
      BY <2>2, <3>1, <3>6
  <2>5. CASE UpdateStatus(t)
    <3> DEFINE f == frame[t]  new == [job[f.id] EXCEPT !.active = f.flag]
    <3>1. /\ JobCommitted(t, f.id, new, StatusAction(f.flag), NoDiff)
          /\ job[f.id] \in JobRows
          /\ new.values = job[f.id].values /\ new.deleted = job[f.id].deleted
      BY <2>5, StatusIs
    <3>2. f.id \in Ids /\ new \in JobRows
      BY <3>1 DEF JobCommitted
    <3> HIDE DEF f, new
    <3>3. Alive(new) => new.values["script_id"] \in LiveScripts \cup {NoScript}
      BY <3>1, <3>2, AliveIs DEF LiveJobs
    <3> QED
      BY <2>2, <3>1, <3>3
  <2>6. CASE DeleteJob(t)
    BY <2>2, <2>6, DeleteIs DEF Alive
  <2> QED
    BY <1>2, <2>3, <2>4, <2>5, <2>6 DEF CommitsJob
<1>3. ASSUME NEW t \in WebThreads, CommitsScript(t) PROVE ReferencesAreAlive'
  <2>1. Undisturbed(t)
    BY <1>3, OvertakenIsRaced
  <2>2. ASSUME NEW s, NEW new,
               ScriptCommitted(t, s, new),
               Alive(new) \/ ~Alive(script[s]) \/ ~IsReferenced(s)
        PROVE  ReferencesAreAlive'
    <3>1. script'[s] = new /\ \A r \in Scripts \ {s} : script'[r] = script[r]
      BY <2>2, ScriptCommittedOK
    <3>2. LiveJobs' = LiveJobs /\ UNCHANGED job
      BY <2>2 DEF ScriptCommitted, LiveJobs, Alive
    <3>3. ASSUME NEW r \in LiveScripts, \E j \in LiveJobs : job[j].values["script_id"] = r
          PROVE  r \in LiveScripts'
      <4>1. r \in Scripts /\ Alive(script[r]) /\ IsReferenced(r)
        BY <3>3 DEF LiveScripts, IsReferenced
      <4>2. Alive(script'[r])
        BY <2>2, <3>1, <4>1
      <4> QED
        BY <4>1, <4>2 DEF LiveScripts, Alive
    <3> QED
      BY <3>2, <3>3
  <2>3. CASE CreateScript(t)
    BY <2>2, <2>3, CreateScriptIs DEF Alive
  <2>4. CASE UpdateScript(t)
    <3> DEFINE f == frame[t]  new == WriteScript(f, script[f.id])
    <3>1. /\ ScriptCommitted(t, f.id, new)
          /\ script[f.id] \in ScriptRows /\ new.deleted = script[f.id].deleted
      BY <2>4, UpdateScriptIs
    <3>2. new \in ScriptRows
      BY <3>1 DEF ScriptCommitted
    <3> HIDE DEF f, new
    <3>3. Alive(new) \/ ~Alive(script[f.id])
      BY <3>1, <3>2, AliveIs
    <3> QED
      BY <2>2, <3>1, <3>3
  <2>5. CASE DeleteScript(t)
    BY <2>1, <2>2, <2>5, DeleteScriptIs
  <2> QED
    BY <1>3, <2>3, <2>4, <2>5 DEF CommitsScript
<1> QED
    BY <1>1, <1>2, <1>3, StepKinds

\* The check of a job's reference and the check of a script's use exclude each
\* other, for every number of requests, jobs and scripts, as long as no commit
\* falls between another request's arrival and its own commit.
THEOREM ReferencesKeptWithoutRace == Spec => ReferencesLostOnlyByRace
<1>1. IInv /\ [Next]_vars => [ReferencesAreAlive => ReferencesAreAlive' \/ RacedCommit]_vars
    BY ReferencesStep
<1> QED
    BY <1>1, Invariant, PTL DEF Spec, ReferencesLostOnlyByRace

-----------------------------------------------------------------------------
(***************************************************************************)
(* The records.  What one more entry or event does to a replay.            *)
(***************************************************************************)
HistoryFacts == INSTANCE ReplayProofs WITH Apply <- ApplyEntry, About <- JobOf
ToldFacts == INSTANCE ReplayProofs WITH Apply <- Collect, About <- ResourceOf
AuditFacts == INSTANCE ReplayProofs WITH Apply <- ApplyEvent, About <- SubjectOf

LEMMA HistoryIsReplay ==
    ASSUME NEW j, NEW first, NEW log
    PROVE  History!Replayed(j, first, log) = HistoryFacts!Replayed(j, first, log)
BY DEF History!Replayed, HistoryFacts!Replayed, History!Step, HistoryFacts!Step

LEMMA HistoryGrows ==
    ASSUME NEW j, NEW first, NEW log \in Seq(Entries), NEW e \in Entries
    PROVE  History!Replayed(j, first, Append(log, e))
              = IF e.job = j THEN ApplyEntry(History!Replayed(j, first, log), e)
                             ELSE History!Replayed(j, first, log)
<1>1. HistoryFacts!Replayed(j, first, Append(log, e))
         = HistoryFacts!Step(HistoryFacts!Replayed(j, first, log), j, e)
    BY HistoryFacts!ReplayOfAppend
<1> QED BY <1>1, HistoryIsReplay DEF HistoryFacts!Step, JobOf

LEMMA HistoryOfOthers ==
    ASSUME NEW j, NEW first, NEW log \in Seq(Entries),
           \A i \in DOMAIN log : log[i].job # j
    PROVE  History!Replayed(j, first, log) = first
<1>1. Len(log) \in Nat /\ \A i \in 1 .. Len(log) : JobOf(log[i]) # j
    BY DEF JobOf
<1>2. HistoryFacts!Replayed(j, first, log) = first
    BY <1>1, HistoryFacts!ReplayOfOthers
<1> QED BY <1>2, HistoryIsReplay

LEMMA ToldIsReplay ==
    ASSUME NEW kind, NEW first, NEW log
    PROVE  ToldOf!Replayed(kind, first, log) = ToldFacts!Replayed(kind, first, log)
BY DEF ToldOf!Replayed, ToldFacts!Replayed, ToldOf!Step, ToldFacts!Step

LEMMA ToldGrows ==
    ASSUME NEW kind, NEW log \in Seq(Events), NEW e \in Events
    PROVE  ToldOf!Replayed(kind, <<>>, Append(log, e))
              = IF e.resource = kind THEN Append(ToldOf!Replayed(kind, <<>>, log), e)
                                     ELSE ToldOf!Replayed(kind, <<>>, log)
<1>1. ToldFacts!Replayed(kind, <<>>, Append(log, e))
         = ToldFacts!Step(ToldFacts!Replayed(kind, <<>>, log), kind, e)
    BY ToldFacts!ReplayOfAppend
<1> QED BY <1>1, ToldIsReplay DEF ToldFacts!Step, ResourceOf, Collect

LEMMA AuditIsReplay ==
    ASSUME NEW key, NEW first, NEW log
    PROVE  Audit!Replayed(key, first, log) = AuditFacts!Replayed(key, first, log)
BY DEF Audit!Replayed, AuditFacts!Replayed, Audit!Step, AuditFacts!Step

LEMMA AuditGrows ==
    ASSUME NEW key, NEW first, NEW log \in Seq(Events), NEW e \in Events
    PROVE  Audit!Replayed(key, first, Append(log, e))
              = IF <<e.resource, e.id>> = key THEN ApplyEvent(Audit!Replayed(key, first, log), e)
                                              ELSE Audit!Replayed(key, first, log)
<1>1. AuditFacts!Replayed(key, first, Append(log, e))
         = AuditFacts!Step(AuditFacts!Replayed(key, first, log), key, e)
    BY AuditFacts!ReplayOfAppend
<1> QED BY <1>1, AuditIsReplay DEF AuditFacts!Step, SubjectOf

LEMMA AuditOfOthers ==
    ASSUME NEW key, NEW first, NEW log \in Seq(Events),
           \A i \in DOMAIN log : <<log[i].resource, log[i].id>> # key
    PROVE  Audit!Replayed(key, first, log) = first
<1>1. Len(log) \in Nat /\ \A i \in 1 .. Len(log) : SubjectOf(log[i]) # key
    BY DEF SubjectOf
<1>2. AuditFacts!Replayed(key, first, log) = first
    BY <1>1, AuditFacts!ReplayOfOthers
<1> QED BY <1>2, AuditIsReplay

LEMMA NothingReplayed ==
    ASSUME NEW key, NEW first
    PROVE  /\ History!Replayed(key, first, <<>>) = first
           /\ ToldOf!Replayed(key, <<>>, <<>>) = <<>>
           /\ Audit!Replayed(key, first, <<>>) = first
BY HistoryIsReplay, ToldIsReplay, AuditIsReplay, HistoryFacts!ReplayOfNothing,
   ToldFacts!ReplayOfNothing, AuditFacts!ReplayOfNothing

(***************************************************************************)
(* The invariant of the records: a replay of a row that is there is a row, *)
(* and the records only tell of rows that are there, so that a row begins  *)
(* with an empty record.                                                   *)
(***************************************************************************)
JobRecordsOK ==
    /\ HistoryReplaysToRow
    /\ origin.job \in [Ids -> JobRows \cup {NoRow}]
    /\ \A j \in Ids : job[j] # NoRow => Replayed(j) \in JobRows
    /\ \A i \in DOMAIN history : job[history[i].job] # NoRow

ScriptRecordsOK ==
    /\ ScriptsAsAudited
    /\ origin.script \in [Scripts -> ScriptRows \cup {NoRow}]
    /\ \A i \in DOMAIN audit : audit[i].resource = "script" => script[audit[i].id] # NoRow

OriginOK == origin = [job |-> origin.job, script |-> origin.script]

RecordsOK == OriginOK /\ JobRecordsOK /\ AuditMatchesHistory /\ ScriptRecordsOK

(***************************************************************************)
(* Jobs.  An entry tells of the change of the row if it makes the same of  *)
(* what the history had told of it before.                                 *)
(***************************************************************************)
Agrees(row, told) ==
    /\ \A c \in Named : row.values[c] = told.values[c]
    /\ row.deleted = told.deleted
    /\ ~row.deleted => row.active = told.active

LEMMA JobRecorded ==
    ASSUME IInv, OriginOK, JobRecordsOK, NEW t \in WebThreads,
           NEW j, NEW new, NEW action, NEW changes,
           JobCommitted(t, j, new, action, changes),
           NEW first \in JobRows, origin' = [origin EXCEPT !.job[j] = first],
           NEW told \in JobRows, Agrees(new, told),
           told = ApplyEntry(History!Replayed(j, first, history),
                             [job |-> j, action |-> action, changes |-> changes])
    PROVE  JobRecordsOK' /\ OriginOK' /\ origin'.script = origin.script
<1> DEFINE e == [job |-> j, action |-> action, changes |-> changes]
<1>1. /\ j \in Ids /\ new \in JobRows /\ action \in JobActions /\ changes \in Diffs
      /\ job' = [job EXCEPT ![j] = new] /\ history' = Append(history, e)
    BY DEF JobCommitted, Record
<1>2. /\ job \in [Ids -> JobRows \cup {NoRow}] /\ history \in Seq(Entries)
      /\ origin.job \in [Ids -> JobRows \cup {NoRow}]
    BY DEF IInv, TypeOK, JobRecordsOK
<1>3. e \in Entries /\ e.job = j
    BY <1>1 DEF Entries
<1>4. /\ origin'.job = [origin.job EXCEPT ![j] = first] /\ origin'.script = origin.script
      /\ OriginOK'
    BY DEF OriginOK
<1>5. told = ApplyEntry(History!Replayed(j, first, history), e)
    OBVIOUS
<1> HIDE DEF e
<1>6. NoRow \notin JobRows
    BY NoRowAssumption
<1>7. /\ job'[j] = new /\ \A i \in Ids \ {j} : job'[i] = job[i]
      /\ origin'.job[j] = first /\ \A i \in Ids \ {j} : origin'.job[i] = origin.job[i]
    BY <1>1, <1>2, <1>4
<1>8. \A i \in Ids : Replayed(i)' = IF i = j THEN told ELSE Replayed(i)
  <2> SUFFICES ASSUME NEW i \in Ids
               PROVE  Replayed(i)' = IF i = j THEN told ELSE Replayed(i)
      OBVIOUS
  <2>1. Replayed(i)' = History!Replayed(i, origin'.job[i], Append(history, e))
      BY <1>1 DEF Replayed
  <2>2. Replayed(i)' = IF e.job = i
                         THEN ApplyEntry(History!Replayed(i, origin'.job[i], history), e)
                         ELSE History!Replayed(i, origin'.job[i], history)
      BY <1>2, <1>3, <2>1, HistoryGrows
  <2> QED BY <1>3, <1>5, <1>7, <2>2 DEF Replayed
<1>9. \A i \in Ids : job'[i] # NoRow => Replayed(i)' \in JobRows
    BY <1>7, <1>8 DEF JobRecordsOK
<1>10. HistoryReplaysToRow'
  <2> SUFFICES ASSUME NEW i \in Ids
               PROVE  /\ job'[i] = NoRow <=> origin'.job[i] = NoRow
                      /\ job'[i] # NoRow =>
                            /\ \A c \in Named : job'[i].values[c] = Replayed(i)'.values[c]
                            /\ job'[i].deleted = Replayed(i)'.deleted
                            /\ Alive(job'[i]) => job'[i].active = Replayed(i)'.active
      BY DEF HistoryReplaysToRow, Alive
  <2>1. CASE i = j
      BY <1>1, <1>6, <1>7, <1>8, <2>1 DEF Agrees, Alive
  <2>2. CASE i # j
      BY <1>7, <1>8, <2>2 DEF JobRecordsOK, HistoryReplaysToRow
  <2> QED BY <2>1, <2>2
<1>11. \A i \in DOMAIN history' : job'[history'[i].job] # NoRow
  <2> SUFFICES ASSUME NEW i \in DOMAIN history'
               PROVE  job'[history'[i].job] # NoRow
      OBVIOUS
  <2>1. (i \in DOMAIN history /\ history'[i] = history[i]) \/ history'[i] = e
      BY <1>1, <1>2, <1>3
  <2>2. CASE i \in DOMAIN history /\ history'[i] = history[i]
    <3>1. history[i] \in Entries /\ job[history[i].job] # NoRow
        BY <1>2, <2>2 DEF JobRecordsOK
    <3> QED BY <1>1, <1>6, <1>7, <2>2, <3>1 DEF Entries
  <2>3. CASE history'[i] = e
      BY <1>1, <1>3, <1>6, <1>7, <2>3
  <2> QED BY <2>1, <2>2, <2>3
<1>12. origin'.job \in [Ids -> JobRows \cup {NoRow}]
    BY <1>2, <1>4
<1> QED BY <1>4, <1>9, <1>10, <1>11, <1>12 DEF JobRecordsOK

\* What a row without a commit of its own keeps.
LEMMA FirstIsKept ==
    ASSUME OriginOK, JobRecordsOK, NEW j \in Ids, job[j] # NoRow, origin' = origin
    PROVE  /\ origin.job[j] \in JobRows
           /\ origin' = [origin EXCEPT !.job[j] = origin.job[j]]
           /\ Replayed(j) \in JobRows
           /\ job[j] \in JobRows => Agrees(job[j], Replayed(j))
<1>1. origin.job[j] \in JobRows
    BY DEF JobRecordsOK, HistoryReplaysToRow
<1>2. [origin.job EXCEPT ![j] = origin.job[j]] = origin.job
    BY DEF JobRecordsOK
<1>3. [origin EXCEPT !.job = origin.job] = origin
    BY DEF OriginOK
<1>4. job[j] \in JobRows => Agrees(job[j], Replayed(j))
    BY DEF JobRecordsOK, HistoryReplaysToRow, Agrees, Alive
<1> QED BY <1>1, <1>2, <1>3, <1>4 DEF JobRecordsOK

\* A row that a later commit writes has been created, and its first row is kept.
LEMMA CommitKeepsOrigin ==
    ASSUME IInv, NEW t \in WebThreads, UpdateJob(t) \/ UpdateStatus(t) \/ DeleteJob(t)
    PROVE  /\ frame[t].id \in Ids /\ job[frame[t].id] \in JobRows
           /\ job[frame[t].id] # NoRow /\ origin' = origin
<1>1. pc[t] = "write" /\ frame[t].op \in JobWrites /\ origin' = origin
    BY DEF UpdateJob, UpdateStatus, DeleteJob, Commit, JobWrites
<1>2. LocalOK("write", frame[t])
    BY <1>1 DEF IInv, CallsOK
<1>3. frame[t].id \in Ids /\ job[frame[t].id] \in JobRows
    BY <1>1, <1>2 DEF LocalOK
<1> QED BY <1>1, <1>3, NoRowAssumption

LEMMA CreateRecorded ==
    ASSUME IInv, OriginOK, JobRecordsOK, NEW t \in WebThreads, CreateJob(t)
    PROVE  JobRecordsOK' /\ OriginOK' /\ origin'.script = origin.script
<1>1. PICK j \in Ids, new \in JobRows :
          JobCommitted(t, j, new, "CREATED", NoDiff) /\ job[j] = NoRow
    BY CreateIs
<1>2. PICK i \in Ids : job[i] = NoRow /\ job'[i] # NoRow /\ origin' = [origin EXCEPT !.job[i] = job'[i]]
  <2>1. PICK i \in Ids :
            /\ job[i] = NoRow
            /\ job' = [job EXCEPT ![i] = [values |-> ApplySchedule(frame[t].body),
                                          active |-> TRUE, deleted |-> FALSE]]
            /\ origin' = [origin EXCEPT !.job[i] = job'[i]]
      BY DEF CreateJob
  <2>2. LocalOK("write", frame[t]) /\ frame[t].op = "create" /\ job \in [Ids -> JobRows \cup {NoRow}]
      BY DEF CreateJob, Commit, IInv, CallsOK, TypeOK
  <2>3. job'[i] \in JobRows
      BY <2>1, <2>2, CreatedRow DEF LocalOK, JobRows
  <2> QED BY <2>1, <2>3, NoRowAssumption
<1>3. /\ job' = [job EXCEPT ![j] = new] /\ job \in [Ids -> JobRows \cup {NoRow}]
      /\ history \in Seq(Entries)
    BY <1>1 DEF JobCommitted, IInv, TypeOK
<1>4. i = j /\ job'[j] = new
    BY <1>1, <1>2, <1>3
<1>5. origin' = [origin EXCEPT !.job[j] = new]
    BY <1>2, <1>4
<1>6. History!Replayed(j, new, history) = new
  <2>1. \A k \in DOMAIN history : history[k].job # j
      BY <1>1 DEF JobRecordsOK
  <2> QED BY <1>3, <2>1, HistoryOfOthers
<1>7. new = ApplyEntry(History!Replayed(j, new, history),
                       [job |-> j, action |-> "CREATED", changes |-> NoDiff])
    BY <1>6 DEF ApplyEntry
<1>8. Agrees(new, new)
    BY DEF Agrees
<1> QED BY <1>1, <1>5, <1>7, <1>8, JobRecorded

LEMMA UpdateRecorded ==
    ASSUME IInv, OriginOK, JobRecordsOK, NEW t \in WebThreads, UpdateJob(t)
    PROVE  JobRecordsOK' /\ OriginOK' /\ origin'.script = origin.script
<1> DEFINE f == frame[t]
           j == f.id
           row == job[j]
           new == WriteChanged(f, row)
           before == Replayed(j)
           e == [job |-> j, action |-> "UPDATED", changes |-> Diff(f)]
           told == ApplyEntry(before, e)
<1>1. /\ JobCommitted(t, j, new, "UPDATED", Diff(f))
      /\ row \in JobRows /\ f.copy \in JobRows /\ f.body \in Bodies
    BY UpdateIs
<1>2. j \in Ids /\ row # NoRow /\ origin' = origin
    BY CommitKeepsOrigin
<1>3. /\ origin.job[j] \in JobRows /\ origin' = [origin EXCEPT !.job[j] = origin.job[j]]
      /\ before \in JobRows /\ Agrees(row, before)
    BY <1>1, <1>2, FirstIsKept
<1>4. f \in Frames
    BY DEF IInv, TypeOK
<1>5. /\ new \in JobRows /\ new.deleted = row.deleted /\ new.active = row.active
      /\ \A c \in Named : new.values[c] = IF c \in Changed(f) THEN f.body[c] ELSE row.values[c]
      /\ DOMAIN Diff(f) = Changed(f) /\ Changed(f) \subseteq Named
      /\ \A c \in Changed(f) : Diff(f)[c].to = f.body[c] /\ f.body[c] \in Column(c)
    BY <1>1, <1>4, UpdateWrites, AssignedIs
<1> DEFINE values == [c \in Columns |-> IF c \in DOMAIN Diff(f) THEN Diff(f)[c].to
                                                               ELSE before.values[c]]
<1>6. told = [before EXCEPT !.values = values]
    BY DEF ApplyEntry
<1> HIDE DEF told, new, row, before, f
<1>7. values \in JobValues
  <2>1. before.values \in JobValues
      BY <1>3 DEF JobRows
  <2>2. \A c \in Columns : before.values[c] \in Column(c)
      BY <2>1, BodyTypes
  <2>3. \A c \in Columns : values[c] \in Column(c) /\ values[c] \in Values
      BY <1>5, <2>2, ColumnTypes
  <2> QED BY <2>3 DEF JobValues
<1>8. \A c \in Named : new.values[c] = values[c]
    BY <1>3, <1>5, ColumnTypes DEF Agrees
<1> HIDE DEF values
<1>9. told \in JobRows /\ Agrees(new, told)
  <2>1. /\ told \in JobRows /\ told.values = values
        /\ told.deleted = before.deleted /\ told.active = before.active
      BY <1>3, <1>6, <1>7 DEF JobRows
  <2> QED BY <1>3, <1>5, <1>8, <2>1 DEF Agrees
<1>10. told = ApplyEntry(History!Replayed(j, origin.job[j], history), e)
    BY DEF told, before, Replayed
<1> HIDE DEF j
<1> QED BY <1>1, <1>3, <1>9, <1>10, JobRecorded

LEMMA StatusRecorded ==
    ASSUME IInv, OriginOK, JobRecordsOK, NEW t \in WebThreads, UpdateStatus(t)
    PROVE  JobRecordsOK' /\ OriginOK' /\ origin'.script = origin.script
<1> DEFINE f == frame[t]
           j == f.id
           row == job[j]
           new == [row EXCEPT !.active = f.flag]
           before == Replayed(j)
           action == StatusAction(f.flag)
           told == [before EXCEPT !.active = f.flag]
<1>1. JobCommitted(t, j, new, action, NoDiff) /\ row \in JobRows
    BY StatusIs
<1>2. j \in Ids /\ row # NoRow /\ origin' = origin
    BY CommitKeepsOrigin
<1>3. /\ origin.job[j] \in JobRows /\ origin' = [origin EXCEPT !.job[j] = origin.job[j]]
      /\ before \in JobRows /\ Agrees(row, before)
    BY <1>1, <1>2, FirstIsKept
<1>4. f.flag \in BOOLEAN
  <2>1. LocalOK("write", f) /\ f.op = "status"
      BY DEF UpdateStatus, Commit, IInv, CallsOK
  <2> QED BY <2>1 DEF LocalOK
<1>5. told = ApplyEntry(before, [job |-> j, action |-> action, changes |-> NoDiff])
  <2>1. CASE f.flag
      BY <2>1 DEF ApplyEntry, StatusAction
  <2>2. CASE ~f.flag
      BY <1>4, <2>2 DEF ApplyEntry, StatusAction
  <2> QED BY <2>1, <2>2
<1> HIDE DEF action, row, before, f
<1>6. told \in JobRows /\ Agrees(new, told)
    BY <1>1, <1>3, <1>4 DEF JobRows, Agrees
<1>7. told = ApplyEntry(History!Replayed(j, origin.job[j], history),
                        [job |-> j, action |-> action, changes |-> NoDiff])
    BY <1>5 DEF before, Replayed
<1> HIDE DEF j, new, told
<1> QED BY <1>1, <1>3, <1>6, <1>7, JobRecorded

LEMMA DeleteRecorded ==
    ASSUME IInv, OriginOK, JobRecordsOK, NEW t \in WebThreads, DeleteJob(t)
    PROVE  JobRecordsOK' /\ OriginOK' /\ origin'.script = origin.script
<1> DEFINE f == frame[t]
           j == f.id
           row == job[j]
           new == WriteDeleted(f, row)
           before == Replayed(j)
           told == [before EXCEPT !.active = FALSE, !.deleted = TRUE]
<1>1. JobCommitted(t, j, new, "DELETED", NoDiff)
    BY DeleteIs
<1>2. j \in Ids /\ row \in JobRows /\ row # NoRow /\ origin' = origin
    BY CommitKeepsOrigin
<1>3. /\ origin.job[j] \in JobRows /\ origin' = [origin EXCEPT !.job[j] = origin.job[j]]
      /\ before \in JobRows /\ Agrees(row, before)
    BY <1>2, FirstIsKept
<1>4. told = ApplyEntry(before, [job |-> j, action |-> "DELETED", changes |-> NoDiff])
    BY DEF ApplyEntry
<1> HIDE DEF row, before, f
<1>5. new.values = row.values /\ new.deleted
    BY <1>2 DEF WriteDeleted, JobRows
<1>6. told \in JobRows /\ told.values = before.values /\ told.deleted = TRUE
    BY <1>3 DEF JobRows
<1>7. new.deleted = TRUE
    BY <1>2 DEF WriteDeleted, JobRows
<1> HIDE DEF new, told
<1>8. Agrees(new, told)
    BY <1>3, <1>5, <1>6, <1>7 DEF Agrees
<1>9. told = ApplyEntry(History!Replayed(j, origin.job[j], history),
                        [job |-> j, action |-> "DELETED", changes |-> NoDiff])
    BY <1>4 DEF before, Replayed
<1> HIDE DEF j
<1> QED BY <1>1, <1>3, <1>6, <1>8, <1>9, JobRecorded

(***************************************************************************)
(* The audit trail.  A commit of a job adds one event to it, a commit of a *)
(* script one or two.                                                      *)
(***************************************************************************)
LEMMA JobEventsMatch ==
    ASSUME TypeOK, AuditMatchesHistory,
           NEW j \in Ids, NEW action \in JobActions, NEW changes \in Diffs,
           Record(j, action, changes)
    PROVE  AuditMatchesHistory'
<1> DEFINE e == [job |-> j, action |-> action, changes |-> changes]
           ev == Event("cron_job", j, action)
           Told(log) == [i \in DOMAIN log |-> Event("cron_job", log[i].job, log[i].action)]
<1>1. history \in Seq(Entries) /\ audit \in Seq(Events)
    BY DEF TypeOK
<1>2. e \in Entries /\ ev \in Events /\ ev.resource = "cron_job"
    BY DEF Entries, Event, Events
<1>3. history' = Append(history, e) /\ audit' = Append(audit, ev)
    BY DEF Record
<1>4. e.job = j /\ e.action = action
    OBVIOUS
<1> HIDE DEF e, ev
<1>5. ToldOf!Replayed("cron_job", <<>>, audit') = Append(Told(history), ev)
    BY <1>1, <1>2, <1>3, ToldGrows DEF AuditMatchesHistory
<1>6. Told(history) \in Seq(Events)
  <2>1. /\ DOMAIN history = 1 .. Len(history) /\ Len(history) \in Nat
        /\ \A i \in DOMAIN history : history[i] \in Entries
      BY <1>1
  <2>2. \A x \in Entries : Event("cron_job", x.job, x.action) \in Events
      BY DEF Entries, Event, Events
  <2> QED BY <2>1, <2>2
<1>7. Told(history') = Append(Told(history), ev)
  <2>1. /\ DOMAIN history = 1 .. Len(history) /\ Len(history) \in Nat
        /\ DOMAIN history' = 1 .. Len(history) + 1
        /\ history'[Len(history) + 1] = e
        /\ \A i \in 1 .. Len(history) : history'[i] = history[i]
      BY <1>1, <1>2, <1>3
  <2>2. Len(Told(history)) = Len(history)
      BY <1>6, <2>1
  <2>3. /\ DOMAIN Append(Told(history), ev) = 1 .. Len(history) + 1
        /\ \A i \in 1 .. Len(history) : Append(Told(history), ev)[i] = Told(history)[i]
        /\ Append(Told(history), ev)[Len(history) + 1] = ev
      BY <1>2, <1>6, <2>1, <2>2, AppendProperties
  <2>4. ASSUME NEW i \in 1 .. Len(history) + 1
        PROVE  Event("cron_job", history'[i].job, history'[i].action)
                  = Append(Told(history), ev)[i]
    <3>1. CASE i = Len(history) + 1
        BY <1>4, <2>1, <2>3, <3>1 DEF ev
    <3>2. CASE i \in 1 .. Len(history)
        BY <2>1, <2>3, <3>2
    <3> QED BY <2>1, <3>1, <3>2
  <2>5. Append(Told(history), ev) \in Seq(Events)
      BY <1>2, <1>6
  <2> QED BY <2>1, <2>3, <2>4, <2>5
<1> QED BY <1>5, <1>7 DEF AuditMatchesHistory

LEMMA ScriptEventsApart ==
    ASSUME NEW log \in Seq(Events), NEW e \in Events, e.resource = "script"
    PROVE  ToldOf!Replayed("cron_job", <<>>, Append(log, e))
              = ToldOf!Replayed("cron_job", <<>>, log)
BY ToldGrows

\* An event about a job says nothing of scripts.
LEMMA JobEventsApart ==
    ASSUME TypeOK, ScriptRecordsOK, NEW e \in Events, e.resource = "cron_job",
           audit' = Append(audit, e), script' = script, origin'.script = origin.script
    PROVE  ScriptRecordsOK'
<1>1. audit \in Seq(Events)
    BY DEF TypeOK
<1>2. ASSUME NEW s \in Scripts
      PROVE  Audit!Replayed(<<"script", s>>, origin.script[s], Append(audit, e)) = script[s]
  <2>1. <<e.resource, e.id>> # <<"script", s>>
      OBVIOUS
  <2> QED BY <1>1, <2>1, AuditGrows DEF ScriptRecordsOK, ScriptsAsAudited
<1>3. \A i \in DOMAIN audit' : audit'[i].resource = "script" => script'[audit'[i].id] # NoRow
  <2>1. \A i \in DOMAIN audit' : (i \in DOMAIN audit /\ audit'[i] = audit[i]) \/ audit'[i] = e
      BY <1>1
  <2> QED BY <2>1 DEF ScriptRecordsOK
<1> QED BY <1>2, <1>3 DEF ScriptRecordsOK, ScriptsAsAudited

(***************************************************************************)
(* Scripts.  One event more about s, of which the row is there afterwards. *)
(***************************************************************************)
LEMMA ScriptEventIs ==
    ASSUME NEW s \in Scripts, NEW action \in JobActions
    PROVE  LET e == Event("script", s, action) IN
           e \in Events /\ e.resource = "script" /\ e.id = s /\ e.action = action
BY DEF Event, Events

LEMMA ScriptEventTells ==
    ASSUME NEW log \in Seq(Events), NEW e \in Events, e.resource = "script",
           NEW r, NEW first
    PROVE  Audit!Replayed(<<"script", r>>, first, Append(log, e))
              = IF r = e.id THEN ApplyEvent(Audit!Replayed(<<"script", r>>, first, log), e)
                            ELSE Audit!Replayed(<<"script", r>>, first, log)
<1>1. <<e.resource, e.id>> = <<"script", r>> <=> r = e.id
    OBVIOUS
<1>2. Audit!Replayed(<<"script", r>>, first, Append(log, e))
         = IF <<e.resource, e.id>> = <<"script", r>>
             THEN ApplyEvent(Audit!Replayed(<<"script", r>>, first, log), e)
             ELSE Audit!Replayed(<<"script", r>>, first, log)
    BY AuditGrows
<1> QED BY <1>1, <1>2

LEMMA SubjectsAfter ==
    ASSUME NEW log \in Seq(Events), NEW e \in Events, e.id \in Scripts,
           NEW table, NEW after, after[e.id] # NoRow,
           \A s \in Scripts : table[s] # NoRow => after[s] # NoRow,
           \A i \in DOMAIN log : log[i].resource = "script" =>
                                     log[i].id \in Scripts /\ table[log[i].id] # NoRow
    PROVE  \A i \in DOMAIN Append(log, e) : Append(log, e)[i].resource = "script" =>
               Append(log, e)[i].id \in Scripts /\ after[Append(log, e)[i].id] # NoRow
<1>1. \A i \in DOMAIN Append(log, e) :
          (i \in DOMAIN log /\ Append(log, e)[i] = log[i]) \/ Append(log, e)[i] = e
    OBVIOUS
<1> QED BY <1>1

LEMMA ScriptSubjects ==
    ASSUME TypeOK, ScriptRecordsOK
    PROVE  \A i \in DOMAIN audit : audit[i].resource = "script" =>
               audit[i].id \in Scripts /\ script[audit[i].id] # NoRow
<1>1. \A i \in DOMAIN audit : audit[i] \in Events
    BY DEF TypeOK
<1>2. \A e \in Events : e.resource = "script" => e.id \in Scripts
    BY DEF Events
<1> QED BY <1>1, <1>2 DEF ScriptRecordsOK

LEMMA CreateScriptRecorded ==
    ASSUME IInv, OriginOK, ScriptRecordsOK, AuditMatchesHistory,
           NEW t \in WebThreads, CreateScript(t)
    PROVE  /\ ScriptRecordsOK' /\ AuditMatchesHistory'
           /\ OriginOK' /\ origin'.job = origin.job
<1> DEFINE s == frame[t].id
           new == [enabled |-> TRUE, deleted |-> FALSE]
           e == Event("script", s, "CREATED")
<1>1. /\ script[s] = NoRow /\ script' = [script EXCEPT ![s] = new]
      /\ audit' = Append(audit, e) /\ history' = history
      /\ origin' = [origin EXCEPT !.script[s] = script'[s]]
    BY DEF CreateScript
<1>2. s \in Scripts /\ new \in ScriptRows
    BY CreateScriptIs DEF ScriptCommitted
<1>3. audit \in Seq(Events) /\ script \in [Scripts -> ScriptRows \cup {NoRow}] /\ TypeOK
    BY DEF IInv, TypeOK
<1>4. script'[s] = new /\ \A r \in Scripts \ {s} : script'[r] = script[r]
    BY <1>1, <1>2, <1>3
<1>5. new # NoRow
    BY <1>2, NoRowAssumption
<1> HIDE DEF new
<1>6. /\ origin'.script = [origin.script EXCEPT ![s] = new] /\ origin'.job = origin.job
      /\ OriginOK'
    BY <1>1, <1>4 DEF OriginOK
<1>7. /\ origin'.script \in [Scripts -> ScriptRows \cup {NoRow}]
      /\ origin'.script[s] = new /\ \A r \in Scripts \ {s} : origin'.script[r] = origin.script[r]
    BY <1>2, <1>6 DEF ScriptRecordsOK
<1>8. "CREATED" \in JobActions
    BY DEF JobActions
<1>9. e \in Events /\ e.resource = "script" /\ e.id = s /\ e.action = "CREATED"
    BY <1>2, <1>8, ScriptEventIs
<1>10. \A i \in DOMAIN audit : audit[i].resource = "script" =>
           audit[i].id \in Scripts /\ script[audit[i].id] # NoRow
    BY <1>3, ScriptSubjects
<1>11. Audit!Replayed(<<"script", s>>, new, audit) = new
  <2>1. \A i \in DOMAIN audit : <<audit[i].resource, audit[i].id>> # <<"script", s>>
      BY <1>1, <1>10
  <2> QED BY <1>3, <2>1, AuditOfOthers
<1>12. ApplyEvent(new, e) = new
    BY <1>9 DEF ApplyEvent
<1> HIDE DEF e, s
<1>13. \A r \in Scripts : script'[r] = Audit!Replayed(<<"script", r>>, origin'.script[r], audit')
  <2>1. \A r \in Scripts : script'[r] = Audit!Replayed(<<"script", r>>, origin'.script[r], audit)
      BY <1>4, <1>7, <1>11 DEF ScriptRecordsOK, ScriptsAsAudited
  <2>2. \A r \in Scripts : script'[r] = IF r = e.id THEN ApplyEvent(script'[r], e) ELSE script'[r]
      BY <1>4, <1>9, <1>12
  <2>3. ASSUME NEW r \in Scripts
        PROVE  script'[r] = Audit!Replayed(<<"script", r>>, origin'.script[r], Append(audit, e))
    <3>1. audit \in Seq(Events) /\ e \in Events /\ e.resource = "script"
        BY <1>3, <1>9
    <3>2. Audit!Replayed(<<"script", r>>, origin'.script[r], Append(audit, e))
             = IF r = e.id THEN ApplyEvent(Audit!Replayed(<<"script", r>>, origin'.script[r], audit), e)
                           ELSE Audit!Replayed(<<"script", r>>, origin'.script[r], audit)
        BY <3>1, ScriptEventTells
    <3> QED BY <2>1, <2>2, <3>2
  <2> QED BY <2>3, <1>1
<1>14. \A i \in DOMAIN audit' : audit'[i].resource = "script" => script'[audit'[i].id] # NoRow
  <2>1. \A r \in Scripts : script[r] # NoRow => script'[r] # NoRow
      BY <1>4, <1>5
  <2>2. script'[e.id] # NoRow /\ e.id \in Scripts
      BY <1>2, <1>4, <1>5, <1>9
  <2> QED BY <1>1, <1>3, <1>9, <1>10, <2>1, <2>2, SubjectsAfter
<1>15. AuditMatchesHistory'
    BY <1>1, <1>3, <1>9, ScriptEventsApart DEF AuditMatchesHistory
<1> QED BY <1>6, <1>7, <1>13, <1>14, <1>15 DEF ScriptRecordsOK, ScriptsAsAudited

LEMMA DeleteScriptRecorded ==
    ASSUME IInv, OriginOK, ScriptRecordsOK, AuditMatchesHistory,
           NEW t \in WebThreads, DeleteScript(t)
    PROVE  ScriptRecordsOK' /\ AuditMatchesHistory'
<1> DEFINE s == frame[t].id
           new == [script[s] EXCEPT !.deleted = TRUE]
           e == Event("script", s, "DELETED")
<1>1. /\ audit' = Append(audit, e) /\ history' = history /\ origin' = origin
    BY DEF DeleteScript
<1>2. s \in Scripts /\ new \in ScriptRows /\ script' = [script EXCEPT ![s] = new]
    BY DeleteScriptIs DEF ScriptCommitted
<1>3. audit \in Seq(Events) /\ script \in [Scripts -> ScriptRows \cup {NoRow}] /\ TypeOK
    BY DEF IInv, TypeOK
<1>4. script'[s] = new /\ \A r \in Scripts \ {s} : script'[r] = script[r]
    BY <1>2, <1>3
<1>5. new # NoRow
    BY <1>2, NoRowAssumption
<1>6. "DELETED" \in JobActions
    BY DEF JobActions
<1>7. e \in Events /\ e.resource = "script" /\ e.id = s /\ e.action = "DELETED"
    BY <1>2, <1>6, ScriptEventIs
<1>8. \A i \in DOMAIN audit : audit[i].resource = "script" =>
           audit[i].id \in Scripts /\ script[audit[i].id] # NoRow
    BY <1>3, ScriptSubjects
<1>9. new = ApplyEvent(script[s], e)
    BY <1>7 DEF ApplyEvent
<1> HIDE DEF e, s, new
<1>10. \A r \in Scripts : script'[r] = Audit!Replayed(<<"script", r>>, origin'.script[r], audit')
  <2>1. \A r \in Scripts : script[r] = Audit!Replayed(<<"script", r>>, origin.script[r], audit)
      BY DEF ScriptRecordsOK, ScriptsAsAudited
  <2>2. \A r \in Scripts : script'[r] = IF r = e.id THEN ApplyEvent(script[r], e) ELSE script[r]
      BY <1>4, <1>7, <1>9
  <2>3. ASSUME NEW r \in Scripts
        PROVE  script'[r] = Audit!Replayed(<<"script", r>>, origin.script[r], Append(audit, e))
    <3>1. audit \in Seq(Events) /\ e \in Events /\ e.resource = "script"
        BY <1>3, <1>7
    <3>2. Audit!Replayed(<<"script", r>>, origin.script[r], Append(audit, e))
             = IF r = e.id THEN ApplyEvent(Audit!Replayed(<<"script", r>>, origin.script[r], audit), e)
                           ELSE Audit!Replayed(<<"script", r>>, origin.script[r], audit)
        BY <3>1, ScriptEventTells
    <3> QED BY <2>1, <2>2, <3>2
  <2> QED BY <2>3, <1>1
<1>11. \A i \in DOMAIN audit' : audit'[i].resource = "script" => script'[audit'[i].id] # NoRow
  <2>1. \A r \in Scripts : script[r] # NoRow => script'[r] # NoRow
      BY <1>4, <1>5
  <2>2. script'[e.id] # NoRow /\ e.id \in Scripts
      BY <1>2, <1>4, <1>5, <1>7
  <2> QED BY <1>1, <1>3, <1>7, <1>8, <2>1, <2>2, SubjectsAfter
<1>12. AuditMatchesHistory'
    BY <1>1, <1>3, <1>7, ScriptEventsApart DEF AuditMatchesHistory
<1> QED BY <1>1, <1>10, <1>11, <1>12 DEF ScriptRecordsOK, ScriptsAsAudited

LEMMA UpdateScriptRecorded ==
    ASSUME IInv, OriginOK, ScriptRecordsOK, AuditMatchesHistory,
           NEW t \in WebThreads, UpdateScript(t)
    PROVE  ScriptRecordsOK' /\ AuditMatchesHistory'
<1> DEFINE f == frame[t]
           s == f.id
           new == WriteScript(f, script[s])
           e1 == Event("script", s, "UPDATED")
           e2 == Event("script", s, StatusAction(f.flag))
           mid == Append(audit, e1)
<1>1. /\ audit' = mid \o IF ChangesEnabled(f) THEN <<e2>> ELSE <<>>
      /\ history' = history /\ origin' = origin
    BY DEF UpdateScript
<1>2. /\ s \in Scripts /\ new \in ScriptRows /\ script' = [script EXCEPT ![s] = new]
      /\ script[s] \in ScriptRows
    BY UpdateScriptIs DEF ScriptCommitted
<1>3. /\ audit \in Seq(Events) /\ script \in [Scripts -> ScriptRows \cup {NoRow}] /\ TypeOK
      /\ f \in Frames
    BY DEF IInv, TypeOK
<1>4. script'[s] = new /\ \A r \in Scripts \ {s} : script'[r] = script[r]
    BY <1>2, <1>3
<1>5. new # NoRow
    BY <1>2, NoRowAssumption
<1>6. "UPDATED" \in JobActions /\ StatusAction(f.flag) \in JobActions
    BY DEF JobActions, StatusAction
<1>7. e1 \in Events /\ e1.resource = "script" /\ e1.id = s /\ e1.action = "UPDATED"
    BY <1>2, <1>6, ScriptEventIs
<1>8. \A i \in DOMAIN audit : audit[i].resource = "script" =>
           audit[i].id \in Scripts /\ script[audit[i].id] # NoRow
    BY <1>3, ScriptSubjects
<1>9. /\ \A r \in Scripts : script[r] # NoRow => script'[r] # NoRow
      /\ script'[s] # NoRow
    BY <1>4, <1>5
<1>10. ApplyEvent(script[s], e1) = script[s]
    BY <1>7 DEF ApplyEvent
<1> HIDE DEF e1
<1>11. mid \in Seq(Events)
    BY <1>3, <1>7
<1>12. \A r \in Scripts : script[r] = Audit!Replayed(<<"script", r>>, origin.script[r], mid)
  <2>1. \A r \in Scripts : script[r] = Audit!Replayed(<<"script", r>>, origin.script[r], audit)
      BY DEF ScriptRecordsOK, ScriptsAsAudited
  <2>2. \A r \in Scripts : script[r] = IF r = e1.id THEN ApplyEvent(script[r], e1) ELSE script[r]
      BY <1>7, <1>10
  <2>3. ASSUME NEW r \in Scripts
        PROVE  script[r] = Audit!Replayed(<<"script", r>>, origin.script[r], Append(audit, e1))
    <3>1. audit \in Seq(Events) /\ e1 \in Events /\ e1.resource = "script"
        BY <1>3, <1>7
    <3>2. Audit!Replayed(<<"script", r>>, origin.script[r], Append(audit, e1))
             = IF r = e1.id THEN ApplyEvent(Audit!Replayed(<<"script", r>>, origin.script[r], audit), e1)
                           ELSE Audit!Replayed(<<"script", r>>, origin.script[r], audit)
        BY <3>1, ScriptEventTells
    <3> QED BY <2>1, <2>2, <3>2
  <2> QED BY <2>3 DEF mid
<1> HIDE DEF mid
<1>13. \A i \in DOMAIN mid : mid[i].resource = "script" =>
           mid[i].id \in Scripts /\ script'[mid[i].id] # NoRow
    BY <1>2, <1>3, <1>7, <1>8, <1>9, SubjectsAfter DEF mid
<1>16. ToldOf!Replayed("cron_job", <<>>, mid) = ToldOf!Replayed("cron_job", <<>>, audit)
    BY <1>3, <1>7, ScriptEventsApart DEF mid
<1>17. CASE ~ChangesEnabled(f)
  <2>1. audit' = mid
      BY <1>1, <1>11, <1>17, ConcatEmptySeq
  <2>2. new = script[s]
      BY <1>17 DEF WriteScript
  <2>3. \A r \in Scripts : script'[r] = Audit!Replayed(<<"script", r>>, origin'.script[r], audit')
      BY <1>1, <1>4, <1>12, <2>1, <2>2
  <2>4. AuditMatchesHistory'
      BY <1>1, <1>16, <2>1 DEF AuditMatchesHistory
  <2> QED BY <1>1, <1>13, <2>1, <2>3, <2>4 DEF ScriptRecordsOK, ScriptsAsAudited
<1>18. CASE ChangesEnabled(f)
  <2>1. f.flag \in BOOLEAN
      BY <1>3, <1>18 DEF ChangesEnabled, Frames
  <2>2. e2 \in Events /\ e2.resource = "script" /\ e2.id = s /\ e2.action = StatusAction(f.flag)
      BY <1>2, <1>6, ScriptEventIs
  <2>3. new = [script[s] EXCEPT !.enabled = f.flag]
      BY <1>18 DEF WriteScript
  <2> HIDE DEF e2
  <2>4. audit' = Append(mid, e2)
      BY <1>1, <1>11, <1>18, <2>2, AppendIsConcat
  <2>5. ApplyEvent(script[s], e2) = new
    <3>1. CASE f.flag = TRUE
        BY <2>2, <2>3, <3>1 DEF ApplyEvent, StatusAction
    <3>2. CASE f.flag = FALSE
        BY <2>2, <2>3, <3>2 DEF ApplyEvent, StatusAction
    <3> QED BY <2>1, <3>1, <3>2
  <2>6. \A r \in Scripts : script'[r] = Audit!Replayed(<<"script", r>>, origin'.script[r], audit')
    <3>1. \A r \in Scripts : script'[r] = IF r = e2.id THEN ApplyEvent(script[r], e2) ELSE script[r]
        BY <1>4, <2>2, <2>5
    <3>2. ASSUME NEW r \in Scripts
          PROVE  script'[r] = Audit!Replayed(<<"script", r>>, origin.script[r], Append(mid, e2))
      <4>1. e2 \in Events /\ e2.resource = "script"
          BY <2>2
      <4>2. Audit!Replayed(<<"script", r>>, origin.script[r], Append(mid, e2))
               = IF r = e2.id THEN ApplyEvent(Audit!Replayed(<<"script", r>>, origin.script[r], mid), e2)
                              ELSE Audit!Replayed(<<"script", r>>, origin.script[r], mid)
          BY <1>11, <4>1, ScriptEventTells
      <4> QED BY <1>12, <3>1, <4>2
    <3> QED BY <1>1, <2>4, <3>2
  <2>7. AuditMatchesHistory'
      BY <1>1, <1>11, <1>16, <2>2, <2>4, ScriptEventsApart DEF AuditMatchesHistory
  <2>8. \A i \in DOMAIN audit' : audit'[i].resource = "script" => script'[audit'[i].id] # NoRow
      BY <1>2, <1>9, <1>11, <1>13, <2>2, <2>4, SubjectsAfter
  <2> QED BY <1>1, <2>6, <2>7, <2>8 DEF ScriptRecordsOK, ScriptsAsAudited
<1> QED BY <1>17, <1>18

-----------------------------------------------------------------------------
LEMMA RecordsInit == Init => RecordsOK
<1> SUFFICES ASSUME Init
             PROVE  RecordsOK
    OBVIOUS
<1>1. history = <<>> /\ audit = <<>> /\ origin = [job |-> job, script |-> script]
    BY DEF Init
<1>2. /\ job \in [Ids -> JobRows \cup {NoRow}]
      /\ script \in [Scripts -> ScriptRows \cup {NoRow}]
    BY InitOK DEF IInv, TypeOK
<1>3. OriginOK
    BY <1>1 DEF OriginOK
<1>4. \A j \in Ids : Replayed(j) = job[j]
    BY <1>1, NothingReplayed DEF Replayed
<1>5. JobRecordsOK
    BY <1>1, <1>2, <1>4 DEF JobRecordsOK, HistoryReplaysToRow
<1>6. AuditMatchesHistory
  <2>1. DOMAIN history = {}
      BY <1>1
  <2>2. [i \in DOMAIN history |-> Event("cron_job", history[i].job, history[i].action)] = <<>>
      BY <2>1
  <2> QED BY <1>1, <2>2, NothingReplayed DEF AuditMatchesHistory
<1>7. ScriptRecordsOK
    BY <1>1, <1>2, NothingReplayed DEF ScriptRecordsOK, ScriptsAsAudited
<1> QED BY <1>3, <1>5, <1>6, <1>7 DEF RecordsOK

LEMMA RecordsStep == IInv /\ RecordsOK /\ [Next]_vars => RecordsOK'
<1> SUFFICES ASSUME IInv, RecordsOK, [Next]_vars
             PROVE  RecordsOK'
    OBVIOUS
<1>1. OriginOK /\ JobRecordsOK /\ AuditMatchesHistory /\ ScriptRecordsOK /\ TypeOK
    BY DEF RecordsOK, IInv
<1>2. ASSUME UNCHANGED <<database, origin>>
      PROVE  RecordsOK'
  <2>1. /\ job' = job /\ script' = script /\ history' = history /\ audit' = audit
        /\ origin' = origin
      BY <1>2 DEF database
  <2>2. OriginOK' /\ AuditMatchesHistory' /\ ScriptRecordsOK'
      BY <1>1, <2>1 DEF OriginOK, AuditMatchesHistory, ScriptRecordsOK, ScriptsAsAudited
  <2>3. JobRecordsOK'
      BY <1>1, <2>1 DEF JobRecordsOK, HistoryReplaysToRow, Replayed, Alive
  <2> QED BY <2>2, <2>3 DEF RecordsOK
<1>3. ASSUME NEW t \in WebThreads,
             \/ RequestCreate(t) \/ RequestUpdate(t) \/ RequestStatus(t) \/ RequestDelete(t)
             \/ RequestScript(t) \/ LoadJob(t) \/ LoadScript(t) \/ ValidateScriptReference(t)
             \/ CheckUnused(t) \/ Abandon(t)
      PROVE  RecordsOK'
    BY <1>2, <1>3 DEF RequestCreate, RequestUpdate, RequestStatus, RequestDelete, RequestScript,
                      Arrive, LoadJob, LoadScript, ValidateScriptReference, CheckUnused, Abandon
<1>4. ASSUME NEW t \in WebThreads,
             CreateJob(t) \/ UpdateJob(t) \/ UpdateStatus(t) \/ DeleteJob(t)
      PROVE  RecordsOK'
  <2>1. JobRecordsOK' /\ OriginOK' /\ origin'.script = origin.script
      BY <1>1, <1>4, CreateRecorded, UpdateRecorded, StatusRecorded, DeleteRecorded
  <2>2. PICK j, new, action, changes : JobCommitted(t, j, new, action, changes)
    <3>1. CASE CreateJob(t)
        BY <3>1, CreateIs
    <3>2. CASE UpdateJob(t)
        BY <3>2, UpdateIs
    <3>3. CASE UpdateStatus(t)
        BY <3>3, StatusIs
    <3>4. CASE DeleteJob(t)
        BY <3>4, DeleteIs
    <3> QED BY <1>4, <3>1, <3>2, <3>3, <3>4
  <2>3. /\ j \in Ids /\ action \in JobActions /\ changes \in Diffs
        /\ Record(j, action, changes) /\ script' = script
      BY <2>2 DEF JobCommitted
  <2>4. AuditMatchesHistory'
      BY <1>1, <2>3, JobEventsMatch
  <2>5. /\ Event("cron_job", j, action) \in Events
        /\ Event("cron_job", j, action).resource = "cron_job"
        /\ audit' = Append(audit, Event("cron_job", j, action))
      BY <2>3 DEF Record, Event, Events
  <2>6. ScriptRecordsOK'
      BY <1>1, <2>1, <2>3, <2>5, JobEventsApart
  <2> QED BY <2>1, <2>4, <2>6 DEF RecordsOK
<1>5. ASSUME NEW t \in WebThreads, CreateScript(t) \/ UpdateScript(t) \/ DeleteScript(t)
      PROVE  RecordsOK'
  <2>1. ScriptRecordsOK' /\ AuditMatchesHistory'
      BY <1>1, <1>5, CreateScriptRecorded, UpdateScriptRecorded, DeleteScriptRecorded
  <2>2. OriginOK' /\ origin'.job = origin.job
    <3>1. CASE CreateScript(t)
        BY <1>1, <3>1, CreateScriptRecorded
    <3>2. CASE UpdateScript(t) \/ DeleteScript(t)
        BY <1>1, <3>2 DEF UpdateScript, DeleteScript, OriginOK
    <3> QED BY <1>5, <3>1, <3>2
  <2>3. job' = job /\ history' = history
      BY <1>5 DEF CreateScript, UpdateScript, DeleteScript
  <2>4. JobRecordsOK'
      BY <1>1, <2>2, <2>3 DEF JobRecordsOK, HistoryReplaysToRow, Replayed, Alive
  <2> QED BY <2>1, <2>2, <2>4 DEF RecordsOK
<1>6. CASE UNCHANGED vars
    BY <1>2, <1>6 DEF vars
<1> QED BY <1>3, <1>4, <1>5, <1>6 DEF Next

LEMMA RecordsInvariant == Spec => []RecordsOK
    BY Invariant, RecordsInit, RecordsStep, PTL DEF Spec

\* For any number of threads, jobs and requests, the history of a job, replayed
\* on its first row, gives the columns of the row that it tells of, the expression
\* among them: no update is lost under a session's stale copy, and none goes
\* unrecorded (update_cron_job, update_job_status, delete_cron_job and
\* _record_history).  It says nothing of the columns derived from the expression.
THEOREM HistoryTellsTheRow == Spec => []HistoryReplaysToRow
<1>1. RecordsOK => HistoryReplaysToRow
    BY DEF RecordsOK, JobRecordsOK
<1> QED BY <1>1, RecordsInvariant, PTL

\* The two records of a job, cron_job_history and audit_logs, never disagree on
\* which operations there were and in which order (_record_history and
\* record_event in one transaction).
THEOREM RecordsAgree == Spec => []AuditMatchesHistory
<1>1. RecordsOK => AuditMatchesHistory
    BY DEF RecordsOK
<1> QED BY <1>1, RecordsInvariant, PTL

\* The audit trail of a script, replayed on its first row, gives the row
\* (create_script, update_script and delete_script).
THEOREM AuditTellsTheScript == Spec => []ScriptsAsAudited
<1>1. RecordsOK => ScriptsAsAudited
    BY DEF RecordsOK, ScriptRecordsOK
<1> QED BY <1>1, RecordsInvariant, PTL

=============================================================================
