----------------------- MODULE ExecutionEngineProofs -----------------------
(***************************************************************************)
(* Theorems of ExecutionEngine, for any number of jobs, scripts and        *)
(* threads and for any bounds.                                             *)
(***************************************************************************)
EXTENDS ExecutionEngine, FiniteSetTheorems, SequenceTheorems, TLAPS

(***************************************************************************)
(* What a thread's stage says about its local variables.                   *)
(***************************************************************************)
FramesOK ==
    \A t \in Threads :
        /\ pc[t] = "idle" => frame[t] = IdleFrame
        /\ pc[t] # "idle" => frame[t].job \in Jobs
        /\ pc[t] \in {"start", "launch", "running"} => frame[t].script \in Scripts
        /\ pc[t] = "running" => frame[t].result \in Results
        /\ pc[t] = "skip" => frame[t].reason \in SkipReasons \ {"paused"}
        /\ t \in SchedThreads /\ pc[t] \in {"check", "reread", "resolve"} => frame[t].active
        /\ pc[t] \in {"load", "check", "reread", "skip"} => t \in SchedThreads
        /\ frame[t].run # 0 <=> pc[t] \in {"launch", "running"}

(***************************************************************************)
(* APScheduler's counter of a job is exactly the number of pool threads    *)
(* that handle the job, and never more than one.                           *)
(***************************************************************************)
SlotsOK ==
    /\ \A j \in Jobs : instances[j] \in {0, 1}
    /\ \A t \in SchedThreads : pc[t] # "idle" => instances[frame[t].job] = 1
    /\ \A t, u \in SchedThreads :
          pc[t] # "idle" /\ pc[u] # "idle" /\ frame[t].job = frame[u].job => t = u

CallsOK == TypeOK /\ FramesOK /\ SlotsOK

LEMMA IdleFrameType == IdleFrame \in Frames
BY DEF IdleFrame, Frames, NoResult

LEMMA FinalStatusOfResult ==
    \A r \in Results : StatusOf(r) \in FinalStatuses /\ FinalActionOf(StatusOf(r)) \in AuditActions
BY DEF Results, StatusOf, FinalStatuses, FinalActionOf, AuditActions

LEMMA CallsInit == Init => CallsOK
<1> SUFFICES ASSUME Init PROVE CallsOK
    OBVIOUS
<1>1. TypeOK
  <2>1. /\ jobRow \in [Jobs -> JobRows]
        /\ scriptRow \in [Scripts -> ScriptRows]
        /\ file \in [Scripts -> FileStates]
      BY DEF Init, JobRows, ScriptRows, FileStates
  <2>2. executions \in Seq(ExecutionRows) /\ trail \in Seq(Seq(AuditActions))
      BY DEF Init
  <2>3. skips \in [Jobs -> [SkipReasons -> Nat]]
      BY DEF Init
  <2>4. discarded \in [Jobs -> [DiscardCauses -> Nat]]
      BY DEF Init
  <2>5. pc \in [Threads -> Stages] /\ frame \in [Threads -> Frames]
      BY IdleFrameType DEF Init, Stages
  <2>6. /\ instances \in [Jobs -> Nat]
        /\ fired \in [Jobs -> Nat]
        /\ used \in [requests : Nat, edits : Nat, faults : Nat]
      BY DEF Init
  <2> QED BY <2>1, <2>2, <2>3, <2>4, <2>5, <2>6 DEF TypeOK
<1>2. FramesOK
    BY DEF Init, FramesOK, IdleFrame
<1>3. SlotsOK
    BY DEF Init, SlotsOK, Threads
<1> QED BY <1>1, <1>2, <1>3 DEF CallsOK

(***************************************************************************)
(* A call that goes on keeps its job and its slot.                         *)
(***************************************************************************)
LEMMA GotoCalls ==
    ASSUME CallsOK,
           NEW t \in Threads, pc[t] # "idle",
           NEW stage \in Stages \ {"idle"}, NEW local \in Frames,
           Goto(t, stage, local), local.job = frame[t].job,
           stage \in {"start", "launch", "running"} => local.script \in Scripts,
           stage = "running" => local.result \in Results,
           stage = "skip" => local.reason \in SkipReasons \ {"paused"},
           t \in SchedThreads /\ stage \in {"check", "reread", "resolve"} => local.active,
           stage \in {"load", "check", "reread", "skip"} => t \in SchedThreads,
           local.run # 0 <=> stage \in {"launch", "running"}
    PROVE  /\ pc' \in [Threads -> Stages]
           /\ frame' \in [Threads -> Frames]
           /\ instances' \in [Jobs -> Nat]
           /\ fired' \in [Jobs -> Nat]
           /\ discarded' \in [Jobs -> [DiscardCauses -> Nat]]
           /\ used' \in [requests : Nat, edits : Nat, faults : Nat]
           /\ FramesOK'
           /\ SlotsOK'
<1> USE DEF CallsOK
<1>1. /\ pc' \in [Threads -> Stages]
      /\ frame' \in [Threads -> Frames]
    BY DEF Goto, TypeOK
<1>2. /\ instances' \in [Jobs -> Nat]
      /\ fired' \in [Jobs -> Nat]
      /\ discarded' \in [Jobs -> [DiscardCauses -> Nat]]
      /\ used' \in [requests : Nat, edits : Nat, faults : Nat]
    BY DEF Goto, TypeOK
<1>3. \A u \in Threads : /\ pc'[u] = IF u = t THEN stage ELSE pc[u]
                         /\ frame'[u] = IF u = t THEN local ELSE frame[u]
    BY DEF Goto, TypeOK
<1>4. FramesOK'
    BY <1>3 DEF FramesOK
<1>5. SlotsOK'
    BY <1>3 DEF SlotsOK, Goto, Threads
<1> QED BY <1>1, <1>2, <1>4, <1>5

(***************************************************************************)
(* A call that ends frees its slot.                                        *)
(***************************************************************************)
LEMMA ReturnCalls ==
    ASSUME CallsOK,
           NEW t \in Threads, pc[t] # "idle", Return(t)
    PROVE  /\ pc' \in [Threads -> Stages]
           /\ frame' \in [Threads -> Frames]
           /\ instances' \in [Jobs -> Nat]
           /\ FramesOK'
           /\ SlotsOK'
<1> USE DEF CallsOK
<1>1. /\ pc' \in [Threads -> Stages]
      /\ frame' \in [Threads -> Frames]
    BY IdleFrameType DEF Return, TypeOK, Stages
<1>2. \A u \in Threads : /\ pc'[u] = IF u = t THEN "idle" ELSE pc[u]
                         /\ frame'[u] = IF u = t THEN IdleFrame ELSE frame[u]
    BY DEF Return, TypeOK
<1>3. frame[t].job \in Jobs
    BY DEF FramesOK
<1>4. \A j \in Jobs : instances'[j] = IF t \in SchedThreads /\ j = frame[t].job
                                      THEN 0 ELSE instances[j]
    BY <1>3 DEF Return, TypeOK, SlotsOK
<1>5. instances' \in [Jobs -> Nat]
  <2>1. CASE t \in SchedThreads
    <3>1. instances[frame[t].job] = 1
        BY <2>1 DEF SlotsOK
    <3> QED BY <1>3, <2>1, <3>1 DEF Return, TypeOK
  <2>2. CASE t \notin SchedThreads
      BY <2>2 DEF Return, TypeOK
  <2> QED BY <2>1, <2>2
<1>6. FramesOK'
  <2>1. IdleFrame.run = 0
      BY DEF IdleFrame
  <2>2. pc'[t] = "idle" /\ frame'[t] = IdleFrame
      BY <1>2
  <2> QED BY <1>2, <2>1, <2>2 DEF FramesOK
<1>7. SlotsOK'
  <2>1. \A j \in Jobs : instances'[j] \in {0, 1}
      BY <1>4 DEF SlotsOK
  <2>2. ASSUME NEW u \in SchedThreads, pc'[u] # "idle"
        PROVE  instances'[frame'[u].job] = 1
    <3>1. u # t /\ pc[u] # "idle" /\ frame'[u] = frame[u]
        BY <2>2, <1>2 DEF Threads
    <3>2. frame[u].job \in Jobs /\ instances[frame[u].job] = 1
        BY <3>1 DEF FramesOK, SlotsOK, Threads
    <3>3. t \in SchedThreads => frame[u].job # frame[t].job
        BY <3>1 DEF SlotsOK
    <3> QED BY <3>1, <3>2, <3>3, <1>4
  <2>3. \A u, v \in SchedThreads :
           pc'[u] # "idle" /\ pc'[v] # "idle" /\ frame'[u].job = frame'[v].job => u = v
      BY <1>2 DEF SlotsOK, Threads
  <2> QED BY <2>1, <2>2, <2>3 DEF SlotsOK
<1> QED BY <1>1, <1>5, <1>6, <1>7

-----------------------------------------------------------------------------
(***************************************************************************)
(* One lemma per action: CallsOK is preserved.                             *)
(***************************************************************************)
DatabaseTypes ==
    /\ jobRow \in [Jobs -> JobRows]
    /\ scriptRow \in [Scripts -> ScriptRows]
    /\ file \in [Scripts -> FileStates]
    /\ executions \in Seq(ExecutionRows)
    /\ trail \in Seq(Seq(AuditActions))
    /\ skips \in [Jobs -> [SkipReasons -> Nat]]

LEMMA SameDatabaseTypes == CallsOK /\ UNCHANGED database => DatabaseTypes'
BY DEF CallsOK, TypeOK, database, DatabaseTypes

LEMMA DiscardType ==
    ASSUME CallsOK, NEW j \in Jobs, NEW cause \in DiscardCauses, Discard(j, cause)
    PROVE  discarded' \in [Jobs -> [DiscardCauses -> Nat]]
<1>1. discarded \in [Jobs -> [DiscardCauses -> Nat]]
    BY DEF CallsOK, TypeOK
<1>2. discarded[j] \in [DiscardCauses -> Nat]
    BY <1>1
<1>3. [discarded[j] EXCEPT ![cause] = @ + 1] \in [DiscardCauses -> Nat]
    BY <1>2
<1> QED BY <1>1, <1>3 DEF Discard

LEMMA GiveUpCalls ==
    ASSUME CallsOK, NEW t \in Threads, pc[t] # "idle",
           NEW cause \in DiscardCauses, GiveUp(t, cause)
    PROVE  CallsOK'
<1>1. DatabaseTypes'
    BY SameDatabaseTypes DEF GiveUp
<1>2. frame[t].job \in Jobs
    BY DEF CallsOK, FramesOK
<1>3. discarded' \in [Jobs -> [DiscardCauses -> Nat]]
    BY <1>2, DiscardType DEF GiveUp, CallsOK, TypeOK
<1>4. fired' \in [Jobs -> Nat] /\ used' \in [requests : Nat, edits : Nat, faults : Nat]
    BY DEF GiveUp, CallsOK, TypeOK
<1> QED BY <1>1, <1>3, <1>4, ReturnCalls DEF GiveUp, CallsOK, TypeOK, DatabaseTypes

LEMMA GoSkipCalls ==
    ASSUME CallsOK, NEW t \in SchedThreads, pc[t] \notin {"idle", "launch", "running"},
           NEW reason \in SkipReasons \ {"paused"}, GoSkip(t, reason), UNCHANGED database
    PROVE  CallsOK'
<1> DEFINE local == [frame[t] EXCEPT !.reason = reason]
<1>1. t \in Threads /\ frame[t] \in Frames /\ frame[t].run = 0
    BY DEF Threads, CallsOK, TypeOK, FramesOK
<1>2. /\ local \in Frames
      /\ local.job = frame[t].job
      /\ local.reason = reason
      /\ local.run = 0
    BY <1>1 DEF Frames
<1>3. Goto(t, "skip", local) /\ "skip" \in Stages \ {"idle"}
    BY DEF GoSkip, Stages
<1> HIDE DEF local
<1>4. /\ pc' \in [Threads -> Stages]
      /\ frame' \in [Threads -> Frames]
      /\ instances' \in [Jobs -> Nat]
      /\ fired' \in [Jobs -> Nat]
      /\ discarded' \in [Jobs -> [DiscardCauses -> Nat]]
      /\ used' \in [requests : Nat, edits : Nat, faults : Nat]
      /\ FramesOK'
      /\ SlotsOK'
    BY <1>1, <1>2, <1>3, GotoCalls
<1> QED BY <1>4, SameDatabaseTypes DEF CallsOK, TypeOK, DatabaseTypes

LEMMA GotoStageCalls ==
    ASSUME CallsOK, NEW t \in Threads, pc[t] # "idle",
           NEW stage \in {"check", "reread", "resolve", "start", "launch", "running"},
           NEW local \in Frames,
           Goto(t, stage, local), local.job = frame[t].job,
           stage \in {"start", "launch", "running"} => local.script \in Scripts,
           stage = "running" => local.result \in Results,
           t \in SchedThreads /\ stage \in {"check", "reread", "resolve"} => local.active,
           stage \in {"check", "reread"} => t \in SchedThreads,
           local.run # 0 <=> stage \in {"launch", "running"},
           DatabaseTypes'
    PROVE  CallsOK'
<1>1. stage \in Stages \ {"idle"} /\ stage # "skip" /\ stage # "load"
    BY DEF Stages
<1>2. /\ pc' \in [Threads -> Stages]
      /\ frame' \in [Threads -> Frames]
      /\ instances' \in [Jobs -> Nat]
      /\ fired' \in [Jobs -> Nat]
      /\ discarded' \in [Jobs -> [DiscardCauses -> Nat]]
      /\ used' \in [requests : Nat, edits : Nat, faults : Nat]
      /\ FramesOK'
      /\ SlotsOK'
    BY <1>1, GotoCalls
<1> QED BY <1>2 DEF CallsOK, TypeOK, DatabaseTypes

LEMMA BeginCalls ==
    ASSUME CallsOK, NEW t \in Threads, pc[t] = "idle",
           NEW stage \in {"load", "resolve"}, NEW local \in Frames,
           pc' = [pc EXCEPT ![t] = stage],
           frame' = [frame EXCEPT ![t] = local],
           local.job \in Jobs, local.run = 0,
           stage = "load" => t \in SchedThreads,
           stage = "resolve" => t \in WebThreads,
           t \in SchedThreads => instances[local.job] < 1,
           t \in SchedThreads => instances' = [instances EXCEPT ![local.job] = @ + 1],
           t \notin SchedThreads => instances' = instances
    PROVE  /\ pc' \in [Threads -> Stages]
           /\ frame' \in [Threads -> Frames]
           /\ instances' \in [Jobs -> Nat]
           /\ FramesOK'
           /\ SlotsOK'
<1>1. /\ pc \in [Threads -> Stages]
      /\ frame \in [Threads -> Frames]
      /\ instances \in [Jobs -> Nat]
    BY DEF CallsOK, TypeOK
<1>2. FramesOK /\ SlotsOK
    BY DEF CallsOK
<1>3. stage \in Stages
    BY DEF Stages
<1>4. pc' \in [Threads -> Stages]
    BY <1>1, <1>3
<1>5. frame' \in [Threads -> Frames]
    BY <1>1
<1>6. instances' \in [Jobs -> Nat]
    BY <1>1
<1>7. \A u \in Threads : /\ pc'[u] = IF u = t THEN stage ELSE pc[u]
                         /\ frame'[u] = IF u = t THEN local ELSE frame[u]
    BY <1>1
<1>8. FramesOK'
    BY <1>2, <1>7, ThreadsAssumption DEF FramesOK
<1>9. CASE t \in SchedThreads
  <2>1. instances[local.job] = 0
      BY <1>2, <1>9 DEF SlotsOK
  <2>2. \A j \in Jobs : instances'[j] = IF j = local.job THEN 1 ELSE instances[j]
      BY <1>1, <1>9, <2>1
  <2>3. \A j \in Jobs : instances'[j] \in {0, 1}
      BY <1>2, <2>2 DEF SlotsOK
  <2>4. ASSUME NEW u \in SchedThreads, pc[u] # "idle"
        PROVE  /\ frame[u].job \in Jobs
               /\ frame[u].job # local.job
               /\ instances[frame[u].job] = 1
      BY <1>2, <2>1, <2>4 DEF SlotsOK, FramesOK, Threads
  <2>5. ASSUME NEW u \in SchedThreads
        PROVE  /\ u # t => pc'[u] = pc[u] /\ frame'[u] = frame[u]
               /\ u = t => frame'[u] = local
      BY <1>7 DEF Threads
  <2>6. ASSUME NEW u \in SchedThreads, pc'[u] # "idle"
        PROVE  instances'[frame'[u].job] = 1
    <3>1. CASE u = t
        BY <2>2, <2>5, <3>1
    <3>2. CASE u # t
      <4>1. pc[u] # "idle" /\ frame'[u] = frame[u]
          BY <2>5, <2>6, <3>2
      <4>2. frame[u].job \in Jobs /\ frame[u].job # local.job /\ instances[frame[u].job] = 1
          BY <2>4, <4>1
      <4> QED BY <2>2, <4>1, <4>2
    <3> QED BY <3>1, <3>2
  <2>7. ASSUME NEW u \in SchedThreads, NEW v \in SchedThreads,
               pc'[u] # "idle", pc'[v] # "idle", frame'[u].job = frame'[v].job
        PROVE  u = v
    <3>1. CASE u # t /\ v # t
        BY <1>2, <2>5, <2>7, <3>1 DEF SlotsOK
    <3>2. CASE u = t /\ v # t
        BY <2>4, <2>5, <2>7, <3>2
    <3>3. CASE u # t /\ v = t
        BY <2>4, <2>5, <2>7, <3>3
    <3> QED BY <3>1, <3>2, <3>3
  <2> QED BY <1>4, <1>5, <1>6, <1>8, <2>3, <2>6, <2>7 DEF SlotsOK
<1>10. CASE t \notin SchedThreads
  <2>1. \A u \in SchedThreads : pc'[u] = pc[u] /\ frame'[u] = frame[u]
      BY <1>7, <1>10 DEF Threads
  <2>2. SlotsOK'
      BY <1>2, <1>10, <2>1 DEF SlotsOK
  <2> QED BY <1>4, <1>5, <1>6, <1>8, <2>2
<1> QED BY <1>9, <1>10

LEMMA FireCalls ==
    ASSUME CallsOK, NEW t \in Threads, NEW j \in Jobs, Fire(t, j)
    PROVE  CallsOK'
<1> DEFINE local == [IdleFrame EXCEPT !.job = j]
<1>1. local \in Frames /\ local.job = j /\ local.run = 0
    BY IdleFrameType DEF Frames, IdleFrame
<1>2. /\ t \in SchedThreads /\ pc[t] = "idle" /\ instances[j] < 1
      /\ pc' = [pc EXCEPT ![t] = "load"]
      /\ frame' = [frame EXCEPT ![t] = local]
      /\ instances' = [instances EXCEPT ![j] = @ + 1]
    BY DEF Fire
<1>3. fired' \in [Jobs -> Nat] /\ UNCHANGED <<discarded, used>>
    BY DEF Fire, CallsOK, TypeOK
<1>4. DatabaseTypes'
    BY SameDatabaseTypes DEF Fire
<1> HIDE DEF local
<1>5. /\ pc' \in [Threads -> Stages]
      /\ frame' \in [Threads -> Frames]
      /\ instances' \in [Jobs -> Nat]
      /\ FramesOK'
      /\ SlotsOK'
    BY <1>1, <1>2, BeginCalls
<1> QED BY <1>3, <1>4, <1>5 DEF CallsOK, TypeOK, DatabaseTypes

LEMMA RequestRunCalls ==
    ASSUME CallsOK, NEW t \in Threads, NEW j \in Jobs, RequestRun(t, j)
    PROVE  CallsOK'
<1> DEFINE local == [IdleFrame EXCEPT !.job = j, !.active = jobRow[j].active,
                                      !.script = jobRow[j].script]
<1>1. jobRow[j] \in JobRows
    BY DEF CallsOK, TypeOK
<1>2. local \in Frames /\ local.job = j /\ local.run = 0
    BY <1>1, IdleFrameType DEF Frames, IdleFrame, JobRows
<1>3. /\ t \in WebThreads /\ t \notin SchedThreads /\ pc[t] = "idle"
      /\ pc' = [pc EXCEPT ![t] = "resolve"]
      /\ frame' = [frame EXCEPT ![t] = local]
      /\ UNCHANGED instances
    BY ThreadsAssumption DEF RequestRun
<1>4. /\ used' \in [requests : Nat, edits : Nat, faults : Nat]
      /\ fired' \in [Jobs -> Nat]
      /\ discarded' \in [Jobs -> [DiscardCauses -> Nat]]
  <2>1. used' = [used EXCEPT !.requests = @ + 1] /\ UNCHANGED <<fired, discarded>>
      BY DEF RequestRun
  <2>2. used \in [requests : Nat, edits : Nat, faults : Nat]
      BY DEF CallsOK, TypeOK
  <2>3. used' \in [requests : Nat, edits : Nat, faults : Nat]
      BY <2>1, <2>2
  <2>4. fired' \in [Jobs -> Nat] /\ discarded' \in [Jobs -> [DiscardCauses -> Nat]]
      BY <2>1 DEF CallsOK, TypeOK
  <2> QED BY <2>3, <2>4
<1>5. DatabaseTypes'
    BY SameDatabaseTypes DEF RequestRun
<1> HIDE DEF local
<1>6. /\ pc' \in [Threads -> Stages]
      /\ frame' \in [Threads -> Frames]
      /\ instances' \in [Jobs -> Nat]
      /\ FramesOK'
      /\ SlotsOK'
    BY <1>2, <1>3, BeginCalls
<1> QED BY <1>4, <1>5, <1>6 DEF CallsOK, TypeOK, DatabaseTypes

LEMMA FireAtMaxInstancesCalls ==
    ASSUME CallsOK, NEW j \in Jobs, FireAtMaxInstances(j)
    PROVE  CallsOK'
<1>1. discarded' \in [Jobs -> [DiscardCauses -> Nat]]
    BY DiscardType DEF FireAtMaxInstances, DiscardCauses
<1>2. fired' \in [Jobs -> Nat]
    BY DEF FireAtMaxInstances, CallsOK, TypeOK
<1>3. DatabaseTypes'
    BY SameDatabaseTypes DEF FireAtMaxInstances
<1>4. UNCHANGED <<instances, pc, frame, used>>
    BY DEF FireAtMaxInstances, process
<1>5. FramesOK' /\ SlotsOK'
    BY <1>4 DEF CallsOK, FramesOK, SlotsOK
<1> QED BY <1>1, <1>2, <1>3, <1>4, <1>5 DEF CallsOK, TypeOK, DatabaseTypes

LEMMA LoadJobCalls ==
    ASSUME CallsOK, NEW t \in Threads, LoadJob(t)
    PROVE  CallsOK'
<1> DEFINE row == jobRow[frame[t].job]
           local == [frame[t] EXCEPT !.active = row.active, !.script = row.script]
<1>1. /\ pc[t] = "load" /\ t \in SchedThreads /\ frame[t].job \in Jobs
      /\ frame[t] \in Frames /\ frame[t].run = 0 /\ row \in JobRows
    BY DEF LoadJob, CallsOK, TypeOK, FramesOK
<1>2. CASE row.deleted \/ ~row.active
    BY <1>1, <1>2, GiveUpCalls DEF LoadJob, DiscardCauses
<1>3. CASE ~row.deleted /\ row.active
  <2>1. local \in Frames /\ local.job = frame[t].job /\ local.active /\ local.run = 0
      BY <1>1, <1>3 DEF Frames, JobRows
  <2>2. Goto(t, "check", local) /\ UNCHANGED database
      BY <1>3 DEF LoadJob
  <2>3. DatabaseTypes'
      BY <2>2, SameDatabaseTypes
  <2> HIDE DEF local
  <2> QED BY <1>1, <2>1, <2>2, <2>3, GotoStageCalls
<1> QED BY <1>2, <1>3

LEMMA CheckRunningCalls ==
    ASSUME CallsOK, NEW t \in Threads, CheckRunning(t)
    PROVE  CallsOK'
<1> DEFINE local == [frame[t] EXCEPT !.seen = Len(executions)]
<1>1. /\ pc[t] = "check" /\ t \in SchedThreads
      /\ frame[t] \in Frames /\ frame[t].run = 0 /\ frame[t].active
      /\ executions \in Seq(ExecutionRows)
    BY DEF CheckRunning, CallsOK, TypeOK, FramesOK
<1>2. CASE HasRunningExecution(frame[t].job)
    BY <1>1, <1>2, GoSkipCalls DEF CheckRunning, SkipReasons
<1>3. CASE ~HasRunningExecution(frame[t].job)
  <2>1. local \in Frames /\ local.job = frame[t].job /\ local.active /\ local.run = 0
      BY <1>1 DEF Frames
  <2>2. Goto(t, "reread", local) /\ UNCHANGED database
      BY <1>3 DEF CheckRunning
  <2>3. DatabaseTypes'
      BY <2>2, SameDatabaseTypes
  <2> HIDE DEF local
  <2> QED BY <1>1, <2>1, <2>2, <2>3, GotoStageCalls
<1> QED BY <1>2, <1>3

LEMMA RereadJobCalls ==
    ASSUME CallsOK, NEW t \in Threads, RereadJob(t)
    PROVE  CallsOK'
<1>1. /\ pc[t] = "reread" /\ t \in SchedThreads
      /\ frame[t] \in Frames /\ frame[t].run = 0 /\ frame[t].active
    BY DEF RereadJob, CallsOK, TypeOK, FramesOK
<1>2. CASE jobRow[frame[t].job].deleted
    BY <1>1, <1>2, GoSkipCalls DEF RereadJob, SkipReasons
<1>3. CASE ~jobRow[frame[t].job].deleted
  <2>1. Goto(t, "resolve", frame[t]) /\ UNCHANGED database
      BY <1>3 DEF RereadJob
  <2>2. DatabaseTypes'
      BY <2>1, SameDatabaseTypes
  <2> QED BY <1>1, <2>1, <2>2, GotoStageCalls
<1> QED BY <1>2, <1>3

LEMMA RefuseCalls ==
    ASSUME CallsOK, NEW t \in Threads, pc[t] = "resolve",
           NEW reason \in SkipReasons \ {"paused"}, Refuse(t, reason)
    PROVE  CallsOK'
<1>1. CASE t \in SchedThreads /\ GoSkip(t, reason) /\ UNCHANGED database
    BY <1>1, GoSkipCalls
<1>2. CASE t \in WebThreads /\ GiveUp(t, "error")
    BY <1>2, GiveUpCalls DEF DiscardCauses
<1> QED BY <1>1, <1>2 DEF Refuse

LEMMA RaiseJobInactiveCalls ==
    ASSUME CallsOK, NEW t \in Threads, RaiseJobInactive(t)
    PROVE  CallsOK'
<1>1. pc[t] = "resolve" /\ t \notin SchedThreads
    BY DEF RaiseJobInactive, CallsOK, FramesOK
<1>2. GiveUp(t, "error")
    BY <1>1 DEF RaiseJobInactive, Refuse
<1> QED BY <1>1, <1>2, GiveUpCalls DEF DiscardCauses

LEMMA RaiseScriptUnavailableCalls ==
    ASSUME CallsOK, NEW t \in Threads, RaiseScriptUnavailable(t)
    PROVE  CallsOK'
BY RefuseCalls DEF RaiseScriptUnavailable, SkipReasons

LEMMA RaiseScriptPathCalls ==
    ASSUME CallsOK, NEW t \in Threads, RaiseScriptPath(t)
    PROVE  CallsOK'
BY GiveUpCalls DEF RaiseScriptPath, DiscardCauses

LEMMA ResolveScriptCalls ==
    ASSUME CallsOK, NEW t \in Threads, ResolveScript(t)
    PROVE  CallsOK'
<1>1. /\ pc[t] = "resolve" /\ frame[t] \in Frames /\ frame[t].run = 0
      /\ Goto(t, "start", frame[t]) /\ UNCHANGED database
    BY DEF ResolveScript, CallsOK, TypeOK, FramesOK
<1>2. frame[t].script \in Scripts
    BY <1>1 DEF ResolveScript, ScriptUsable, Frames
<1>3. DatabaseTypes'
    BY <1>1, SameDatabaseTypes
<1> QED BY <1>1, <1>2, <1>3, GotoStageCalls

LEMMA RecordSkipCalls ==
    ASSUME CallsOK, NEW t \in Threads, RecordSkip(t)
    PROVE  CallsOK'
<1> DEFINE j == frame[t].job
           r == frame[t].reason
<1>1. /\ pc[t] = "skip" /\ j \in Jobs /\ r \in SkipReasons
      /\ skips \in [Jobs -> [SkipReasons -> Nat]]
      /\ skips' = [skips EXCEPT ![j][r] = @ + 1]
      /\ Return(t)
    BY DEF RecordSkip, CallsOK, TypeOK, FramesOK
<1>2. skips' \in [Jobs -> [SkipReasons -> Nat]]
  <2> HIDE DEF j, r
  <2>1. skips[j] \in [SkipReasons -> Nat]
      BY <1>1
  <2>2. [skips[j] EXCEPT ![r] = @ + 1] \in [SkipReasons -> Nat]
      BY <1>1, <2>1
  <2> QED BY <1>1, <2>2
<1>3. /\ DatabaseTypes'
      /\ fired' \in [Jobs -> Nat]
      /\ discarded' \in [Jobs -> [DiscardCauses -> Nat]]
      /\ used' \in [requests : Nat, edits : Nat, faults : Nat]
    BY <1>2 DEF RecordSkip, CallsOK, TypeOK, DatabaseTypes
<1> QED BY <1>1, <1>3, ReturnCalls DEF CallsOK, TypeOK, DatabaseTypes

LEMMA StartExecutionCalls ==
    ASSUME CallsOK, NEW t \in Threads, StartExecution(t)
    PROVE  CallsOK'
<1> DEFINE local == [frame[t] EXCEPT !.run = Len(executions) + 1]
           row == [job |-> frame[t].job, trigger |-> TriggerOf(t), status |-> RUNNING]
<1>1. /\ pc[t] = "start" /\ frame[t].job \in Jobs /\ frame[t].script \in Scripts
      /\ frame[t] \in Frames
      /\ executions \in Seq(ExecutionRows) /\ trail \in Seq(Seq(AuditActions))
    BY DEF StartExecution, CallsOK, TypeOK, FramesOK
<1>2. row \in ExecutionRows
    BY <1>1 DEF ExecutionRows, TriggerOf, Triggers
<1>3. executions' \in Seq(ExecutionRows)
    BY <1>1, <1>2 DEF StartExecution
<1>4. trail' \in Seq(Seq(AuditActions))
  <2>1. <<"STARTED">> \in Seq(AuditActions)
      BY DEF AuditActions
  <2> QED BY <1>1, <2>1 DEF StartExecution
<1>5. DatabaseTypes'
    BY <1>3, <1>4 DEF StartExecution, CallsOK, TypeOK, DatabaseTypes
<1>6. /\ local \in Frames /\ local.job = frame[t].job /\ local.script = frame[t].script
      /\ local.run # 0
  <2>1. Len(executions) + 1 \in Nat \ {0}
      BY <1>1
  <2> QED BY <1>1, <2>1 DEF Frames
<1>7. Goto(t, "launch", local)
    BY DEF StartExecution
<1> HIDE DEF local
<1> QED BY <1>1, <1>5, <1>6, <1>7, GotoStageCalls

LEMMA RaiseUnsupportedScriptCalls ==
    ASSUME CallsOK, NEW t \in Threads, RaiseUnsupportedScript(t)
    PROVE  CallsOK'
<1>1. pc[t] = "launch" /\ Return(t) /\ UNCHANGED <<database, fired, discarded, used>>
    BY DEF RaiseUnsupportedScript
<1>2. DatabaseTypes'
    BY <1>1, SameDatabaseTypes
<1> QED BY <1>1, <1>2, ReturnCalls DEF CallsOK, TypeOK, DatabaseTypes

LEMMA LaunchScriptCalls ==
    ASSUME CallsOK, NEW t \in Threads, LaunchScript(t)
    PROVE  CallsOK'
<1>1. /\ pc[t] = "launch" /\ frame[t] \in Frames /\ frame[t].script \in Scripts
      /\ frame[t].run # 0 /\ UNCHANGED database
    BY DEF LaunchScript, CallsOK, TypeOK, FramesOK
<1>2. PICK r \in ResultsOf(frame[t].script) : Goto(t, "running", [frame[t] EXCEPT !.result = r])
    BY DEF LaunchScript
<1>3. r \in Results
    BY DEF ResultsOf
<1> DEFINE local == [frame[t] EXCEPT !.result = r]
<1>4. /\ local \in Frames /\ local.job = frame[t].job /\ local.script = frame[t].script
      /\ local.run # 0 /\ local.result \in Results
    BY <1>1, <1>3 DEF Frames
<1>5. DatabaseTypes'
    BY <1>1, SameDatabaseTypes
<1>6. Goto(t, "running", local)
    BY <1>2
<1> HIDE DEF local
<1> QED BY <1>1, <1>4, <1>5, <1>6, GotoStageCalls

LEMMA FinaliseExecutionCalls ==
    ASSUME CallsOK, NEW t \in Threads, FinaliseExecution(t)
    PROVE  CallsOK'
<1> DEFINE id == frame[t].run
           status == StatusOf(frame[t].result)
<1>1. /\ pc[t] = "running"
      /\ executions' = [executions EXCEPT ![id].status = status]
      /\ trail' = [trail EXCEPT ![id] = Append(@, FinalActionOf(status))]
      /\ Return(t)
      /\ UNCHANGED <<jobRow, scriptRow, file, skips, fired, discarded, used>>
    BY DEF FinaliseExecution
<1>2. executions \in Seq(ExecutionRows) /\ trail \in Seq(Seq(AuditActions))
    BY DEF CallsOK, TypeOK
<1>3. status \in FinalStatuses /\ FinalActionOf(status) \in AuditActions
    BY <1>1, FinalStatusOfResult DEF CallsOK, FramesOK
<1> HIDE DEF id, status
<1>4. executions' \in Seq(ExecutionRows)
  <2>1. CASE id \in DOMAIN executions
    <3>1. executions[id] \in ExecutionRows
        BY <1>2, <2>1
    <3>2. [executions[id] EXCEPT !.status = status] \in ExecutionRows
        BY <1>3, <3>1 DEF ExecutionRows
    <3> QED BY <1>1, <1>2, <2>1, <3>2
  <2>2. CASE id \notin DOMAIN executions
    <3>1. executions' = executions
        BY <1>1, <1>2, <2>2
    <3> QED BY <1>2, <3>1
  <2> QED BY <2>1, <2>2
<1>5. trail' \in Seq(Seq(AuditActions))
  <2>1. CASE id \in DOMAIN trail
    <3>1. trail[id] \in Seq(AuditActions)
        BY <1>2, <2>1
    <3>2. Append(trail[id], FinalActionOf(status)) \in Seq(AuditActions)
        BY <1>3, <3>1
    <3> QED BY <1>1, <1>2, <2>1, <3>2
  <2>2. CASE id \notin DOMAIN trail
    <3>1. trail' = trail
        BY <1>1, <1>2, <2>2
    <3> QED BY <1>2, <3>1
  <2> QED BY <2>1, <2>2
<1>6. /\ DatabaseTypes'
      /\ fired' \in [Jobs -> Nat]
      /\ discarded' \in [Jobs -> [DiscardCauses -> Nat]]
      /\ used' \in [requests : Nat, edits : Nat, faults : Nat]
    BY <1>1, <1>4, <1>5 DEF CallsOK, TypeOK, DatabaseTypes
<1> QED BY <1>1, <1>6, ReturnCalls DEF CallsOK, TypeOK, DatabaseTypes

LEMMA CommitFailsCalls ==
    ASSUME CallsOK, NEW t \in Threads, CommitFails(t)
    PROVE  CallsOK'
<1>1. pc[t] # "idle" /\ Return(t) /\ UNCHANGED <<database, fired>>
    BY DEF CommitFails
<1>2. DatabaseTypes'
    BY <1>1, SameDatabaseTypes
<1>3. frame[t].job \in Jobs
    BY <1>1 DEF CallsOK, FramesOK
<1>4. discarded' \in [Jobs -> [DiscardCauses -> Nat]]
  <2>1. CASE Discard(frame[t].job, "error")
      BY <1>3, <2>1, DiscardType DEF DiscardCauses
  <2>2. CASE UNCHANGED discarded
      BY <2>2 DEF CallsOK, TypeOK
  <2> QED BY <2>1, <2>2 DEF CommitFails
<1>5. used' \in [requests : Nat, edits : Nat, faults : Nat]
  <2>1. used \in [requests : Nat, edits : Nat, faults : Nat]
      BY DEF CallsOK, TypeOK
  <2> QED BY <2>1 DEF CommitFails
<1>6. fired' \in [Jobs -> Nat]
    BY <1>1 DEF CallsOK, TypeOK
<1> QED BY <1>1, <1>2, <1>4, <1>5, <1>6, ReturnCalls DEF CallsOK, TypeOK, DatabaseTypes

LEMMA RestartCalls ==
    ASSUME CallsOK, Restart
    PROVE  CallsOK'
<1>1. DatabaseTypes' /\ fired' \in [Jobs -> Nat]
    BY SameDatabaseTypes DEF Restart, CallsOK, TypeOK
<1>2. used' \in [requests : Nat, edits : Nat, faults : Nat]
  <2>1. used \in [requests : Nat, edits : Nat, faults : Nat]
      BY DEF CallsOK, TypeOK
  <2> QED BY <2>1 DEF Restart
<1>3. /\ instances' = [j \in Jobs |-> 0]
      /\ pc' = [t \in Threads |-> "idle"]
      /\ frame' = [t \in Threads |-> IdleFrame]
    BY DEF Restart
<1>4. /\ instances' \in [Jobs -> Nat]
      /\ pc' \in [Threads -> Stages]
      /\ frame' \in [Threads -> Frames]
    BY <1>3, IdleFrameType DEF Stages
<1>5. discarded' \in [Jobs -> [DiscardCauses -> Nat]]
  <2>1. ASSUME NEW j \in Jobs
        PROVE  [discarded[j] EXCEPT !["restart"] = @ + Pending(j)] \in [DiscardCauses -> Nat]
    <3>1. {t \in SchedThreads : Undecided(t, j)} \subseteq SchedThreads
        OBVIOUS
    <3>2. Pending(j) \in Nat
        BY <3>1, ThreadsAssumption, FS_Subset, FS_CardinalityType DEF Pending
    <3>3. discarded[j] \in [DiscardCauses -> Nat]
        BY DEF CallsOK, TypeOK
    <3>4. "restart" \in DiscardCauses
        BY DEF DiscardCauses
    <3>5. discarded[j]["restart"] + Pending(j) \in Nat
        BY <3>2, <3>3, <3>4
    <3> QED BY <3>3, <3>5
  <2> QED BY <2>1 DEF Restart
<1>6. FramesOK'
    BY <1>3 DEF FramesOK, IdleFrame
<1>7. SlotsOK'
    BY <1>3 DEF SlotsOK, Threads
<1> QED BY <1>1, <1>2, <1>4, <1>5, <1>6, <1>7 DEF CallsOK, TypeOK, DatabaseTypes

(***************************************************************************)
(* Edits leave every call where it is.                                     *)
(***************************************************************************)
LEMMA EditCalls ==
    ASSUME CallsOK, Edit,
           jobRow' \in [Jobs -> JobRows],
           scriptRow' \in [Scripts -> ScriptRows],
           file' \in [Scripts -> FileStates]
    PROVE  CallsOK'
<1>1. UNCHANGED <<executions, trail, skips, instances, pc, frame, fired, discarded>>
    BY DEF Edit, process
<1>2. used' \in [requests : Nat, edits : Nat, faults : Nat]
  <2>1. used \in [requests : Nat, edits : Nat, faults : Nat]
      BY DEF CallsOK, TypeOK
  <2> QED BY <2>1 DEF Edit
<1>3. FramesOK' /\ SlotsOK'
    BY <1>1 DEF CallsOK, FramesOK, SlotsOK
<1> QED BY <1>1, <1>2, <1>3 DEF CallsOK, TypeOK

LEMMA EditJobCalls ==
    ASSUME CallsOK, NEW j \in Jobs, EditJob(j)
    PROVE  CallsOK'
<1>1. /\ jobRow \in [Jobs -> JobRows] /\ jobRow[j] \in JobRows
      /\ UNCHANGED <<scriptRow, file>> /\ Edit
    BY DEF EditJob, CallsOK, TypeOK
<1>2. jobRow' \in [Jobs -> JobRows]
  <2>1. CASE jobRow' = [jobRow EXCEPT ![j].active = ~@]
      BY <1>1, <2>1 DEF JobRows
  <2>2. CASE jobRow' = [jobRow EXCEPT ![j].active = FALSE, ![j].deleted = TRUE]
      BY <1>1, <2>2 DEF JobRows
  <2>3. CASE \E s \in Scripts : jobRow' = [jobRow EXCEPT ![j].script = s]
      BY <1>1, <2>3 DEF JobRows
  <2> QED BY <2>1, <2>2, <2>3 DEF EditJob
<1>3. scriptRow' \in [Scripts -> ScriptRows] /\ file' \in [Scripts -> FileStates]
    BY <1>1 DEF CallsOK, TypeOK
<1> QED BY <1>1, <1>2, <1>3, EditCalls

LEMMA EditScriptCalls ==
    ASSUME CallsOK, NEW s \in Scripts, EditScript(s)
    PROVE  CallsOK'
<1>1. /\ scriptRow \in [Scripts -> ScriptRows] /\ scriptRow[s] \in ScriptRows
      /\ UNCHANGED <<jobRow, file>> /\ Edit
    BY DEF EditScript, CallsOK, TypeOK
<1>2. scriptRow' \in [Scripts -> ScriptRows]
  <2>1. CASE scriptRow' = [scriptRow EXCEPT ![s].enabled = ~@]
      BY <1>1, <2>1 DEF ScriptRows
  <2>2. CASE scriptRow' = [scriptRow EXCEPT ![s].deleted = TRUE]
      BY <1>1, <2>2 DEF ScriptRows
  <2> QED BY <2>1, <2>2 DEF EditScript
<1>3. jobRow' \in [Jobs -> JobRows] /\ file' \in [Scripts -> FileStates]
    BY <1>1 DEF CallsOK, TypeOK
<1> QED BY <1>1, <1>2, <1>3, EditCalls

LEMMA ChangeFileCalls ==
    ASSUME CallsOK, NEW s \in Scripts, ChangeFile(s)
    PROVE  CallsOK'
<1>1. UNCHANGED <<jobRow, scriptRow>> /\ Edit
    BY DEF ChangeFile
<1>2. file' \in [Scripts -> FileStates]
    BY DEF ChangeFile, CallsOK, TypeOK
<1>3. jobRow' \in [Jobs -> JobRows] /\ scriptRow' \in [Scripts -> ScriptRows]
    BY <1>1 DEF CallsOK, TypeOK
<1> QED BY <1>1, <1>2, <1>3, EditCalls

LEMMA StutterCalls == CallsOK /\ UNCHANGED vars => CallsOK'
<1> SUFFICES ASSUME CallsOK, UNCHANGED vars PROVE CallsOK'
    OBVIOUS
<1>1. /\ DatabaseTypes'
      /\ UNCHANGED <<instances, pc, frame, fired, discarded, used>>
    BY SameDatabaseTypes DEF vars, process
<1>2. FramesOK' /\ SlotsOK'
    BY <1>1 DEF CallsOK, FramesOK, SlotsOK
<1> QED BY <1>1, <1>2 DEF CallsOK, TypeOK, DatabaseTypes

LEMMA CallsNext == CallsOK /\ [Next]_vars => CallsOK'
<1> SUFFICES ASSUME CallsOK, [Next]_vars PROVE CallsOK'
    OBVIOUS
<1>1. ASSUME NEW t \in Threads, NEW j \in Jobs, Fire(t, j) \/ RequestRun(t, j)
      PROVE  CallsOK'
    BY <1>1, FireCalls, RequestRunCalls
<1>2. ASSUME NEW j \in Jobs, FireAtMaxInstances(j) \/ EditJob(j)
      PROVE  CallsOK'
    BY <1>2, FireAtMaxInstancesCalls, EditJobCalls
<1>3. ASSUME NEW t \in Threads, Work(t)
      PROVE  CallsOK'
    BY <1>3, LoadJobCalls, CheckRunningCalls, RereadJobCalls, RaiseJobInactiveCalls,
       RaiseScriptUnavailableCalls, RaiseScriptPathCalls, ResolveScriptCalls,
       RecordSkipCalls, StartExecutionCalls, RaiseUnsupportedScriptCalls,
       LaunchScriptCalls, FinaliseExecutionCalls DEF Work
<1>4. ASSUME NEW t \in Threads, CommitFails(t)
      PROVE  CallsOK'
    BY <1>4, CommitFailsCalls
<1>5. ASSUME NEW s \in Scripts, EditScript(s) \/ ChangeFile(s)
      PROVE  CallsOK'
    BY <1>5, EditScriptCalls, ChangeFileCalls
<1>6. CASE Restart
    BY <1>6, RestartCalls
<1>7. CASE UNCHANGED vars
    BY <1>7, StutterCalls
<1> QED BY <1>1, <1>2, <1>3, <1>4, <1>5, <1>6, <1>7 DEF Next

LEMMA CallsInvariant == Spec => []CallsOK
BY CallsInit, CallsNext, PTL DEF Spec

\* Every variable keeps its type: in particular no result, status or skip
\* reason outside the documented ones is ever written, and APScheduler's
\* counter never becomes negative (a slot is freed once per fire).
THEOREM TypeCorrect == Spec => []TypeOK
BY CallsInvariant, PTL DEF CallsOK

(***************************************************************************)
(* The job's slot: what max_instances = 1 is for.                          *)
(***************************************************************************)
\* At no time do two pool threads handle fires of one job, and the counter
\* APScheduler keeps for a job is at most one.
THEOREM SlotsCorrect == Spec => []SlotsOK
BY CallsInvariant, PTL DEF CallsOK

-----------------------------------------------------------------------------
(***************************************************************************)
(* The executions table.  A fire that found no run of its job keeps that   *)
(* knowledge until it starts: rows are only appended, RUNNING is never     *)
(* written over a final status, and SlotsOK keeps every other fire of the  *)
(* job away.                                                               *)
(***************************************************************************)
Deciding == {"reread", "resolve", "start"}

ViewOK(t) ==
    /\ frame[t].seen <= Len(executions)
    /\ RunningScheduled(frame[t].job) = {}
    /\ \A id \in DOMAIN executions :
          executions[id].job = frame[t].job /\ executions[id].status = RUNNING
             => id > frame[t].seen

ViewsOK == \A t \in SchedThreads : pc[t] \in Deciding => ViewOK(t)

RunsOK == TrailMatchesStatus /\ HeldRunsAreOpen /\ OneRunningScheduledRow /\ ViewsOK

LEMMA RunsInit == Init => RunsOK
<1> SUFFICES ASSUME Init PROVE RunsOK
    OBVIOUS
<1>1. executions = <<>> /\ trail = <<>> /\ DOMAIN executions = {}
    BY DEF Init
<1>2. TrailMatchesStatus /\ OneRunningScheduledRow
    BY <1>1 DEF TrailMatchesStatus, OneRunningScheduledRow, RunningScheduled
<1>3. HeldRunsAreOpen
    BY DEF Init, HeldRunsAreOpen, IdleFrame
<1>4. ViewsOK
    BY DEF Init, ViewsOK, Deciding, Threads
<1> QED BY <1>2, <1>3, <1>4 DEF RunsOK

(***************************************************************************)
(* Steps that leave the table alone: no caller takes over a row, and a     *)
(* fire's view of the table is the one it has or a new one.                *)
(***************************************************************************)
KeepsRun(t) ==
    \/ frame'[t].run = 0
    \/ frame'[t].run = frame[t].run /\ frame'[t].job = frame[t].job

KeepsView(t) ==
    pc'[t] \in Deciding =>
       \/ /\ pc[t] \in Deciding
          /\ frame'[t].job = frame[t].job
          /\ frame'[t].seen = frame[t].seen
       \/ /\ ~HasRunningExecution(frame'[t].job)
          /\ frame'[t].seen = Len(executions)

Quiet ==
    /\ UNCHANGED <<executions, trail>>
    /\ \A t \in Threads : KeepsRun(t)
    /\ \A t \in SchedThreads : KeepsView(t)

LEMMA QuietRuns ==
    ASSUME CallsOK, RunsOK, Quiet
    PROVE  RunsOK'
<1>1. executions' = executions /\ trail' = trail /\ executions \in Seq(ExecutionRows)
    BY DEF Quiet, CallsOK, TypeOK
<1>2. TrailMatchesStatus' /\ OneRunningScheduledRow'
    BY <1>1 DEF RunsOK, TrailMatchesStatus, OneRunningScheduledRow, RunningScheduled
<1>3. HeldRunsAreOpen'
  <2>1. \A t \in Threads : KeepsRun(t)
      BY DEF Quiet
  <2> QED BY <1>1, <2>1 DEF RunsOK, HeldRunsAreOpen, KeepsRun
<1>4. ViewsOK'
  <2> SUFFICES ASSUME NEW t \in SchedThreads, pc'[t] \in Deciding
               PROVE  ViewOK(t)'
      BY DEF ViewsOK
  <2>1. CASE /\ pc[t] \in Deciding
             /\ frame'[t].job = frame[t].job
             /\ frame'[t].seen = frame[t].seen
      BY <1>1, <2>1 DEF RunsOK, ViewsOK, ViewOK, RunningScheduled
  <2>2. CASE /\ ~HasRunningExecution(frame'[t].job)
             /\ frame'[t].seen = Len(executions)
      BY <1>1, <2>2 DEF ViewOK, RunningScheduled, HasRunningExecution
  <2> QED BY <2>1, <2>2 DEF Quiet, KeepsView
<1> QED BY <1>2, <1>3, <1>4 DEF RunsOK

LEMMA ReturnIsQuiet ==
    ASSUME CallsOK, NEW t \in Threads, Return(t), UNCHANGED <<executions, trail>>
    PROVE  Quiet
<1>1. \A u \in Threads : /\ pc'[u] = IF u = t THEN "idle" ELSE pc[u]
                         /\ frame'[u] = IF u = t THEN IdleFrame ELSE frame[u]
    BY DEF Return, CallsOK, TypeOK
<1>2. IdleFrame.run = 0 /\ "idle" \notin Deciding
    BY DEF IdleFrame, Deciding
<1> QED BY <1>1, <1>2 DEF Quiet, KeepsRun, KeepsView, Threads

LEMMA GotoIsQuiet ==
    ASSUME CallsOK, NEW t \in Threads, NEW stage, NEW local, Goto(t, stage, local),
           local.run = 0 \/ local.run = frame[t].run, local.job = frame[t].job,
           t \in SchedThreads /\ stage \in Deciding =>
              \/ pc[t] \in Deciding /\ local.seen = frame[t].seen
              \/ ~HasRunningExecution(local.job) /\ local.seen = Len(executions),
           UNCHANGED <<executions, trail>>
    PROVE  Quiet
<1>1. \A u \in Threads : /\ pc'[u] = IF u = t THEN stage ELSE pc[u]
                         /\ frame'[u] = IF u = t THEN local ELSE frame[u]
    BY DEF Goto, CallsOK, TypeOK
<1>2. \A u \in Threads : KeepsRun(u)
    BY <1>1 DEF KeepsRun
<1>3. \A u \in SchedThreads : KeepsView(u)
    BY <1>1 DEF KeepsView, Threads
<1> QED BY <1>2, <1>3 DEF Quiet

LEMMA GoSkipIsQuiet ==
    ASSUME CallsOK, NEW t \in Threads, NEW reason \in SkipReasons, GoSkip(t, reason),
           UNCHANGED <<executions, trail>>
    PROVE  Quiet
<1> DEFINE local == [frame[t] EXCEPT !.reason = reason]
<1>1. frame[t] \in Frames
    BY DEF CallsOK, TypeOK
<1>2. local.run = frame[t].run /\ local.job = frame[t].job
    BY <1>1 DEF Frames
<1>3. Goto(t, "skip", local) /\ "skip" \notin Deciding
    BY DEF GoSkip, Deciding
<1> HIDE DEF local
<1> QED BY <1>2, <1>3, GotoIsQuiet

(***************************************************************************)
(* Every action but StartExecution and FinaliseExecution is quiet.         *)
(***************************************************************************)
LEMMA EnterIsQuiet ==
    ASSUME CallsOK, NEW t \in Threads, NEW j \in Jobs, Fire(t, j) \/ RequestRun(t, j)
    PROVE  Quiet
<1>1. UNCHANGED <<executions, trail>>
    BY DEF Fire, RequestRun, database
<1>2. CASE Fire(t, j)
  <2> DEFINE local == [IdleFrame EXCEPT !.job = j]
  <2>1. local.run = 0
      BY DEF IdleFrame
  <2>2. /\ pc' = [pc EXCEPT ![t] = "load"]
        /\ frame' = [frame EXCEPT ![t] = local]
      BY <1>2 DEF Fire
  <2> HIDE DEF local
  <2>3. \A u \in Threads : KeepsRun(u) /\ KeepsView(u)
      BY <2>1, <2>2 DEF KeepsRun, KeepsView, Deciding, CallsOK, TypeOK
  <2> QED BY <1>1, <2>3 DEF Quiet, Threads
<1>3. CASE RequestRun(t, j)
  <2> DEFINE local == [IdleFrame EXCEPT !.job = j, !.active = jobRow[j].active,
                                        !.script = jobRow[j].script]
  <2>1. local.run = 0
      BY DEF IdleFrame
  <2>2. /\ pc' = [pc EXCEPT ![t] = "resolve"]
        /\ frame' = [frame EXCEPT ![t] = local]
        /\ t \notin SchedThreads
      BY <1>3, ThreadsAssumption DEF RequestRun
  <2> HIDE DEF local
  <2>3. \A u \in Threads : KeepsRun(u)
      BY <2>1, <2>2 DEF KeepsRun, CallsOK, TypeOK
  <2>4. \A u \in SchedThreads : KeepsView(u)
      BY <2>2 DEF KeepsView, CallsOK, TypeOK, Threads
  <2> QED BY <1>1, <2>3, <2>4 DEF Quiet
<1> QED BY <1>2, <1>3

LEMMA SameCallsAreQuiet ==
    ASSUME CallsOK, UNCHANGED <<executions, trail, pc, frame>>
    PROVE  Quiet
BY DEF Quiet, KeepsRun, KeepsView

LEMMA GiveUpIsQuiet ==
    ASSUME CallsOK, NEW t \in Threads, NEW cause, GiveUp(t, cause)
    PROVE  Quiet
BY ReturnIsQuiet DEF GiveUp, database

LEMMA RefuseIsQuiet ==
    ASSUME CallsOK, NEW t \in Threads, NEW reason \in SkipReasons, Refuse(t, reason)
    PROVE  Quiet
BY GiveUpIsQuiet, GoSkipIsQuiet DEF Refuse, database

LEMMA LoadJobIsQuiet ==
    ASSUME CallsOK, NEW t \in Threads, LoadJob(t)
    PROVE  Quiet
<1> DEFINE row == jobRow[frame[t].job]
           local == [frame[t] EXCEPT !.active = row.active, !.script = row.script]
<1>1. CASE GiveUp(t, "ignored")
    BY <1>1, GiveUpIsQuiet
<1>2. CASE Goto(t, "check", local) /\ UNCHANGED database
  <2>1. local.run = frame[t].run /\ local.job = frame[t].job
      BY DEF CallsOK, TypeOK, Frames
  <2>2. "check" \notin Deciding /\ UNCHANGED <<executions, trail>>
      BY <1>2 DEF Deciding, database
  <2> HIDE DEF local
  <2> QED BY <1>2, <2>1, <2>2, GotoIsQuiet
<1> QED BY <1>1, <1>2 DEF LoadJob

LEMMA CheckRunningIsQuiet ==
    ASSUME CallsOK, NEW t \in Threads, CheckRunning(t)
    PROVE  Quiet
<1> DEFINE local == [frame[t] EXCEPT !.seen = Len(executions)]
<1>0. UNCHANGED <<executions, trail>>
    BY DEF CheckRunning, database
<1>1. CASE GoSkip(t, "already_running")
    BY <1>0, <1>1, GoSkipIsQuiet DEF SkipReasons
<1>2. CASE ~HasRunningExecution(frame[t].job) /\ Goto(t, "reread", local)
  <2>1. /\ local.run = frame[t].run /\ local.job = frame[t].job
        /\ local.seen = Len(executions)
      BY DEF CallsOK, TypeOK, Frames
  <2> HIDE DEF local
  <2> QED BY <1>0, <1>2, <2>1, GotoIsQuiet
<1> QED BY <1>1, <1>2 DEF CheckRunning

LEMMA RereadJobIsQuiet ==
    ASSUME CallsOK, NEW t \in Threads, RereadJob(t)
    PROVE  Quiet
<1>0. pc[t] \in Deciding /\ UNCHANGED <<executions, trail>>
    BY DEF RereadJob, Deciding, database
<1>1. CASE GoSkip(t, "no_longer_exists")
    BY <1>0, <1>1, GoSkipIsQuiet DEF SkipReasons
<1>2. CASE Goto(t, "resolve", frame[t])
    BY <1>0, <1>2, GotoIsQuiet
<1> QED BY <1>1, <1>2 DEF RereadJob

LEMMA ResolveScriptIsQuiet ==
    ASSUME CallsOK, NEW t \in Threads, ResolveScript(t)
    PROVE  Quiet
<1>1. /\ pc[t] \in Deciding /\ Goto(t, "start", frame[t])
      /\ UNCHANGED <<executions, trail>>
    BY DEF ResolveScript, Deciding, database
<1> QED BY <1>1, GotoIsQuiet

LEMMA LaunchScriptIsQuiet ==
    ASSUME CallsOK, NEW t \in Threads, LaunchScript(t)
    PROVE  Quiet
<1>1. PICK r \in ResultsOf(frame[t].script) : Goto(t, "running", [frame[t] EXCEPT !.result = r])
    BY DEF LaunchScript
<1> DEFINE local == [frame[t] EXCEPT !.result = r]
<1>2. local.run = frame[t].run /\ local.job = frame[t].job
    BY DEF CallsOK, TypeOK, Frames
<1>3. "running" \notin Deciding /\ UNCHANGED <<executions, trail>>
    BY DEF LaunchScript, Deciding, database
<1>4. Goto(t, "running", local)
    BY <1>1
<1> HIDE DEF local
<1> QED BY <1>2, <1>3, <1>4, GotoIsQuiet

LEMMA RestartIsQuiet ==
    ASSUME CallsOK, Restart
    PROVE  Quiet
<1>1. UNCHANGED <<executions, trail>>
    BY DEF Restart, database
<1>2. \A t \in Threads : pc'[t] = "idle" /\ frame'[t] = IdleFrame
    BY DEF Restart
<1> QED BY <1>1, <1>2 DEF Quiet, KeepsRun, KeepsView, IdleFrame, Deciding, Threads

LEMMA QuietSteps ==
    ASSUME CallsOK, [Next]_vars,
           ~ \E t \in Threads : StartExecution(t) \/ FinaliseExecution(t)
    PROVE  Quiet
<1>1. ASSUME NEW t \in Threads, NEW j \in Jobs, Fire(t, j) \/ RequestRun(t, j)
      PROVE  Quiet
    BY <1>1, EnterIsQuiet
<1>2. ASSUME NEW j \in Jobs, FireAtMaxInstances(j) \/ EditJob(j)
      PROVE  Quiet
    BY <1>2, SameCallsAreQuiet DEF FireAtMaxInstances, EditJob, Edit, database, process
<1>3. ASSUME NEW t \in Threads, Work(t)
      PROVE  Quiet
  <2>1. CASE RaiseJobInactive(t) \/ RaiseScriptUnavailable(t)
      BY <2>1, RefuseIsQuiet DEF RaiseJobInactive, RaiseScriptUnavailable, SkipReasons
  <2>2. CASE RaiseScriptPath(t)
      BY <2>2, GiveUpIsQuiet DEF RaiseScriptPath
  <2>3. CASE RecordSkip(t) \/ RaiseUnsupportedScript(t)
      BY <2>3, ReturnIsQuiet DEF RecordSkip, RaiseUnsupportedScript, database
  <2> QED BY <1>3, <2>1, <2>2, <2>3, LoadJobIsQuiet, CheckRunningIsQuiet, RereadJobIsQuiet,
             ResolveScriptIsQuiet, LaunchScriptIsQuiet DEF Work
<1>4. ASSUME NEW t \in Threads, CommitFails(t)
      PROVE  Quiet
    BY <1>4, ReturnIsQuiet DEF CommitFails, database
<1>5. ASSUME NEW s \in Scripts, EditScript(s) \/ ChangeFile(s)
      PROVE  Quiet
    BY <1>5, SameCallsAreQuiet DEF EditScript, ChangeFile, Edit, process
<1>6. CASE Restart
    BY <1>6, RestartIsQuiet
<1>7. CASE UNCHANGED vars
    BY <1>7, SameCallsAreQuiet DEF vars, database, process
<1> QED BY <1>1, <1>2, <1>3, <1>4, <1>5, <1>6, <1>7 DEF Next

LEMMA StartExecutionRuns ==
    ASSUME CallsOK, RunsOK, NEW t \in Threads, StartExecution(t)
    PROVE  RunsOK'
<1> DEFINE n == Len(executions) + 1
           row == [job |-> frame[t].job, trigger |-> TriggerOf(t), status |-> RUNNING]
<1>1. /\ pc[t] = "start" /\ frame[t] \in Frames
      /\ executions \in Seq(ExecutionRows) /\ trail \in Seq(Seq(AuditActions))
      /\ Len(executions) \in Nat
    BY DEF StartExecution, CallsOK, TypeOK
<1>2. /\ DOMAIN executions = 1..Len(executions)
      /\ DOMAIN executions' = 1..n
      /\ \A id \in DOMAIN executions : executions'[id] = executions[id]
      /\ executions'[n] = row
      /\ Len(executions') = n
    BY <1>1 DEF StartExecution
<1>3. /\ Len(trail) = Len(executions)
      /\ Len(trail') = n
      /\ \A id \in DOMAIN executions : trail'[id] = trail[id]
      /\ trail'[n] = <<"STARTED">>
    BY <1>1, <1>2 DEF StartExecution, RunsOK, TrailMatchesStatus
<1>4. /\ \A u \in Threads : u # t => pc'[u] = pc[u] /\ frame'[u] = frame[u]
      /\ pc'[t] = "launch"
      /\ frame'[t].run = n /\ frame'[t].job = frame[t].job
  <2> DEFINE local == [frame[t] EXCEPT !.run = n]
  <2>1. local.run = n /\ local.job = frame[t].job
      BY <1>1 DEF Frames
  <2>2. pc' = [pc EXCEPT ![t] = "launch"] /\ frame' = [frame EXCEPT ![t] = local]
      BY DEF StartExecution, Goto
  <2> HIDE DEF local
  <2> QED BY <2>1, <2>2 DEF CallsOK, TypeOK
<1>5. row.job = frame[t].job /\ row.trigger = TriggerOf(t) /\ row.status = RUNNING
    OBVIOUS
<1> HIDE DEF n, row
<1>6. n = Len(executions) + 1 /\ n \in DOMAIN executions' /\ n \notin DOMAIN executions
    BY <1>1, <1>2 DEF n
<1>7. \A id \in DOMAIN executions' : id \in DOMAIN executions \/ id = n
    BY <1>1, <1>2, <1>6
<1>8. TrailMatchesStatus'
    BY <1>2, <1>3, <1>5, <1>7 DEF RunsOK, TrailMatchesStatus, StatusTrail
<1>9. HeldRunsAreOpen'
  <2>1. \A u \in Threads : u # t /\ frame[u].run # 0 => frame[u].run \in DOMAIN executions
      BY DEF RunsOK, HeldRunsAreOpen
  <2>2. \A id \in DOMAIN executions : id \in DOMAIN executions'
      BY <1>2, <1>6, <1>1
  <2> QED BY <1>2, <1>4, <1>5, <1>6, <2>1, <2>2 DEF RunsOK, HeldRunsAreOpen
<1>10. ASSUME NEW j \in Jobs
       PROVE  \/ RunningScheduled(j)' = RunningScheduled(j)
              \/ t \in SchedThreads /\ j = frame[t].job /\ RunningScheduled(j)' = {n}
  <2>1. CASE t \in SchedThreads /\ j = frame[t].job
    <3>1. RunningScheduled(j) = {}
        BY <1>1, <2>1 DEF RunsOK, ViewsOK, ViewOK, Deciding
    <3> QED BY <1>2, <1>5, <1>6, <1>7, <2>1, <3>1 DEF RunningScheduled, TriggerOf
  <2>2. CASE t \notin SchedThreads \/ j # frame[t].job
    <3>1. row.job # j \/ row.trigger # "scheduled"
        BY <1>5, <2>2 DEF TriggerOf
    <3>2. \A id \in DOMAIN executions : id \in DOMAIN executions'
        BY <1>2, <1>6, <1>1
    <3> QED BY <1>2, <1>6, <1>7, <3>1, <3>2 DEF RunningScheduled
  <2> QED BY <2>1, <2>2
<1>11. OneRunningScheduledRow'
    BY <1>10 DEF RunsOK, OneRunningScheduledRow
<1>12. ViewsOK'
  <2> SUFFICES ASSUME NEW u \in SchedThreads, pc'[u] \in Deciding
               PROVE  ViewOK(u)'
      BY DEF ViewsOK
  <2>1. /\ u \in Threads /\ u # t /\ pc[u] \in Deciding /\ frame'[u] = frame[u]
        /\ ViewOK(u)
      BY <1>4 DEF RunsOK, ViewsOK, Deciding, Threads
  <2>2. frame[u].job \in Jobs /\ frame[u].seen \in Nat
      BY <2>1 DEF CallsOK, TypeOK, FramesOK, Deciding, Frames
  <2>3. t \in SchedThreads => frame[t].job # frame[u].job
      BY <1>1, <2>1 DEF CallsOK, SlotsOK, Deciding
  <2>4. RunningScheduled(frame[u].job)' = {}
      BY <1>10, <2>1, <2>2, <2>3 DEF ViewOK, RunningScheduled
  <2>5. \A id \in DOMAIN executions' :
           executions'[id].job = frame[u].job /\ executions'[id].status = RUNNING
              => id > frame[u].seen
      BY <1>1, <1>2, <1>6, <1>7, <2>1, <2>2 DEF ViewOK
  <2>6. frame[u].seen <= Len(executions')
      BY <1>1, <1>2, <1>6, <2>1, <2>2 DEF ViewOK
  <2> QED BY <2>1, <2>4, <2>5, <2>6 DEF ViewOK, RunningScheduled
<1> QED BY <1>8, <1>9, <1>11, <1>12 DEF RunsOK

(***************************************************************************)
(* What a FinaliseExecution does to the table, once RunsOK is known.       *)
(***************************************************************************)
LEMMA FinaliseEffect ==
    ASSUME CallsOK, RunsOK, NEW t \in Threads, FinaliseExecution(t)
    PROVE  /\ frame[t].run \in DOMAIN executions
           /\ executions[frame[t].run].status = RUNNING
           /\ DOMAIN executions' = DOMAIN executions
           /\ Len(executions') = Len(executions)
           /\ \A id \in DOMAIN executions :
                 IF id = frame[t].run
                 THEN executions'[id] =
                        [executions[id] EXCEPT !.status = StatusOf(frame[t].result)]
                 ELSE executions'[id] = executions[id]
           /\ StatusOf(frame[t].result) \in FinalStatuses
<1>1. /\ executions' = [executions EXCEPT ![frame[t].run].status = StatusOf(frame[t].result)]
      /\ frame[t].run # 0 /\ frame[t].result \in Results
      /\ executions \in Seq(ExecutionRows)
    BY DEF FinaliseExecution, CallsOK, TypeOK, FramesOK
<1>2. frame[t].run \in DOMAIN executions /\ executions[frame[t].run].status = RUNNING
    BY <1>1 DEF RunsOK, HeldRunsAreOpen
<1>3. StatusOf(frame[t].result) \in FinalStatuses
    BY <1>1, FinalStatusOfResult
<1> DEFINE status == StatusOf(frame[t].result)
<1> HIDE DEF status
<1>4. executions' = [executions EXCEPT ![frame[t].run].status = status]
    BY <1>1 DEF status
<1>5. /\ DOMAIN executions' = DOMAIN executions
      /\ \A id \in DOMAIN executions :
            IF id = frame[t].run
            THEN executions'[id] = [executions[id] EXCEPT !.status = status]
            ELSE executions'[id] = executions[id]
    BY <1>1, <1>2, <1>4
<1>6. Len(executions') = Len(executions)
  <2>1. executions' \in Seq(ExecutionRows)
      BY FinaliseExecutionCalls DEF CallsOK, TypeOK
  <2> QED BY <1>1, <1>5, <2>1
<1> QED BY <1>2, <1>3, <1>5, <1>6 DEF status

LEMMA AppendToSingleton ==
    ASSUME NEW S, NEW a \in S, NEW b \in S
    PROVE  Append(<<a>>, b) = <<a, b>>
<1> DEFINE s == Append(<<a>>, b)
           p == <<a, b>>
<1>1. /\ <<a>> \in Seq(S) /\ p \in Seq(S)
      /\ Len(<<a>>) = 1 /\ Len(p) = 2
      /\ p[1] = a /\ p[2] = b
    OBVIOUS
<1>2. s \in Seq(S) /\ Len(s) = 2 /\ s[1] = a /\ s[2] = b
    BY <1>1, AppendProperties
<1>3. \A i \in 1..Len(s) : s[i] = p[i]
  <2> TAKE i \in 1..Len(s)
  <2>1. i = 1 \/ i = 2
      BY <1>2
  <2> QED BY <1>1, <1>2, <2>1
<1> HIDE DEF s, p
<1>4. s = p
    BY <1>1, <1>2, <1>3, SeqEqual
<1> QED BY <1>4 DEF s, p

LEMMA FinaliseExecutionRuns ==
    ASSUME CallsOK, RunsOK, NEW t \in Threads, FinaliseExecution(t)
    PROVE  RunsOK'
<1> DEFINE run == frame[t].run
           status == StatusOf(frame[t].result)
<1>1. /\ run \in DOMAIN executions
      /\ executions[run].status = RUNNING
      /\ DOMAIN executions' = DOMAIN executions
      /\ Len(executions') = Len(executions)
      /\ \A id \in DOMAIN executions :
            IF id = run
            THEN executions'[id] = [executions[id] EXCEPT !.status = status]
            ELSE executions'[id] = executions[id]
      /\ status \in FinalStatuses
    BY FinaliseEffect
<1>2. trail' = [trail EXCEPT ![run] = Append(@, FinalActionOf(status))] /\ Return(t)
    BY DEF FinaliseExecution
<1> HIDE DEF run, status
<1>3. executions \in Seq(ExecutionRows) /\ trail \in Seq(Seq(AuditActions))
    BY DEF CallsOK, TypeOK
<1>4. \A id \in DOMAIN executions :
         /\ executions'[id].job = executions[id].job
         /\ executions'[id].trigger = executions[id].trigger
         /\ executions'[id].status = IF id = run THEN status ELSE executions[id].status
  <2> SUFFICES ASSUME NEW id \in DOMAIN executions
               PROVE  /\ executions'[id].job = executions[id].job
                      /\ executions'[id].trigger = executions[id].trigger
                      /\ executions'[id].status =
                           IF id = run THEN status ELSE executions[id].status
      OBVIOUS
  <2>1. executions[id] \in ExecutionRows
      BY <1>3
  <2>2. CASE id = run
      BY <1>1, <2>1, <2>2 DEF ExecutionRows
  <2>3. CASE id # run
      BY <1>1, <2>3
  <2> QED BY <2>2, <2>3
<1>5. status # RUNNING
    BY <1>1 DEF FinalStatuses, RUNNING
<1>6. /\ \A u \in Threads : u # t => pc'[u] = pc[u] /\ frame'[u] = frame[u]
      /\ pc'[t] = "idle" /\ frame'[t] = IdleFrame
    BY <1>2 DEF Return, CallsOK, TypeOK
<1>7. TrailMatchesStatus'
  <2>1. Len(trail) = Len(executions) /\ trail[run] = <<"STARTED">>
      BY <1>1 DEF RunsOK, TrailMatchesStatus, StatusTrail
  <2>2. run \in DOMAIN trail /\ DOMAIN trail = DOMAIN executions
      BY <1>1, <1>3, <2>1
  <2>3. Append(<<"STARTED">>, FinalActionOf(status)) = <<"STARTED", FinalActionOf(status)>>
    <3>1. "STARTED" \in AuditActions /\ FinalActionOf(status) \in AuditActions
        BY <1>1 DEF FinalStatuses, FinalActionOf, AuditActions
    <3> QED BY <3>1, AppendToSingleton
  <2>4. /\ trail'[run] = <<"STARTED", FinalActionOf(status)>>
        /\ \A id \in DOMAIN executions : id # run => trail'[id] = trail[id]
      BY <1>2, <2>1, <2>2, <2>3
  <2>5. Len(trail') = Len(executions')
    <3>1. trail' \in Seq(Seq(AuditActions)) /\ DOMAIN trail' = DOMAIN trail
        BY <1>2, FinaliseExecutionCalls DEF CallsOK, TypeOK
    <3> QED BY <1>1, <1>3, <2>1, <3>1
  <2>6. \A id \in DOMAIN executions : trail'[id] = StatusTrail(executions'[id].status)
      BY <1>4, <1>5, <2>4 DEF RunsOK, TrailMatchesStatus, StatusTrail
  <2> QED BY <1>1, <2>5, <2>6 DEF TrailMatchesStatus, StatusTrail
<1>8. HeldRunsAreOpen'
  <2>1. \A u \in Threads : u # t /\ frame[u].run # 0 => frame[u].run # run
      BY <1>1 DEF RunsOK, HeldRunsAreOpen, run
  <2>2. IdleFrame.run = 0
      BY DEF IdleFrame
  <2> QED BY <1>1, <1>4, <1>6, <2>1, <2>2 DEF RunsOK, HeldRunsAreOpen
<1>9. \A j : RunningScheduled(j)' \subseteq RunningScheduled(j)
    BY <1>1, <1>4, <1>5 DEF RunningScheduled
<1>10. OneRunningScheduledRow'
    BY <1>9 DEF RunsOK, OneRunningScheduledRow
<1>11. ViewsOK'
  <2> SUFFICES ASSUME NEW u \in SchedThreads, pc'[u] \in Deciding
               PROVE  ViewOK(u)'
      BY DEF ViewsOK
  <2>1. pc[u] \in Deciding /\ frame'[u] = frame[u] /\ ViewOK(u)
      BY <1>6 DEF RunsOK, ViewsOK, Deciding, Threads
  <2>2. RunningScheduled(frame[u].job)' = {}
      BY <1>9, <2>1 DEF ViewOK
  <2> QED BY <1>1, <1>4, <1>5, <2>1, <2>2 DEF ViewOK, RunningScheduled
<1> QED BY <1>7, <1>8, <1>10, <1>11 DEF RunsOK

LEMMA RunsNext == CallsOK /\ RunsOK /\ [Next]_vars => RunsOK'
<1> SUFFICES ASSUME CallsOK, RunsOK, [Next]_vars PROVE RunsOK'
    OBVIOUS
<1>1. CASE \E t \in Threads : StartExecution(t) \/ FinaliseExecution(t)
    BY <1>1, StartExecutionRuns, FinaliseExecutionRuns
<1>2. CASE ~ \E t \in Threads : StartExecution(t) \/ FinaliseExecution(t)
    BY <1>2, QuietSteps, QuietRuns
<1> QED BY <1>1, <1>2

LEMMA RunsInvariant == Spec => []RunsOK
BY RunsInit, RunsNext, CallsInvariant, PTL DEF Spec

\* The audit trail of every execution matches its row in every reachable
\* state, whatever commit fails and whenever the process restarts.
THEOREM TrailCorrect == Spec => []TrailMatchesStatus
BY RunsInvariant, PTL DEF RunsOK

\* A row that some caller still has to finalise is RUNNING, belongs to the
\* job the caller was asked to run, and is held by no other caller.
THEOREM HeldRunsCorrect == Spec => []HeldRunsAreOpen
BY RunsInvariant, PTL DEF RunsOK

\* max_instances and has_running_execution together keep scheduled runs of a
\* job exclusive, although neither does alone: the counter does not survive a
\* restart, and the check is not atomic with the insert.
THEOREM ScheduledRunsExclusive == Spec => []OneRunningScheduledRow
BY RunsInvariant, PTL DEF RunsOK

-----------------------------------------------------------------------------
(***************************************************************************)
(* What no step may do.                                                    *)
(***************************************************************************)
LEMMA FrozenStep ==
    ASSUME CallsOK, RunsOK, [Next]_vars
    PROVE  \A id \in DOMAIN executions :
              /\ id \in DOMAIN executions'
              /\ executions'[id].job = executions[id].job
              /\ executions'[id].trigger = executions[id].trigger
              /\ executions[id].status # RUNNING => executions'[id] = executions[id]
<1>0. executions \in Seq(ExecutionRows)
    BY DEF CallsOK, TypeOK
<1>1. CASE \E t \in Threads : StartExecution(t)
  <2>1. PICK t \in Threads : StartExecution(t)
      BY <1>1
  <2> DEFINE row == [job |-> frame[t].job, trigger |-> TriggerOf(t), status |-> RUNNING]
  <2>2. executions' = Append(executions, row)
      BY <2>1 DEF StartExecution
  <2> HIDE DEF row
  <2> QED BY <1>0, <2>2
<1>2. CASE \E t \in Threads : FinaliseExecution(t)
  <2>1. PICK t \in Threads : FinaliseExecution(t)
      BY <1>2
  <2> DEFINE run == frame[t].run
             status == StatusOf(frame[t].result)
  <2>2. /\ executions[run].status = RUNNING
        /\ DOMAIN executions' = DOMAIN executions
        /\ \A id \in DOMAIN executions :
              IF id = run
              THEN executions'[id] = [executions[id] EXCEPT !.status = status]
              ELSE executions'[id] = executions[id]
      BY <2>1, FinaliseEffect
  <2> HIDE DEF run, status
  <2> TAKE id \in DOMAIN executions
  <2>3. executions[id] \in ExecutionRows
      BY <1>0
  <2>4. CASE id = run
      BY <2>2, <2>3, <2>4 DEF ExecutionRows
  <2>5. CASE id # run
      BY <2>2, <2>5
  <2> QED BY <2>4, <2>5
<1>3. CASE ~ \E t \in Threads : StartExecution(t) \/ FinaliseExecution(t)
    BY <1>3, QuietSteps DEF Quiet
<1> QED BY <1>1, <1>2, <1>3

\* No step rewrites a final status, or the job or the trigger of a row, or
\* removes a row: the history of finished runs is append-only.
THEOREM FinalRowsFrozen == Spec => FinalRowsAreFrozen
BY FrozenStep, CallsInvariant, RunsInvariant, PTL DEF Spec, FinalRowsAreFrozen

\* A fire starts its run only beside runs recorded after it looked for one.
THEOREM StartsKnowingly == Spec => NoStartOverAKnownRun
<1>1. ASSUME RunsOK, [Next]_vars
      PROVE  \A t \in SchedThreads : pc[t] = "start" /\ pc'[t] = "launch" =>
                \A id \in DOMAIN executions :
                   executions[id].job = frame[t].job /\ executions[id].status = RUNNING
                      => id > frame[t].seen
    BY <1>1 DEF RunsOK, ViewsOK, ViewOK, Deciding
<1> QED BY <1>1, RunsInvariant, PTL DEF Spec, NoStartOverAKnownRun

-----------------------------------------------------------------------------
(***************************************************************************)
(* The stale copy of the job's row hides a pause: "paused" is no reason    *)
(* any fire records.                                                       *)
(***************************************************************************)
LEMMA PausedStep ==
    ASSUME CallsOK, PausedIsNeverTheReason, [Next]_vars
    PROVE  PausedIsNeverTheReason'
<1>1. CASE \E t \in Threads : RecordSkip(t)
  <2>1. PICK t \in Threads : RecordSkip(t)
      BY <1>1
  <2> DEFINE r == frame[t].reason
             j == frame[t].job
  <2>2. r \in SkipReasons \ {"paused"} /\ skips' = [skips EXCEPT ![j][r] = @ + 1]
      BY <2>1 DEF RecordSkip, CallsOK, FramesOK
  <2>3. skips \in [Jobs -> [SkipReasons -> Nat]]
      BY DEF CallsOK, TypeOK
  <2> HIDE DEF r, j
  <2>4. \A k \in Jobs : skips'[k]["paused"] = skips[k]["paused"]
      BY <2>2, <2>3
  <2> QED BY <2>4 DEF PausedIsNeverTheReason
<1>2. CASE ~ \E t \in Threads : RecordSkip(t)
  <2>1. UNCHANGED skips
      BY <1>2 DEF Next, vars, database, process, Work, Fire, RequestRun, FireAtMaxInstances,
         EditJob, EditScript, ChangeFile, Edit, CommitFails, Restart, LoadJob, CheckRunning,
         RereadJob, RaiseJobInactive, RaiseScriptUnavailable, RaiseScriptPath, Refuse,
         GiveUp, ResolveScript, StartExecution, RaiseUnsupportedScript, LaunchScript,
         FinaliseExecution
  <2> QED BY <2>1 DEF PausedIsNeverTheReason
<1> QED BY <1>1, <1>2

\* run_scheduled_job never records a skip with the reason of JobInactiveError: the
\* copy it re-reads in one session still says is_active.  So what the header of
\* scheduler/jobs.py says of a "job flipped to inactive" happens for no values of
\* the constants: a job that is paused after the first read is run.
THEOREM PausedNeverRecorded == Spec => []PausedIsNeverTheReason
<1>1. Init => PausedIsNeverTheReason
    BY DEF Init, PausedIsNeverTheReason, SkipReasons
<1> QED BY <1>1, PausedStep, CallsInvariant, PTL DEF Spec

-----------------------------------------------------------------------------
(***************************************************************************)
(* The executions table implements RunLedger.                              *)
(***************************************************************************)
LEMMA LedgerQuiet ==
    ASSUME CallsOK, Quiet
    PROVE  UNCHANGED Ledger!vars \/ \E ids \in SUBSET OpenRuns : Ledger!Abandon(ids)
<1>1. UNCHANGED executions /\ \A t \in Threads : frame'[t].run \in {0, frame[t].run}
    BY DEF Quiet, KeepsRun
<1>2. OpenRuns' \subseteq OpenRuns
    BY <1>1 DEF OpenRuns
<1>3. CASE OpenRuns' = OpenRuns
    BY <1>1, <1>3 DEF Ledger!vars
<1>4. CASE OpenRuns' # OpenRuns
  <2> DEFINE ids == OpenRuns \ OpenRuns'
  <2>1. ids \in SUBSET OpenRuns /\ ids # {} /\ OpenRuns' = OpenRuns \ ids
      BY <1>2, <1>4
  <2> QED BY <1>1, <2>1 DEF Ledger!Abandon
<1> QED BY <1>3, <1>4

LEMMA LedgerBegin ==
    ASSUME CallsOK, RunsOK, NEW t \in Threads, StartExecution(t)
    PROVE  Ledger!Begin(frame[t].job, TriggerOf(t)) /\ frame[t].job \in Jobs
<1>1. /\ pc[t] = "start" /\ frame[t] \in Frames /\ frame[t].run = 0
      /\ frame[t].job \in Jobs
    BY DEF StartExecution, CallsOK, TypeOK, FramesOK
<1>2. executions' = Append(executions, [job |-> frame[t].job, trigger |-> TriggerOf(t),
                                        status |-> RUNNING])
    BY DEF StartExecution
<1>3. TriggerOf(t) = "scheduled" => Ledger!RunningRows(frame[t].job, "scheduled") = {}
  <2>1. ASSUME TriggerOf(t) = "scheduled" PROVE RunningScheduled(frame[t].job) = {}
      BY <1>1, <2>1 DEF TriggerOf, RunsOK, ViewsOK, ViewOK, Deciding
  <2> QED BY <2>1 DEF Ledger!RunningRows, RunningScheduled
<1>4. OpenRuns' = OpenRuns \cup {Len(executions) + 1}
  <2> DEFINE n == Len(executions) + 1
             local == [frame[t] EXCEPT !.run = n]
  <2>1. local.run = n /\ n # 0
      BY <1>1 DEF Frames, CallsOK, TypeOK
  <2>2. frame' = [frame EXCEPT ![t] = local]
      BY DEF StartExecution, Goto
  <2> HIDE DEF local, n
  <2>3. \A u \in Threads : frame'[u].run = IF u = t THEN n ELSE frame[u].run
      BY <2>1, <2>2 DEF CallsOK, TypeOK
  <2>4. OpenRuns' = OpenRuns \cup {n}
      BY <1>1, <2>1, <2>3 DEF OpenRuns
  <2> QED BY <2>4 DEF n
<1> QED BY <1>1, <1>2, <1>3, <1>4 DEF Ledger!Begin

LEMMA LedgerClose ==
    ASSUME CallsOK, RunsOK, NEW t \in Threads, FinaliseExecution(t)
    PROVE  /\ Ledger!Close(frame[t].run, StatusOf(frame[t].result))
           /\ frame[t].run \in OpenRuns
           /\ StatusOf(frame[t].result) \in FinalStatuses
<1>1. /\ frame[t].run # 0
      /\ executions' = [executions EXCEPT ![frame[t].run].status = StatusOf(frame[t].result)]
      /\ frame' = [frame EXCEPT ![t] = IdleFrame]
    BY DEF FinaliseExecution, Return, CallsOK, FramesOK
<1>2. StatusOf(frame[t].result) \in FinalStatuses
    BY FinaliseEffect
<1>3. frame[t].run \in OpenRuns
    BY <1>1 DEF OpenRuns
<1>4. OpenRuns' = OpenRuns \ {frame[t].run}
  <2>1. \A u \in Threads : frame'[u].run = IF u = t THEN 0 ELSE frame[u].run
      BY <1>1 DEF IdleFrame, CallsOK, TypeOK
  <2>2. \A u \in Threads : u # t /\ frame[u].run # 0 => frame[u].run # frame[t].run
      BY <1>1 DEF RunsOK, HeldRunsAreOpen
  <2> QED BY <1>1, <2>1, <2>2 DEF OpenRuns
<1> QED BY <1>1, <1>2, <1>3, <1>4 DEF Ledger!Close

LEMMA LedgerStep ==
    ASSUME CallsOK, RunsOK, [Next]_vars
    PROVE  [Ledger!Next]_(Ledger!vars)
<1>1. CASE \E t \in Threads : StartExecution(t)
  <2>1. PICK t \in Threads : StartExecution(t)
      BY <1>1
  <2>2. TriggerOf(t) \in Triggers
      BY DEF TriggerOf, Triggers
  <2> QED BY <2>1, <2>2, LedgerBegin DEF Ledger!Next
<1>2. CASE \E t \in Threads : FinaliseExecution(t)
    BY <1>2, LedgerClose DEF Ledger!Next
<1>3. CASE ~ \E t \in Threads : StartExecution(t) \/ FinaliseExecution(t)
    BY <1>3, QuietSteps, LedgerQuiet DEF Ledger!Next
<1> QED BY <1>1, <1>2, <1>3

\* The pipeline implements the ledger: every run is recorded before its
\* process exists, closed at most once and by the caller that opened it, and
\* the scheduler never begins a run beside an open scheduled one.
THEOREM EngineImplementsLedger == Spec => ImplementsLedger
<1>1. Init => Ledger!Init
    BY DEF Init, Ledger!Init, OpenRuns, IdleFrame
<1> QED BY <1>1, LedgerStep, CallsInvariant, RunsInvariant, PTL
        DEF Spec, ImplementsLedger, Ledger!Spec

-----------------------------------------------------------------------------
(***************************************************************************)
(* Every fire is accounted for.  A job's slot admits one thread at a time, *)
(* so at most one fire of the job is undecided; the lemmas say what each   *)
(* kind of step does to the threads that are.                              *)
(***************************************************************************)
UndecidedStages == {"load", "check", "reread", "resolve", "skip", "start"}

LEMMA AtMostOne ==
    ASSUME NEW S, \A a, b \in S : a = b
    PROVE  Cardinality(S) = IF S = {} THEN 0 ELSE 1
<1>1. CASE S = {}
    BY <1>1, FS_EmptySet
<1>2. CASE S # {}
  <2>1. PICK a : a \in S
      BY <1>2
  <2>2. S = {a}
      BY <2>1
  <2>3. Cardinality({a}) = 1
      BY FS_Singleton
  <2> QED BY <1>2, <2>2, <2>3
<1> QED BY <1>1, <1>2

LEMMA PendingCount ==
    ASSUME SlotsOK, NEW j
    PROVE  Pending(j) = IF \E t \in SchedThreads : Undecided(t, j) THEN 1 ELSE 0
<1> DEFINE S == {t \in SchedThreads : Undecided(t, j)}
<1>1. \A a, b \in S : a = b
    BY DEF SlotsOK, Undecided
<1>2. Cardinality(S) = IF S = {} THEN 0 ELSE 1
    BY <1>1, AtMostOne
<1> QED BY <1>2 DEF Pending

LEMMA PendingCountNext ==
    ASSUME SlotsOK', NEW j
    PROVE  Pending(j)' = IF \E t \in SchedThreads : Undecided(t, j)' THEN 1 ELSE 0
<1> DEFINE S == {t \in SchedThreads : Undecided(t, j)'}
<1>1. \A a, b \in S : a = b
    BY DEF SlotsOK, Undecided
<1>2. Cardinality(S) = IF S = {} THEN 0 ELSE 1
    BY <1>1, AtMostOne
<1> QED BY <1>2 DEF Pending

LEMMA PendingSame ==
    ASSUME SlotsOK, SlotsOK', NEW j,
           \A u \in SchedThreads : Undecided(u, j)' <=> Undecided(u, j)
    PROVE  Pending(j)' = Pending(j)
BY PendingCount, PendingCountNext

LEMMA PendingStarts ==
    ASSUME SlotsOK, SlotsOK', NEW j, NEW t \in SchedThreads,
           \A u \in SchedThreads : ~Undecided(u, j),
           Undecided(t, j)'
    PROVE  Pending(j) = 0 /\ Pending(j)' = 1
BY PendingCount, PendingCountNext

LEMMA PendingEnds ==
    ASSUME SlotsOK, SlotsOK', NEW j, NEW t \in SchedThreads,
           Undecided(t, j),
           \A u \in SchedThreads : ~Undecided(u, j)'
    PROVE  Pending(j) = 1 /\ Pending(j)' = 0
BY PendingCount, PendingCountNext

\* Only one thread can be undecided about a job.
LEMMA OneUndecided ==
    ASSUME SlotsOK, NEW j, NEW t \in SchedThreads, Undecided(t, j),
           NEW u \in SchedThreads, Undecided(u, j)
    PROVE  u = t
BY DEF SlotsOK, Undecided

LEMMA ReturnUndecided ==
    ASSUME CallsOK, NEW t \in Threads, Return(t), NEW u \in SchedThreads, NEW j
    PROVE  Undecided(u, j)' <=> u # t /\ Undecided(u, j)
BY DEF CallsOK, TypeOK, Return, Undecided, Threads

LEMMA GotoUndecided ==
    ASSUME CallsOK, NEW t \in Threads, NEW stage, NEW local,
           Goto(t, stage, local), local.job = frame[t].job,
           pc[t] \in UndecidedStages,
           NEW u \in SchedThreads, NEW j
    PROVE  Undecided(u, j)' <=> Undecided(u, j) /\ (u = t => stage \in UndecidedStages)
<1>1. /\ pc'[u] = IF u = t THEN stage ELSE pc[u]
      /\ frame'[u] = IF u = t THEN local ELSE frame[u]
    BY DEF CallsOK, TypeOK, Goto, Threads
<1> QED BY <1>1 DEF Undecided, UndecidedStages

-----------------------------------------------------------------------------
(***************************************************************************)
(* The other side of the balance: rows and records.                        *)
(***************************************************************************)
ScheduledIds(j) == {id \in DOMAIN executions : /\ executions[id].job = j
                                               /\ executions[id].trigger = "scheduled"}

LEMMA CountsType ==
    ASSUME CallsOK, NEW j \in Jobs
    PROVE  /\ IsFiniteSet(ScheduledIds(j))
           /\ ScheduledRuns(j) = Cardinality(ScheduledIds(j))
           /\ ScheduledRuns(j) \in Nat
           /\ Skipped(j) \in Nat
           /\ Dropped(j) \in Nat
           /\ fired[j] \in Nat
           /\ Pending(j) \in Nat
<1>1. executions \in Seq(ExecutionRows)
    BY DEF CallsOK, TypeOK
<1>2. IsFiniteSet(DOMAIN executions)
    BY <1>1, LenProperties, FS_Interval
<1>3. ScheduledIds(j) \subseteq DOMAIN executions
    BY DEF ScheduledIds
<1>4. IsFiniteSet(ScheduledIds(j))
    BY <1>2, <1>3, FS_Subset
<1>5. ScheduledRuns(j) = Cardinality(ScheduledIds(j))
    BY DEF ScheduledRuns, ScheduledIds
<1>6. ScheduledRuns(j) \in Nat
    BY <1>4, <1>5, FS_CardinalityType
<1>7. Pending(j) \in Nat
    BY PendingCount DEF CallsOK
<1>8. Skipped(j) \in Nat /\ Dropped(j) \in Nat
  <2>1. skips[j] \in [SkipReasons -> Nat] /\ discarded[j] \in [DiscardCauses -> Nat]
      BY DEF CallsOK, TypeOK
  <2> QED BY <2>1 DEF Skipped, Dropped, SkipReasons, DiscardCauses
<1>9. fired[j] \in Nat
    BY DEF CallsOK, TypeOK
<1> QED BY <1>4, <1>5, <1>6, <1>7, <1>8, <1>9

\* A step that writes no row of a job's scheduled runs leaves their number.
LEMMA SameScheduledRuns ==
    ASSUME NEW j, ScheduledIds(j)' = ScheduledIds(j)
    PROVE  ScheduledRuns(j)' = ScheduledRuns(j)
BY DEF ScheduledRuns, ScheduledIds

\* What a step leaves alone when it neither takes nor settles a fire.
Untouched ==
    /\ UNCHANGED <<skips, discarded, fired>>
    /\ \A j \in Jobs : /\ ScheduledIds(j)' = ScheduledIds(j)
                       /\ \A u \in SchedThreads : Undecided(u, j)' <=> Undecided(u, j)

LEMMA UntouchedAccount ==
    ASSUME CallsOK, CallsOK', FiresAccounted, Untouched
    PROVE  FiresAccounted'
<1>1. SlotsOK /\ SlotsOK'
    BY DEF CallsOK
<1> SUFFICES ASSUME NEW j \in Jobs
             PROVE  (fired[j] = ScheduledRuns(j) + Skipped(j) + Pending(j) + Dropped(j))'
    BY DEF FiresAccounted
<1>2. ScheduledRuns(j)' = ScheduledRuns(j) /\ Pending(j)' = Pending(j)
    BY <1>1, SameScheduledRuns, PendingSame DEF Untouched
<1>3. fired'[j] = fired[j] /\ Skipped(j)' = Skipped(j) /\ Dropped(j)' = Dropped(j)
    BY DEF Untouched, Skipped, Dropped
<1> QED BY <1>2, <1>3 DEF FiresAccounted

LEMMA DiscardCount ==
    ASSUME CallsOK, NEW j \in Jobs, NEW cause \in DiscardCauses, Discard(j, cause),
           NEW k \in Jobs
    PROVE  Dropped(k)' = IF k = j THEN Dropped(k) + 1 ELSE Dropped(k)
<1>1. discarded \in [Jobs -> [DiscardCauses -> Nat]]
    BY DEF CallsOK, TypeOK
<1>2. \A c \in DiscardCauses : /\ discarded[k][c] \in Nat
                               /\ discarded'[k][c] = IF k = j /\ c = cause
                                                     THEN discarded[k][c] + 1
                                                     ELSE discarded[k][c]
    BY <1>1 DEF Discard
<1> QED BY <1>2 DEF Dropped, DiscardCauses

\* A fire that ends without a record moves from the undecided to the dropped.
LEMMA DropAccount ==
    ASSUME CallsOK, CallsOK', FiresAccounted,
           NEW t \in SchedThreads, pc[t] \in UndecidedStages,
           Return(t), NEW cause \in DiscardCauses, Discard(frame[t].job, cause),
           UNCHANGED <<executions, skips, fired>>
    PROVE  FiresAccounted'
<1> DEFINE j == frame[t].job
<1>1. t \in Threads /\ j \in Jobs /\ Undecided(t, j) /\ SlotsOK /\ SlotsOK'
    BY DEF Threads, CallsOK, FramesOK, UndecidedStages, Undecided
<1> SUFFICES ASSUME NEW k \in Jobs
             PROVE  (fired[k] = ScheduledRuns(k) + Skipped(k) + Pending(k) + Dropped(k))'
    BY DEF FiresAccounted
<1>2. /\ ScheduledRuns(k)' = ScheduledRuns(k)
      /\ fired'[k] = fired[k]
      /\ Skipped(k)' = Skipped(k)
    BY SameScheduledRuns DEF ScheduledIds, Skipped
<1>3. Dropped(k)' = IF k = j THEN Dropped(k) + 1 ELSE Dropped(k)
    BY <1>1, DiscardCount
<1>4. CASE k = j
  <2>1. Undecided(t, k) /\ \A u \in SchedThreads : Undecided(u, k) => u = t
      BY <1>1, <1>4, OneUndecided
  <2>2. \A u \in SchedThreads : ~Undecided(u, k)'
      BY <1>1, <2>1, ReturnUndecided
  <2>3. Pending(k) = 1 /\ Pending(k)' = 0
      BY <1>1, <2>1, <2>2, PendingEnds
  <2> QED BY <1>2, <1>3, <1>4, <2>3, CountsType DEF FiresAccounted
<1>5. CASE k # j
  <2>1. ~Undecided(t, k)
      BY <1>5 DEF Undecided
  <2>2. \A u \in SchedThreads : Undecided(u, k)' <=> Undecided(u, k)
      BY <1>1, <2>1, ReturnUndecided
  <2>3. Pending(k)' = Pending(k)
      BY <1>1, <2>2, PendingSame
  <2> QED BY <1>2, <1>3, <1>5, <2>3, CountsType DEF FiresAccounted
<1> QED BY <1>4, <1>5

-----------------------------------------------------------------------------
(***************************************************************************)
(* One lemma per kind of step.                                             *)
(***************************************************************************)
LEMMA GiveUpAccount ==
    ASSUME CallsOK, CallsOK', FiresAccounted,
           NEW t \in Threads, pc[t] \in UndecidedStages,
           NEW cause \in DiscardCauses, GiveUp(t, cause)
    PROVE  FiresAccounted'
<1>1. CASE t \in SchedThreads
    BY <1>1, DropAccount DEF GiveUp, database
<1>2. CASE t \notin SchedThreads
  <2>1. \A u \in SchedThreads, j \in Jobs : Undecided(u, j)' <=> Undecided(u, j)
      BY <1>2, ReturnUndecided DEF GiveUp
  <2>2. Untouched
      BY <1>2, <2>1 DEF Untouched, GiveUp, database, ScheduledIds
  <2> QED BY <2>2, UntouchedAccount
<1> QED BY <1>1, <1>2

LEMMA GotoAccount ==
    ASSUME CallsOK, CallsOK', FiresAccounted,
           NEW t \in Threads, pc[t] \in UndecidedStages,
           NEW stage \in UndecidedStages, NEW local,
           Goto(t, stage, local), local.job = frame[t].job,
           UNCHANGED database
    PROVE  FiresAccounted'
<1>1. \A u \in SchedThreads, j \in Jobs : Undecided(u, j)' <=> Undecided(u, j)
    BY GotoUndecided
<1>2. Untouched
    BY <1>1 DEF Untouched, Goto, database, ScheduledIds
<1> QED BY <1>2, UntouchedAccount

LEMMA GoSkipAccount ==
    ASSUME CallsOK, CallsOK', FiresAccounted,
           NEW t \in Threads, pc[t] \in UndecidedStages,
           NEW reason, GoSkip(t, reason), UNCHANGED database
    PROVE  FiresAccounted'
<1> DEFINE local == [frame[t] EXCEPT !.reason = reason]
<1>1. local.job = frame[t].job
    BY DEF CallsOK, TypeOK, Frames
<1>2. Goto(t, "skip", local) /\ "skip" \in UndecidedStages
    BY DEF GoSkip, UndecidedStages
<1> HIDE DEF local
<1> QED BY <1>1, <1>2, GotoAccount

LEMMA RefuseAccount ==
    ASSUME CallsOK, CallsOK', FiresAccounted,
           NEW t \in Threads, pc[t] = "resolve", NEW reason, Refuse(t, reason)
    PROVE  FiresAccounted'
<1>1. pc[t] \in UndecidedStages /\ "error" \in DiscardCauses
    BY DEF UndecidedStages, DiscardCauses
<1> QED BY <1>1, GoSkipAccount, GiveUpAccount DEF Refuse

LEMMA LoadJobAccount ==
    ASSUME CallsOK, CallsOK', FiresAccounted, NEW t \in Threads, LoadJob(t)
    PROVE  FiresAccounted'
<1> DEFINE row == jobRow[frame[t].job]
           local == [frame[t] EXCEPT !.active = row.active, !.script = row.script]
<1>1. pc[t] \in UndecidedStages
    BY DEF LoadJob, UndecidedStages
<1>2. CASE GiveUp(t, "ignored")
    BY <1>1, <1>2, GiveUpAccount DEF DiscardCauses
<1>3. CASE Goto(t, "check", local) /\ UNCHANGED database
  <2>1. local.job = frame[t].job /\ "check" \in UndecidedStages
      BY DEF CallsOK, TypeOK, Frames, UndecidedStages
  <2> HIDE DEF local
  <2> QED BY <1>1, <1>3, <2>1, GotoAccount
<1> QED BY <1>2, <1>3 DEF LoadJob

LEMMA CheckRunningAccount ==
    ASSUME CallsOK, CallsOK', FiresAccounted, NEW t \in Threads, CheckRunning(t)
    PROVE  FiresAccounted'
<1> DEFINE local == [frame[t] EXCEPT !.seen = Len(executions)]
<1>1. pc[t] \in UndecidedStages /\ UNCHANGED database
    BY DEF CheckRunning, UndecidedStages
<1>2. CASE GoSkip(t, "already_running")
    BY <1>1, <1>2, GoSkipAccount
<1>3. CASE Goto(t, "reread", local)
  <2>1. local.job = frame[t].job /\ "reread" \in UndecidedStages
      BY DEF CallsOK, TypeOK, Frames, UndecidedStages
  <2> HIDE DEF local
  <2> QED BY <1>1, <1>3, <2>1, GotoAccount
<1> QED BY <1>2, <1>3 DEF CheckRunning

LEMMA RereadJobAccount ==
    ASSUME CallsOK, CallsOK', FiresAccounted, NEW t \in Threads, RereadJob(t)
    PROVE  FiresAccounted'
<1>1. pc[t] \in UndecidedStages /\ UNCHANGED database /\ "resolve" \in UndecidedStages
    BY DEF RereadJob, UndecidedStages
<1>2. GoSkip(t, "no_longer_exists") \/ Goto(t, "resolve", frame[t])
    BY DEF RereadJob
<1> QED BY <1>1, <1>2, GoSkipAccount, GotoAccount

LEMMA ResolveAccount ==
    ASSUME CallsOK, CallsOK', FiresAccounted, NEW t \in Threads,
           \/ RaiseJobInactive(t) \/ RaiseScriptUnavailable(t)
           \/ RaiseScriptPath(t) \/ ResolveScript(t)
    PROVE  FiresAccounted'
<1>1. pc[t] = "resolve"
    BY DEF RaiseJobInactive, RaiseScriptUnavailable, RaiseScriptPath, ResolveScript
<1>2. pc[t] \in UndecidedStages /\ "start" \in UndecidedStages /\ "error" \in DiscardCauses
    BY <1>1 DEF UndecidedStages, DiscardCauses
<1>3. CASE RaiseJobInactive(t) \/ RaiseScriptUnavailable(t)
    BY <1>1, <1>3, RefuseAccount DEF RaiseJobInactive, RaiseScriptUnavailable
<1>4. CASE RaiseScriptPath(t)
    BY <1>2, <1>4, GiveUpAccount DEF RaiseScriptPath
<1>5. CASE ResolveScript(t)
    BY <1>2, <1>5, GotoAccount DEF ResolveScript
<1> QED BY <1>3, <1>4, <1>5

\* The record of a skip settles the fire.
LEMMA RecordSkipAccount ==
    ASSUME CallsOK, CallsOK', FiresAccounted, NEW t \in Threads, RecordSkip(t)
    PROVE  FiresAccounted'
<1> DEFINE j == frame[t].job
           r == frame[t].reason
<1>1. /\ t \in SchedThreads /\ j \in Jobs /\ Undecided(t, j) /\ Return(t)
      /\ SlotsOK /\ SlotsOK' /\ r \in SkipReasons
      /\ skips' = [skips EXCEPT ![j][r] = @ + 1]
      /\ UNCHANGED <<executions, fired, discarded>>
    BY DEF RecordSkip, CallsOK, FramesOK, Undecided
<1> SUFFICES ASSUME NEW k \in Jobs
             PROVE  (fired[k] = ScheduledRuns(k) + Skipped(k) + Pending(k) + Dropped(k))'
    BY DEF FiresAccounted
<1>2. /\ ScheduledRuns(k)' = ScheduledRuns(k)
      /\ fired'[k] = fired[k]
      /\ Dropped(k)' = Dropped(k)
    BY <1>1, SameScheduledRuns DEF ScheduledIds, Dropped
<1>3. Skipped(k)' = IF k = j THEN Skipped(k) + 1 ELSE Skipped(k)
  <2>1. skips \in [Jobs -> [SkipReasons -> Nat]]
      BY DEF CallsOK, TypeOK
  <2> HIDE DEF j, r
  <2>2. \A c \in SkipReasons : /\ skips[k][c] \in Nat
                               /\ skips'[k][c] = IF k = j /\ c = r
                                                 THEN skips[k][c] + 1 ELSE skips[k][c]
      BY <1>1, <2>1
  <2> QED BY <1>1, <2>2 DEF Skipped, SkipReasons
<1>4. CASE k = j
  <2>1. Undecided(t, k) /\ \A u \in SchedThreads : Undecided(u, k) => u = t
      BY <1>1, <1>4, OneUndecided
  <2>2. \A u \in SchedThreads : ~Undecided(u, k)'
      BY <1>1, <2>1, ReturnUndecided
  <2>3. Pending(k) = 1 /\ Pending(k)' = 0
      BY <1>1, <2>1, <2>2, PendingEnds
  <2> QED BY <1>2, <1>3, <1>4, <2>3, CountsType DEF FiresAccounted
<1>5. CASE k # j
  <2>1. \A u \in SchedThreads : Undecided(u, k)' <=> Undecided(u, k)
      BY <1>1, <1>5, ReturnUndecided DEF Undecided
  <2>2. Pending(k)' = Pending(k)
      BY <1>1, <2>1, PendingSame
  <2> QED BY <1>2, <1>3, <1>5, <2>2, CountsType DEF FiresAccounted
<1> QED BY <1>4, <1>5

LEMMA AppendedIds ==
    ASSUME CallsOK, NEW row, executions' = Append(executions, row), NEW j
    PROVE  ScheduledIds(j)' = IF row.job = j /\ row.trigger = "scheduled"
                              THEN ScheduledIds(j) \cup {Len(executions) + 1}
                              ELSE ScheduledIds(j)
<1>1. executions \in Seq(ExecutionRows)
    BY DEF CallsOK, TypeOK
<1>2. /\ DOMAIN executions = 1..Len(executions)
      /\ DOMAIN executions' = 1..(Len(executions) + 1)
      /\ Len(executions) \in Nat
      /\ executions'[Len(executions) + 1] = row
      /\ \A id \in DOMAIN executions : executions'[id] = executions[id]
    BY <1>1
<1>3. DOMAIN executions' = DOMAIN executions \cup {Len(executions) + 1}
    BY <1>2
<1> QED BY <1>2, <1>3 DEF ScheduledIds

\* The insert of a scheduled execution settles the fire; the one of a request
\* concerns no fire.
LEMMA StartExecutionAccount ==
    ASSUME CallsOK, CallsOK', FiresAccounted, NEW t \in Threads, StartExecution(t)
    PROVE  FiresAccounted'
<1> DEFINE j == frame[t].job
           row == [job |-> j, trigger |-> TriggerOf(t), status |-> RUNNING]
           local == [frame[t] EXCEPT !.run = Len(executions) + 1]
<1>1. /\ pc[t] = "start" /\ j \in Jobs /\ SlotsOK /\ SlotsOK'
      /\ executions' = Append(executions, row)
      /\ Goto(t, "launch", local)
      /\ UNCHANGED <<skips, fired, discarded>>
      /\ local.job = j
    BY DEF StartExecution, CallsOK, TypeOK, FramesOK, Goto, Frames
<1> HIDE DEF local
<1>2. pc[t] \in UndecidedStages /\ "launch" \notin UndecidedStages
    BY <1>1 DEF UndecidedStages
<1>3. ASSUME NEW k \in Jobs, NEW u \in SchedThreads
      PROVE  Undecided(u, k)' <=> u # t /\ Undecided(u, k)
    BY <1>1, <1>2, GotoUndecided
<1>4. ASSUME NEW k \in Jobs
      PROVE  ScheduledIds(k)' = IF k = j /\ t \in SchedThreads
                                THEN ScheduledIds(k) \cup {Len(executions) + 1}
                                ELSE ScheduledIds(k)
    BY <1>1, AppendedIds DEF TriggerOf
<1>5. CASE t \notin SchedThreads
  <2>1. Untouched
      BY <1>1, <1>3, <1>4, <1>5 DEF Untouched
  <2> QED BY <2>1, UntouchedAccount
<1>6. CASE t \in SchedThreads
  <2> SUFFICES ASSUME NEW k \in Jobs
               PROVE  (fired[k] = ScheduledRuns(k) + Skipped(k) + Pending(k) + Dropped(k))'
      BY DEF FiresAccounted
  <2>1. /\ fired'[k] = fired[k]
        /\ Skipped(k)' = Skipped(k)
        /\ Dropped(k)' = Dropped(k)
      BY <1>1 DEF Skipped, Dropped
  <2>2. CASE k = j
    <3>1. Undecided(t, k)
        BY <1>1, <1>6, <2>2 DEF Undecided
    <3>2. \A u \in SchedThreads : ~Undecided(u, k)'
        BY <1>1, <1>3, <1>6, <3>1, OneUndecided
    <3>3. Pending(k) = 1 /\ Pending(k)' = 0
        BY <1>1, <1>6, <3>1, <3>2, PendingEnds
    <3>4. ScheduledIds(k)' = ScheduledIds(k) \cup {Len(executions) + 1}
        BY <1>4, <1>6, <2>2
    <3>5. IsFiniteSet(ScheduledIds(k)) /\ Len(executions) + 1 \notin ScheduledIds(k)
      <4>1. executions \in Seq(ExecutionRows)
          BY DEF CallsOK, TypeOK
      <4> QED BY <4>1, CountsType DEF ScheduledIds
    <3>6. Cardinality(ScheduledIds(k)') = Cardinality(ScheduledIds(k)) + 1
        BY <3>4, <3>5, FS_AddElement
    <3>7. ScheduledRuns(k)' = ScheduledRuns(k) + 1
        BY <3>6 DEF ScheduledRuns, ScheduledIds
    <3> QED BY <2>1, <3>3, <3>7, CountsType DEF FiresAccounted
  <2>3. CASE k # j
    <3>1. \A u \in SchedThreads : Undecided(u, k)' <=> Undecided(u, k)
        BY <1>3, <2>3 DEF Undecided
    <3>2. Pending(k)' = Pending(k) /\ ScheduledRuns(k)' = ScheduledRuns(k)
        BY <1>1, <1>4, <2>3, <3>1, PendingSame, SameScheduledRuns
    <3> QED BY <2>1, <3>2, CountsType DEF FiresAccounted
  <2> QED BY <2>2, <2>3
<1> QED BY <1>5, <1>6

\* A run under way, recorded already, may end in any way.
LEMMA RunAccount ==
    ASSUME CallsOK, CallsOK', FiresAccounted, NEW t \in Threads,
           RaiseUnsupportedScript(t) \/ LaunchScript(t) \/ FinaliseExecution(t)
    PROVE  FiresAccounted'
<1>1. /\ pc[t] \in {"launch", "running"}
      /\ UNCHANGED <<skips, discarded, fired>>
    BY DEF RaiseUnsupportedScript, LaunchScript, FinaliseExecution, Goto, database
<1>2. \A u \in SchedThreads, j \in Jobs : Undecided(u, j)' <=> Undecided(u, j)
  <2>1. CASE Return(t)
      BY <1>1, <2>1, ReturnUndecided DEF Undecided
  <2>2. CASE LaunchScript(t)
      BY <1>1, <2>2 DEF LaunchScript, Goto, Undecided, CallsOK, TypeOK, Threads
  <2> QED BY <2>1, <2>2 DEF RaiseUnsupportedScript, FinaliseExecution
<1>3. \A j \in Jobs : ScheduledIds(j)' = ScheduledIds(j)
  <2>1. CASE UNCHANGED executions
      BY <2>1 DEF ScheduledIds
  <2>2. CASE FinaliseExecution(t)
    <3>1. executions \in Seq(ExecutionRows)
        BY DEF CallsOK, TypeOK
    <3>2. /\ DOMAIN executions' = DOMAIN executions
          /\ \A id \in DOMAIN executions : /\ executions'[id].job = executions[id].job
                                           /\ executions'[id].trigger = executions[id].trigger
        BY <2>2, <3>1 DEF FinaliseExecution, ExecutionRows
    <3> QED BY <3>2 DEF ScheduledIds
  <2> QED BY <2>1, <2>2 DEF RaiseUnsupportedScript, LaunchScript, database
<1> QED BY <1>1, <1>2, <1>3, UntouchedAccount DEF Untouched

LEMMA CommitFailsAccount ==
    ASSUME CallsOK, CallsOK', FiresAccounted, NEW t \in Threads, CommitFails(t)
    PROVE  FiresAccounted'
<1>1. Return(t) /\ UNCHANGED <<executions, skips, fired>>
    BY DEF CommitFails, database
<1>2. CASE t \in SchedThreads /\ pc[t] # "running"
  <2>1. pc[t] \in UndecidedStages /\ "error" \in DiscardCauses
      BY <1>2 DEF CommitFails, UndecidedStages, DiscardCauses
  <2> QED BY <1>1, <1>2, <2>1, DropAccount DEF CommitFails
<1>3. CASE ~(t \in SchedThreads /\ pc[t] # "running")
  <2>1. \A u \in SchedThreads, j \in Jobs : Undecided(u, j)' <=> Undecided(u, j)
      BY <1>1, <1>3, ReturnUndecided DEF Undecided
  <2>2. Untouched
      BY <1>1, <1>3, <2>1 DEF Untouched, CommitFails, ScheduledIds
  <2> QED BY <2>2, UntouchedAccount
<1> QED BY <1>2, <1>3

LEMMA FireAccount ==
    ASSUME CallsOK, CallsOK', FiresAccounted, NEW t \in Threads, NEW j \in Jobs, Fire(t, j)
    PROVE  FiresAccounted'
<1>1. /\ t \in SchedThreads /\ pc[t] = "idle" /\ instances[j] < 1 /\ SlotsOK /\ SlotsOK'
      /\ fired' = [fired EXCEPT ![j] = @ + 1] /\ fired \in [Jobs -> Nat]
      /\ UNCHANGED <<executions, skips, discarded>>
    BY DEF Fire, CallsOK, TypeOK, database
<1>2. ASSUME NEW u \in SchedThreads, NEW k \in Jobs
      PROVE  Undecided(u, k)' <=> IF u = t THEN k = j ELSE Undecided(u, k)
  <2>1. /\ pc'[u] = IF u = t THEN "load" ELSE pc[u]
        /\ frame'[u] = IF u = t THEN [IdleFrame EXCEPT !.job = j] ELSE frame[u]
        /\ [IdleFrame EXCEPT !.job = j].job = j
      BY DEF Fire, CallsOK, TypeOK, Threads, IdleFrame
  <2> QED BY <2>1 DEF Undecided
<1> SUFFICES ASSUME NEW k \in Jobs
             PROVE  (fired[k] = ScheduledRuns(k) + Skipped(k) + Pending(k) + Dropped(k))'
    BY DEF FiresAccounted
<1>3. /\ ScheduledRuns(k)' = ScheduledRuns(k)
      /\ Skipped(k)' = Skipped(k)
      /\ Dropped(k)' = Dropped(k)
      /\ fired'[k] = IF k = j THEN fired[k] + 1 ELSE fired[k]
    BY <1>1, SameScheduledRuns DEF ScheduledIds, Skipped, Dropped
<1>4. CASE k = j
  <2>1. \A u \in SchedThreads : ~Undecided(u, k)
      BY <1>1, <1>4 DEF SlotsOK, Undecided
  <2>2. Pending(k) = 0 /\ Pending(k)' = 1
      BY <1>1, <1>2, <1>4, <2>1, PendingStarts
  <2> QED BY <1>3, <1>4, <2>2, CountsType DEF FiresAccounted
<1>5. CASE k # j
  <2>1. Pending(k)' = Pending(k)
      BY <1>1, <1>2, <1>5, PendingSame DEF Undecided
  <2> QED BY <1>3, <1>5, <2>1, CountsType DEF FiresAccounted
<1> QED BY <1>4, <1>5

LEMMA FireAtMaxInstancesAccount ==
    ASSUME CallsOK, CallsOK', FiresAccounted, NEW j \in Jobs, FireAtMaxInstances(j)
    PROVE  FiresAccounted'
<1>1. /\ fired' = [fired EXCEPT ![j] = @ + 1] /\ fired \in [Jobs -> Nat]
      /\ Discard(j, "max_instances") /\ "max_instances" \in DiscardCauses
      /\ SlotsOK /\ SlotsOK'
      /\ UNCHANGED <<executions, skips, pc, frame>>
    BY DEF FireAtMaxInstances, CallsOK, TypeOK, database, process, DiscardCauses
<1> SUFFICES ASSUME NEW k \in Jobs
             PROVE  (fired[k] = ScheduledRuns(k) + Skipped(k) + Pending(k) + Dropped(k))'
    BY DEF FiresAccounted
<1>2. /\ ScheduledRuns(k)' = ScheduledRuns(k)
      /\ Skipped(k)' = Skipped(k)
      /\ Pending(k)' = Pending(k)
    BY <1>1, SameScheduledRuns DEF ScheduledIds, Skipped, Pending, Undecided
<1>3. /\ fired'[k] = IF k = j THEN fired[k] + 1 ELSE fired[k]
      /\ Dropped(k)' = IF k = j THEN Dropped(k) + 1 ELSE Dropped(k)
    BY <1>1, DiscardCount
<1> QED BY <1>2, <1>3, CountsType DEF FiresAccounted

LEMMA RestartAccount ==
    ASSUME CallsOK, CallsOK', FiresAccounted, Restart
    PROVE  FiresAccounted'
<1>1. /\ discarded \in [Jobs -> [DiscardCauses -> Nat]]
      /\ discarded' = [j \in Jobs |-> [discarded[j] EXCEPT !["restart"] = @ + Pending(j)]]
      /\ UNCHANGED <<executions, skips, fired>>
      /\ pc' = [t \in Threads |-> "idle"]
      /\ SlotsOK'
    BY DEF Restart, CallsOK, TypeOK, database
<1> SUFFICES ASSUME NEW k \in Jobs
             PROVE  (fired[k] = ScheduledRuns(k) + Skipped(k) + Pending(k) + Dropped(k))'
    BY DEF FiresAccounted
<1>2. /\ ScheduledRuns(k)' = ScheduledRuns(k)
      /\ Skipped(k)' = Skipped(k)
      /\ fired'[k] = fired[k]
    BY <1>1, SameScheduledRuns DEF ScheduledIds, Skipped
<1>3. \A u \in SchedThreads : ~Undecided(u, k)'
    BY <1>1 DEF Undecided, Threads
<1>4. Pending(k)' = 0
    BY <1>1, <1>3, PendingCountNext
<1>5. Dropped(k)' = Dropped(k) + Pending(k)
  <2>1. discarded[k] \in [DiscardCauses -> Nat] /\ Pending(k) \in Nat
      BY <1>1, CountsType
  <2>2. \A c \in DiscardCauses :
           discarded'[k][c] = IF c = "restart" THEN discarded[k][c] + Pending(k) ELSE discarded[k][c]
      BY <1>1, <2>1
  <2> QED BY <2>1, <2>2 DEF Dropped, DiscardCauses
<1> QED BY <1>2, <1>4, <1>5, CountsType DEF FiresAccounted

\* Requests and edits have no part in it.
LEMMA OtherAccount ==
    ASSUME CallsOK, CallsOK', FiresAccounted,
           \/ \E t \in Threads, j \in Jobs : RequestRun(t, j)
           \/ \E j \in Jobs : EditJob(j)
           \/ \E s \in Scripts : EditScript(s) \/ ChangeFile(s)
           \/ UNCHANGED vars
    PROVE  FiresAccounted'
<1>1. UNCHANGED <<executions, skips, discarded, fired>>
    BY DEF RequestRun, EditJob, EditScript, ChangeFile, Edit, vars, database
<1>2. \A u \in SchedThreads : pc'[u] = pc[u] /\ frame'[u] = frame[u]
  <2>1. ASSUME NEW t \in Threads, NEW j \in Jobs, RequestRun(t, j), NEW u \in SchedThreads
        PROVE  pc'[u] = pc[u] /\ frame'[u] = frame[u]
      BY <2>1, ThreadsAssumption DEF RequestRun, CallsOK, TypeOK, Threads
  <2>2. CASE UNCHANGED <<pc, frame>>
      BY <2>2
  <2> QED BY <2>1, <2>2 DEF EditJob, EditScript, ChangeFile, Edit, vars, process
<1>3. Untouched
    BY <1>1, <1>2 DEF Untouched, ScheduledIds, Undecided
<1> QED BY <1>3, UntouchedAccount

LEMMA AccountNext ==
    ASSUME CallsOK, CallsOK', FiresAccounted, [Next]_vars
    PROVE  FiresAccounted'
<1>1. ASSUME NEW t \in Threads, Work(t)
      PROVE  FiresAccounted'
    BY <1>1, LoadJobAccount, CheckRunningAccount, RereadJobAccount, ResolveAccount,
       RecordSkipAccount, StartExecutionAccount, RunAccount DEF Work
<1>2. ASSUME NEW t \in Threads, NEW j \in Jobs, Fire(t, j)
      PROVE  FiresAccounted'
    BY <1>2, FireAccount
<1>3. ASSUME NEW j \in Jobs, FireAtMaxInstances(j)
      PROVE  FiresAccounted'
    BY <1>3, FireAtMaxInstancesAccount
<1>4. ASSUME NEW t \in Threads, CommitFails(t)
      PROVE  FiresAccounted'
    BY <1>4, CommitFailsAccount
<1>5. CASE Restart
    BY <1>5, RestartAccount
<1>6. CASE \/ \E t \in Threads, j \in Jobs : RequestRun(t, j)
           \/ \E j \in Jobs : EditJob(j)
           \/ \E s \in Scripts : EditScript(s) \/ ChangeFile(s)
           \/ UNCHANGED vars
    BY <1>6, OtherAccount
<1> QED BY <1>1, <1>2, <1>3, <1>4, <1>5, <1>6 DEF Next

\* Whatever the threads interleave, whichever commit fails and whenever the
\* process dies: every fire of a job is, once and in one place only, a
\* scheduled execution, a recorded skip, a fire still undecided or a fire
\* dropped for a named cause (run_scheduled_job, _run, max_instances).
THEOREM EveryFireIsAccounted == Spec => []FiresAccounted
<1>1. ASSUME Init PROVE FiresAccounted
  <2>1. \A j \in Jobs : Pending(j) = 0
      BY <1>1, CallsInit, PendingCount DEF Init, Undecided, CallsOK, Threads
  <2>2. \A j \in Jobs : ScheduledRuns(j) = 0
      BY <1>1, FS_EmptySet DEF Init, ScheduledRuns
  <2> QED BY <1>1, <2>1, <2>2
      DEF Init, FiresAccounted, Skipped, Dropped, SkipReasons, DiscardCauses
<1>2. CallsOK /\ CallsOK' /\ FiresAccounted /\ [Next]_vars => FiresAccounted'
    BY AccountNext
<1> QED BY <1>1, <1>2, CallsInvariant, PTL DEF Spec

-----------------------------------------------------------------------------
(***************************************************************************)
(* Slots.  SlotsOK says that a thread at work has its job's slot; the      *)
(* converse is that a slot that is taken has a thread that will return it. *)
(***************************************************************************)
HoldersOK == \A j \in Jobs : instances[j] = 1 => \E t \in SchedThreads : frame[t].job = j

SameHolders ==
    /\ UNCHANGED instances
    /\ \A u \in SchedThreads : frame'[u].job = frame[u].job

LEMMA GotoSameHolders ==
    ASSUME CallsOK, NEW t \in Threads, NEW stage, NEW local,
           Goto(t, stage, local), local.job = frame[t].job
    PROVE  SameHolders
BY DEF SameHolders, Goto, CallsOK, TypeOK, Threads

LEMMA WorkHolders ==
    ASSUME CallsOK, NEW t \in Threads, Work(t)
    PROVE  Return(t) \/ SameHolders
<1>1. frame[t] \in Frames
    BY DEF CallsOK, TypeOK
<1>2. ASSUME NEW reason, GoSkip(t, reason)
      PROVE  SameHolders
  <2> DEFINE local == [frame[t] EXCEPT !.reason = reason]
  <2>1. local.job = frame[t].job /\ Goto(t, "skip", local)
      BY <1>1, <1>2 DEF GoSkip, Frames
  <2> HIDE DEF local
  <2> QED BY <2>1, GotoSameHolders
<1>3. CASE LoadJob(t)
  <2> DEFINE row == jobRow[frame[t].job]
             local == [frame[t] EXCEPT !.active = row.active, !.script = row.script]
  <2>1. local.job = frame[t].job /\ (Return(t) \/ Goto(t, "check", local))
      BY <1>1, <1>3 DEF LoadJob, GiveUp, Frames
  <2> HIDE DEF local
  <2> QED BY <2>1, GotoSameHolders
<1>4. CASE CheckRunning(t)
  <2> DEFINE local == [frame[t] EXCEPT !.seen = Len(executions)]
  <2>1. local.job = frame[t].job /\ (GoSkip(t, "already_running") \/ Goto(t, "reread", local))
      BY <1>1, <1>4 DEF CheckRunning, Frames
  <2> HIDE DEF local
  <2> QED BY <1>2, <2>1, GotoSameHolders
<1>5. CASE RereadJob(t)
    BY <1>2, <1>5, GotoSameHolders DEF RereadJob
<1>6. CASE \/ RaiseJobInactive(t) \/ RaiseScriptUnavailable(t)
           \/ RaiseScriptPath(t) \/ ResolveScript(t)
    BY <1>2, <1>6, GotoSameHolders
       DEF RaiseJobInactive, RaiseScriptUnavailable, RaiseScriptPath, ResolveScript, Refuse, GiveUp
<1>7. CASE StartExecution(t)
  <2> DEFINE local == [frame[t] EXCEPT !.run = Len(executions) + 1]
  <2>1. local.job = frame[t].job /\ Goto(t, "launch", local)
      BY <1>1, <1>7 DEF StartExecution, Frames
  <2> HIDE DEF local
  <2> QED BY <2>1, GotoSameHolders
<1>8. CASE LaunchScript(t)
  <2>1. PICK r \in ResultsOf(frame[t].script) : Goto(t, "running", [frame[t] EXCEPT !.result = r])
      BY <1>8 DEF LaunchScript
  <2> DEFINE local == [frame[t] EXCEPT !.result = r]
  <2>2. local.job = frame[t].job /\ Goto(t, "running", local)
      BY <1>1, <2>1 DEF Frames
  <2> HIDE DEF local
  <2> QED BY <2>2, GotoSameHolders
<1>9. CASE RecordSkip(t) \/ RaiseUnsupportedScript(t) \/ FinaliseExecution(t)
    BY <1>9 DEF RecordSkip, RaiseUnsupportedScript, FinaliseExecution
<1> QED BY <1>3, <1>4, <1>5, <1>6, <1>7, <1>8, <1>9 DEF Work

LEMMA SameHoldersStep ==
    ASSUME HoldersOK, SameHolders
    PROVE  HoldersOK'
BY DEF HoldersOK, SameHolders

\* The call that ends gives its own slot back, and no other.
LEMMA ReturnHolders ==
    ASSUME CallsOK, HoldersOK, NEW t \in Threads, pc[t] # "idle", Return(t)
    PROVE  HoldersOK'
<1>1. \A u \in Threads : u # t => frame'[u] = frame[u]
    BY DEF Return, CallsOK, TypeOK
<1>2. CASE t \notin SchedThreads
    BY <1>1, <1>2 DEF Return, HoldersOK, Threads
<1>3. CASE t \in SchedThreads
  <2>1. /\ frame[t].job \in Jobs /\ instances[frame[t].job] = 1
        /\ instances' = [instances EXCEPT ![frame[t].job] = @ - 1]
        /\ instances \in [Jobs -> Nat]
      BY <1>3 DEF Return, CallsOK, TypeOK, FramesOK, SlotsOK
  <2>2. \A j \in Jobs : instances'[j] = 1 => j # frame[t].job /\ instances[j] = 1
      BY <2>1
  <2> QED BY <1>1, <2>2 DEF HoldersOK, Threads
<1> QED BY <1>2, <1>3

LEMMA FireHolders ==
    ASSUME CallsOK, HoldersOK, NEW t \in Threads, NEW j \in Jobs, Fire(t, j)
    PROVE  HoldersOK'
<1> DEFINE local == [IdleFrame EXCEPT !.job = j]
<1>1. /\ t \in SchedThreads /\ local.job = j
      /\ frame' = [frame EXCEPT ![t] = local]
      /\ instances' = [instances EXCEPT ![j] = @ + 1]
      /\ frame \in [Threads -> Frames] /\ instances \in [Jobs -> Nat]
      /\ frame[t].job = NoJob
    BY DEF Fire, IdleFrame, CallsOK, TypeOK, FramesOK
<1> HIDE DEF local
<1>2. \A u \in SchedThreads : frame'[u] = IF u = t THEN local ELSE frame[u]
    BY <1>1 DEF Threads
<1>3. \A k \in Jobs : instances'[k] = 1 => k = j \/ instances[k] = 1
    BY <1>1
<1>4. \A k \in Jobs : k # NoJob
    BY NoJobAssumption
<1> QED BY <1>1, <1>2, <1>3, <1>4 DEF HoldersOK

LEMMA HoldersNext ==
    ASSUME CallsOK, HoldersOK, [Next]_vars
    PROVE  HoldersOK'
<1>1. ASSUME NEW t \in Threads, Work(t) \/ CommitFails(t)
      PROVE  HoldersOK'
  <2>1. pc[t] # "idle"
      BY <1>1 DEF Work, CommitFails, LoadJob, CheckRunning, RereadJob, RaiseJobInactive,
         RaiseScriptUnavailable, RaiseScriptPath, ResolveScript, RecordSkip, StartExecution,
         RaiseUnsupportedScript, LaunchScript, FinaliseExecution
  <2>2. Return(t) \/ SameHolders
      BY <1>1, WorkHolders DEF CommitFails
  <2> QED BY <2>1, <2>2, ReturnHolders, SameHoldersStep
<1>2. ASSUME NEW t \in Threads, NEW j \in Jobs, Fire(t, j)
      PROVE  HoldersOK'
    BY <1>2, FireHolders
<1>3. ASSUME NEW t \in Threads, NEW j \in Jobs, RequestRun(t, j)
      PROVE  HoldersOK'
  <2>1. SameHolders
      BY <1>3, ThreadsAssumption DEF SameHolders, RequestRun, CallsOK, TypeOK, Threads
  <2> QED BY <2>1, SameHoldersStep
<1>4. CASE Restart
  <2>1. \A j \in Jobs : instances'[j] = 0
      BY <1>4 DEF Restart
  <2> QED BY <2>1 DEF HoldersOK
<1>5. CASE \/ \E j \in Jobs : FireAtMaxInstances(j) \/ EditJob(j)
           \/ \E s \in Scripts : EditScript(s) \/ ChangeFile(s)
           \/ UNCHANGED vars
  <2>1. SameHolders
      BY <1>5 DEF SameHolders, FireAtMaxInstances, EditJob, EditScript, ChangeFile, Edit, vars, process
  <2> QED BY <2>1, SameHoldersStep
<1> QED BY <1>1, <1>2, <1>3, <1>4, <1>5 DEF Next

\* For any number of threads and jobs: a slot is taken exactly while one thread
\* of APScheduler's pool handles the job, whatever raises, fails or restarts.
THEOREM SlotsHaveHolders == Spec => []SlotsAreHeld
<1>1. Init => HoldersOK
    BY DEF Init, HoldersOK
<1>2. CallsOK /\ HoldersOK /\ [Next]_vars => HoldersOK'
    BY HoldersNext
<1>3. CallsOK /\ HoldersOK => SlotsAreHeld
  <2> SUFFICES ASSUME CallsOK, HoldersOK, NEW j \in Jobs
               PROVE  instances[j] = Cardinality({t \in SchedThreads : frame[t].job = j})
      BY DEF SlotsAreHeld
  <2> DEFINE S == {t \in SchedThreads : frame[t].job = j}
  <2>1. \A t \in S : pc[t] # "idle"
      BY NoJobAssumption DEF CallsOK, FramesOK, IdleFrame, Threads
  <2>2. \A a, b \in S : a = b
      BY <2>1 DEF CallsOK, SlotsOK
  <2>3. Cardinality(S) = IF S = {} THEN 0 ELSE 1
      BY <2>2, AtMostOne
  <2>4. instances[j] \in {0, 1}
      BY DEF CallsOK, SlotsOK
  <2>5. S # {} => instances[j] = 1
      BY <2>1 DEF CallsOK, SlotsOK
  <2>6. instances[j] = 1 => S # {}
      BY DEF HoldersOK
  <2> QED BY <2>3, <2>4, <2>5, <2>6
<1> QED BY <1>1, <1>2, <1>3, CallsInvariant, PTL DEF Spec

-----------------------------------------------------------------------------
(***************************************************************************)
(* Runs that nobody will finalise.  A call in "launch" or "running" has    *)
(* three ways to end, and each of them is one of the causes.               *)
(***************************************************************************)
LEMMA OthersKeepRuns ==
    ASSUME CallsOK, NEW t \in Threads, frame[t].run # 0,
           NEW u \in Threads, u # t, Work(u) \/ CommitFails(u)
    PROVE  frame'[t] = frame[t]
BY DEF CallsOK, TypeOK, Work, CommitFails, LoadJob, CheckRunning, RereadJob, RaiseJobInactive,
       RaiseScriptUnavailable, RaiseScriptPath, ResolveScript, RecordSkip, StartExecution,
       RaiseUnsupportedScript, LaunchScript, FinaliseExecution, Refuse, GiveUp, GoSkip, Goto, Return

LEMMA LetGoStep ==
    ASSUME CallsOK, RunsOK, [Next]_vars, NEW t \in Threads,
           frame[t].run # 0, frame'[t].run # frame[t].run
    PROVE  \/ executions'[frame[t].run].status # RUNNING
           \/ used'.faults > used.faults
           \/ pc[t] = "launch" /\ ~Launchable(frame[t].script)
<1>1. pc[t] \in {"launch", "running"} /\ frame[t] \in Frames
    BY DEF CallsOK, TypeOK, FramesOK
<1>2. CASE Restart \/ \E u \in Threads : CommitFails(u)
  <2>1. used.faults \in Nat /\ used' = [used EXCEPT !.faults = @ + 1]
      BY <1>2 DEF Restart, CommitFails, CallsOK, TypeOK
  <2>2. used'.faults = used.faults + 1
      BY <2>1 DEF CallsOK, TypeOK
  <2> QED BY <2>1, <2>2
<1>3. ASSUME NEW u \in Threads, Work(u), u # t
      PROVE  FALSE
    BY <1>3, OthersKeepRuns
<1>4. CASE Work(t)
  <2>1. RaiseUnsupportedScript(t) \/ LaunchScript(t) \/ FinaliseExecution(t)
      BY <1>1, <1>4 DEF Work, LoadJob, CheckRunning, RereadJob, RaiseJobInactive,
         RaiseScriptUnavailable, RaiseScriptPath, ResolveScript, RecordSkip, StartExecution
  <2>2. CASE RaiseUnsupportedScript(t)
      BY <2>2 DEF RaiseUnsupportedScript
  <2>3. CASE FinaliseExecution(t)
    <3> DEFINE id == frame[t].run
               status == StatusOf(frame[t].result)
    <3>1. /\ id \in DOMAIN executions
          /\ executions'[id] = [executions[id] EXCEPT !.status = status]
          /\ status \in FinalStatuses
        BY <2>3, FinaliseEffect
    <3>2. executions[id] \in ExecutionRows
        BY <3>1 DEF CallsOK, TypeOK
    <3>3. executions'[id].status = status
        BY <3>1, <3>2 DEF ExecutionRows
    <3> QED BY <3>1, <3>3 DEF FinalStatuses, RUNNING
  <2>4. CASE LaunchScript(t)
    <3>1. PICK r \in ResultsOf(frame[t].script) : Goto(t, "running", [frame[t] EXCEPT !.result = r])
        BY <2>4 DEF LaunchScript
    <3>2. frame'[t].run = frame[t].run
        BY <1>1, <3>1 DEF Goto, CallsOK, TypeOK, Frames
    <3> QED BY <3>2
  <2> QED BY <2>1, <2>2, <2>3, <2>4
<1>5. ASSUME NEW u \in Threads, NEW j \in Jobs, Fire(u, j) \/ RequestRun(u, j)
      PROVE  FALSE
  <2>1. u # t
      BY <1>1, <1>5 DEF Fire, RequestRun
  <2> QED BY <1>5, <2>1 DEF Fire, RequestRun, CallsOK, TypeOK
<1>6. CASE \/ \E j \in Jobs : FireAtMaxInstances(j) \/ EditJob(j)
           \/ \E s \in Scripts : EditScript(s) \/ ChangeFile(s)
           \/ UNCHANGED vars
    BY <1>6 DEF FireAtMaxInstances, EditJob, EditScript, ChangeFile, Edit, vars, process
<1> QED BY <1>2, <1>3, <1>4, <1>5, <1>6 DEF Next

\* For any number of jobs, scripts and threads: a row is left RUNNING with nobody
\* to finalise it by a fault or by a file that cannot be launched, and in no
\* other way.
THEOREM OrphansHaveACause == Spec => RunsLetGoForCause
<1>1. CallsOK /\ RunsOK /\ [Next]_vars =>
         \A t \in Threads : frame[t].run # 0 /\ frame'[t].run # frame[t].run =>
            \/ executions'[frame[t].run].status # RUNNING
            \/ used'.faults > used.faults
            \/ pc[t] = "launch" /\ ~Launchable(frame[t].script)
    BY LetGoStep
<1> QED BY <1>1, CallsInvariant, RunsInvariant, PTL DEF Spec, RunsLetGoForCause
=============================================================================
