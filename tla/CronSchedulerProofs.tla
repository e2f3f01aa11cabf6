------------------------ MODULE CronSchedulerProofs ------------------------
(***************************************************************************)
(* Theorems of CronScheduler, for any number of jobs, scripts, threads,    *)
(* edits and restarts.                                                     *)
(***************************************************************************)
EXTENDS CronScheduler, TLAPS

\* What a thread's stage says of its local variables.
LocalOK(t) ==
    /\ pc[t] \in {"read", "eligible", "arm", "disarm"} => frame[t].job \in Jobs
    /\ pc[t] \in {"eligible", "arm"} => frame[t].expr \in Exprs
    /\ pc[t] = "delete_script" => frame[t].script \in Scripts

\* A thread that has been alone since it started is alone; without an overlap
\* every thread at work is that one.
Alone ==
    /\ \A t \in Threads : solo = t /\ pc[t] # "idle" => \A u \in Threads \ {t} : pc[u] = "idle"
    /\ ~overlapped => \A t \in Threads : pc[t] # "idle" => solo = t

ArmedWell(j) == row[j].expr \in Schedulable => armed[j] = row[j].expr

(***************************************************************************)
(* What a sync that has been alone since it started knows.                 *)
(***************************************************************************)
SyncView(t) ==
    /\ pc[t] = "arming" =>
          /\ frame[t].desired = EligibleJobs
          /\ \A j \in DOMAIN frame[t].todo : j \in EligibleJobs /\ frame[t].todo[j] = row[j].expr
          /\ \A j \in EligibleJobs \ DOMAIN frame[t].todo : ArmedWell(j)
    /\ pc[t] = "pruning" =>
          /\ \A j \in EligibleJobs : ArmedWell(j) /\ j \notin frame[t].stale
          /\ ArmedJobs \subseteq EligibleJobs \cup frame[t].stale

(***************************************************************************)
(* What a handler knows that started when every trigger agreed, and has    *)
(* been alone since: only its own job may disagree.                        *)
(***************************************************************************)
HandlerView(t) ==
    /\ pc[t] \in {"read", "eligible", "arm", "disarm"} =>
          \A j \in Jobs \ {frame[t].job} : Agrees(j)
    /\ pc[t] = "eligible" => row[frame[t].job].state = "active"
    /\ pc[t] \in {"eligible", "arm"} => frame[t].expr = row[frame[t].job].expr
    /\ pc[t] = "arm" => Eligible(frame[t].job)
    /\ pc[t] = "disarm" => ~Eligible(frame[t].job)
    /\ pc[t] = "delete_script" =>
          \A j \in Jobs : Agrees(j) /\ (Alive(j) => row[j].script # frame[t].script)

Views ==
    \A t \in Threads :
        solo = t /\ pc[t] # "idle" => SyncView(t) /\ (~overlapped => HandlerView(t))

Types == TypeOK /\ \A t \in Threads : LocalOK(t)
Order == Alone /\ Views /\ QuietMeansAgreed
IInv == Types /\ Order

-----------------------------------------------------------------------------
\* The frames that the actions write.
LEMMA FrameTypes ==
    /\ IdleFrame \in Frames
    /\ \A j \in Jobs : [IdleFrame EXCEPT !.job = j] \in Frames
    /\ \A s \in Scripts : [IdleFrame EXCEPT !.script = s] \in Frames
<1>1. NoSnapshot \in Snapshots
  BY DEF NoSnapshot, Snapshots
<1> QED
  BY <1>1 DEF IdleFrame, Frames

\* Moving one thread to a stage with a frame of the right kind keeps the types.
LEMMA MoveTypes ==
    ASSUME Types, NEW t \in Threads, NEW stage \in Stages, NEW local \in Frames,
           pc' = [pc EXCEPT ![t] = stage], frame' = [frame EXCEPT ![t] = local],
           stage \in {"read", "eligible", "arm", "disarm"} => local.job \in Jobs,
           stage \in {"eligible", "arm"} => local.expr \in Exprs,
           stage = "delete_script" => local.script \in Scripts
    PROVE  /\ pc' \in [Threads -> Stages] /\ pc'[t] = stage
           /\ frame' \in [Threads -> Frames] /\ frame'[t] = local
           /\ \A u \in Threads \ {t} : pc'[u] = pc[u] /\ frame'[u] = frame[u]
           /\ \A u \in Threads : LocalOK(u)'
<1>1. /\ pc' \in [Threads -> Stages] /\ pc'[t] = stage
      /\ frame' \in [Threads -> Frames] /\ frame'[t] = local
      /\ \A u \in Threads \ {t} : pc'[u] = pc[u] /\ frame'[u] = frame[u]
  BY DEF Types, TypeOK
<1>2. ASSUME NEW u \in Threads PROVE LocalOK(u)'
  <2>1. CASE u = t
    BY <1>1, <2>1 DEF LocalOK
  <2>2. CASE u # t
    BY <1>1, <2>2 DEF LocalOK, Types
  <2> QED
    BY <2>1, <2>2
<1> QED
  BY <1>1, <1>2

-----------------------------------------------------------------------------
(***************************************************************************)
(* The three ways to move a thread, and what they ask of the step.         *)
(***************************************************************************)
\* A thread begins: alone, if nothing else is under way.
LEMMA BeginKeeps ==
    ASSUME IInv, NEW t \in Threads, NEW stage, NEW local, Begin(t, stage, local),
           stage # "idle", Quiet => SyncView(t)', Quiet /\ ~overlapped => HandlerView(t)'
    PROVE  Order'
<1>1. /\ pc'[t] = stage /\ pc[t] = "idle"
      /\ \A u \in Threads \ {t} : pc'[u] = pc[u]
  BY DEF Begin, IInv, Types, TypeOK
<1>2. ~Quiet'
  BY <1>1 DEF Quiet
<1>3. CASE Quiet
  <2>1. /\ solo' = t /\ overlapped' = overlapped
        /\ \A u \in Threads \ {t} : pc'[u] = "idle"
    BY <1>1, <1>3 DEF Begin, Quiet, IInv, Types, TypeOK
  <2>2. Alone'
    BY <2>1 DEF Alone
  <2>3. Views'
    BY <1>3, <2>1 DEF Views
  <2> QED
    BY <1>2, <2>2, <2>3 DEF Order, QuietMeansAgreed
<1>4. CASE ~Quiet
  <2>1. overlapped' /\ solo' \notin Threads
    BY <1>4, NobodyAssumption DEF Begin, Threads
  <2> QED
    BY <1>2, <2>1 DEF Order, QuietMeansAgreed, Alone, Views
<1> QED
  BY <1>3, <1>4

\* A thread goes on.
LEMMA GotoKeeps ==
    ASSUME IInv, NEW t \in Threads, NEW stage, NEW local, Goto(t, stage, local),
           pc[t] # "idle", stage # "idle",
           solo = t => SyncView(t)', solo = t /\ ~overlapped => HandlerView(t)'
    PROVE  Order'
<1>1. /\ pc'[t] = stage
      /\ \A u \in Threads \ {t} : pc'[u] = pc[u]
      /\ solo' = solo /\ overlapped' = overlapped
  BY DEF Goto, IInv, Types, TypeOK
<1>2. Alone'
  BY <1>1 DEF Alone, IInv, Order
<1>3. \A u \in Threads \ {t} : ~(solo = u /\ pc[u] # "idle")
  BY DEF Alone, IInv, Order
<1>4. Views'
  BY <1>1, <1>3 DEF Views
<1>5. ~Quiet'
  BY <1>1 DEF Quiet
<1> QED
  BY <1>2, <1>4, <1>5 DEF Order, QuietMeansAgreed

\* A thread ends.
LEMMA EndKeeps ==
    ASSUME IInv, NEW t \in Threads, End(t), pc[t] # "idle",
           solo = t /\ ~overlapped' => \A j \in Jobs : Agrees(j)'
    PROVE  Order'
<1>1. /\ pc'[t] = "idle" /\ solo' = solo
      /\ \A u \in Threads \ {t} : pc'[u] = pc[u]
      /\ overlapped' => overlapped
      /\ ~overlapped' => ~overlapped \/ solo = t
  BY DEF End, IInv, Types, TypeOK
<1>2. ~overlapped' => solo = t
  BY <1>1 DEF Alone, IInv, Order
<1>3. solo = t => \A u \in Threads : pc'[u] = "idle"
  BY <1>1 DEF Alone, IInv, Order
<1>4. \A u \in Threads : ~(solo = u /\ pc'[u] # "idle")
  BY <1>1 DEF Alone, IInv, Order
<1>5. Alone'
  BY <1>1, <1>2, <1>3, <1>4 DEF Alone
<1>6. Views'
  BY <1>1, <1>4 DEF Views
<1>7. QuietMeansAgreed'
  BY <1>2 DEF QuietMeansAgreed
<1> QED
  BY <1>5, <1>6, <1>7 DEF Order
-----------------------------------------------------------------------------
\* The types of what a step does to the threads, and of what it does to the data.
ThreadTypes ==
    /\ pc \in [Threads -> Stages] /\ frame \in [Threads -> Frames]
    /\ solo \in Threads \cup {Nobody} /\ overlapped \in BOOLEAN
    /\ \A t \in Threads : LocalOK(t)

DataTypes ==
    /\ row \in [Jobs -> Rows]
    /\ script \in [Scripts -> {"enabled", "disabled", "deleted"}]
    /\ armed \in [Jobs -> Schedulable \cup {NotArmed}]
    /\ serving \in BOOLEAN
    /\ edits \in Nat /\ restarts \in Nat

\* Together they are Types.
LEMMA TypesSplit == (Types <=> ThreadTypes /\ DataTypes) /\ (Types' <=> ThreadTypes' /\ DataTypes')
BY DEF Types, TypeOK, ThreadTypes, DataTypes

\* Begin, Goto and End keep the types of the threads.
LEMMA MovesKeepTypes ==
    ASSUME Types, NEW t \in Threads, NEW stage \in Stages, NEW local \in Frames,
           \/ Begin(t, stage, local) \/ Goto(t, stage, local)
           \/ End(t) /\ stage = "idle" /\ local = IdleFrame,
           stage \in {"read", "eligible", "arm", "disarm"} => local.job \in Jobs,
           stage \in {"eligible", "arm"} => local.expr \in Exprs,
           stage = "delete_script" => local.script \in Scripts
    PROVE  ThreadTypes' /\ frame'[t] = local /\ pc'[t] = stage
<1>1. pc' = [pc EXCEPT ![t] = stage] /\ frame' = [frame EXCEPT ![t] = local]
  BY DEF Begin, Goto, End
<1>2. solo' \in Threads \cup {Nobody}
  BY DEF Begin, Goto, End, Types, TypeOK
<1>3. overlapped' \in BOOLEAN
  BY DEF Begin, Goto, End, Types, TypeOK
<1> QED
  BY <1>1, <1>2, <1>3, MoveTypes DEF ThreadTypes

\* The initial states satisfy the invariant.
LEMMA InvInit == Init => IInv
<1> SUFFICES ASSUME Init PROVE IInv
  OBVIOUS
<1>1. ThreadTypes
  BY FrameTypes DEF Init, ThreadTypes, LocalOK, Threads, Stages
<1>2. DataTypes
  BY BoundsAssumption DEF Init, DataTypes, Rows
<1>3. ~Quiet
  BY DEF Init, Quiet, Threads
<1>4. Alone
  BY DEF Init, Alone, Threads
<1>5. Views
  BY DEF Init, Views, SyncView, HandlerView, Threads
<1> QED
  BY <1>1, <1>2, <1>3, <1>4, <1>5, TypesSplit DEF IInv, Order, QuietMeansAgreed

-----------------------------------------------------------------------------
(***************************************************************************)
(* Requests.                                                               *)
(***************************************************************************)
\* A handler's commit changes one job's row; the notification does the rest.
LEMMA JobEdited ==
    ASSUME IInv, NEW t \in WebThreads, NEW j \in Jobs, Request(t),
           \/ NotifyJobChanged(t, j)
           \/ NotifyJobRemoved(t, j) /\ row'[j].state # "active",
           row' \in [Jobs -> Rows], \A i \in Jobs \ {j} : row'[i] = row[i], script' = script
    PROVE  IInv'
<1> DEFINE local == [IdleFrame EXCEPT !.job = j]
<1>1. t \in Threads /\ local \in Frames /\ local.job = j
  BY FrameTypes DEF Threads, IdleFrame
<1> HIDE DEF local
<1>2. PICK stage \in {"read", "disarm"} :
         Begin(t, stage, local) /\ (stage = "disarm" => row'[j].state # "active")
  BY DEF NotifyJobChanged, NotifyJobRemoved, local
<1>3. ThreadTypes' /\ frame'[t] = local /\ pc'[t] = stage
  BY <1>1, <1>2, MovesKeepTypes DEF IInv, Stages
<1>4. DataTypes'
  BY DEF DataTypes, Request, IInv, Types, TypeOK
<1>5. SyncView(t)'
  BY <1>2, <1>3 DEF SyncView
<1>6. \A i \in Jobs \ {j} : Agrees(i) => Agrees(i)'
  BY DEF Agrees, Eligible, Request
<1>7. Quiet /\ ~overlapped => HandlerView(t)'
  <2> SUFFICES ASSUME Quiet, ~overlapped PROVE HandlerView(t)'
    OBVIOUS
  <2>1. \A i \in Jobs \ {j} : Agrees(i)'
    BY <1>6 DEF IInv, Order, QuietMeansAgreed
  <2>2. stage = "disarm" => ~Eligible(j)'
    BY <1>2 DEF Eligible
  <2> QED
    BY <1>1, <1>2, <1>3, <2>1, <2>2 DEF HandlerView
<1>8. Order'
  BY <1>1, <1>2, <1>5, <1>7, BeginKeeps
<1> QED
  BY <1>3, <1>4, <1>8, TypesSplit DEF IInv

\* Every request keeps the invariant.
LEMMA RequestKeeps == ASSUME IInv, NEW t \in WebThreads, HandleRequest(t) PROVE IInv'
<1>1. t \in Threads
  BY DEF Threads
<1>2. \A j \in Jobs : row[j] \in Rows
  BY DEF IInv, Types, TypeOK
<1>3. ASSUME NEW j \in Jobs, CreateJob(t, j) PROVE IInv'
  <2>1. PICK e \in Exprs, s \in BindableScripts \cup {NoScript} :
           row' = [row EXCEPT ![j] = [state |-> "active", expr |-> e, script |-> s]]
    BY <1>3 DEF CreateJob
  <2>2. row' \in [Jobs -> Rows] /\ \A i \in Jobs \ {j} : row'[i] = row[i]
    BY <2>1 DEF BindableScripts, Rows, IInv, Types, TypeOK
  <2> QED
    BY <1>3, <2>2, JobEdited DEF CreateJob
<1>4. ASSUME NEW j \in Jobs, UpdateJob(t, j) PROVE IInv'
  <2>1. PICK e \in Exprs, s \in BindableScripts \cup {row[j].script} :
           row' = [row EXCEPT ![j] = [row[j] EXCEPT !.expr = e, !.script = s]]
    BY <1>4 DEF UpdateJob
  <2>2. [row[j] EXCEPT !.expr = e, !.script = s] \in Rows
    BY <1>2 DEF BindableScripts, Rows
  <2>3. row' \in [Jobs -> Rows] /\ \A i \in Jobs \ {j} : row'[i] = row[i]
    BY <2>1, <2>2 DEF IInv, Types, TypeOK
  <2> QED
    BY <1>4, <2>3, JobEdited DEF UpdateJob
<1>5. ASSUME NEW j \in Jobs, ActivateJob(t, j) \/ PauseJob(t, j) \/ DeleteJob(t, j) PROVE IInv'
  <2>1. PICK state \in {"active", "paused", "deleted"} :
           /\ row' = [row EXCEPT ![j] = [row[j] EXCEPT !.state = state]]
           /\ IF state = "active" THEN NotifyJobChanged(t, j) ELSE NotifyJobRemoved(t, j)
    BY <1>5 DEF ActivateJob, PauseJob, DeleteJob
  <2>2. [row[j] EXCEPT !.state = state] \in Rows /\ [row[j] EXCEPT !.state = state].state = state
    BY <1>2 DEF Rows
  <2>3. /\ row' \in [Jobs -> Rows] /\ row'[j].state = state
        /\ \A i \in Jobs \ {j} : row'[i] = row[i]
    BY <2>1, <2>2 DEF IInv, Types, TypeOK
  <2>4. Request(t) /\ script' = script
    BY <1>5 DEF ActivateJob, PauseJob, DeleteJob
  <2> QED
    BY <2>1, <2>3, <2>4, JobEdited
<1>6. ASSUME NEW s \in Scripts, UpdateScript(t, s) PROVE IInv'
  <2>1. /\ script' \in [Scripts -> {"enabled", "disabled", "deleted"}] /\ row' = row
        /\ Begin(t, "snapshot", IdleFrame) /\ Request(t)
    BY <1>6 DEF UpdateScript, Resync, IInv, Types, TypeOK
  <2>2. ThreadTypes' /\ pc'[t] = "snapshot"
    BY <1>1, <2>1, FrameTypes, MovesKeepTypes DEF IInv, Stages
  <2>3. DataTypes'
    BY <2>1 DEF DataTypes, Request, IInv, Types, TypeOK
  <2>4. Order'
    BY <1>1, <2>1, <2>2, BeginKeeps DEF SyncView, HandlerView
  <2> QED
    BY <2>2, <2>3, <2>4, TypesSplit DEF IInv
<1>7. ASSUME NEW s \in Scripts, CheckScriptUnused(t, s) PROVE IInv'
  <2> DEFINE local == [IdleFrame EXCEPT !.script = s]
  <2>1. /\ \A j \in Jobs : Alive(j) => row[j].script # s
        /\ Begin(t, "delete_script", local) /\ Request(t) /\ row' = row /\ script' = script
    BY <1>7 DEF CheckScriptUnused, database
  <2>2. ThreadTypes' /\ frame'[t] = local /\ pc'[t] = "delete_script"
    BY <1>1, <2>1, FrameTypes, MovesKeepTypes DEF IInv, Stages, IdleFrame
  <2>3. DataTypes'
    BY <2>1 DEF DataTypes, Request, IInv, Types, TypeOK
  <2>4. \A j \in Jobs : /\ Agrees(j)' <=> Agrees(j)
                        /\ Alive(j)' <=> Alive(j)
    BY <2>1 DEF Agrees, Eligible, Alive, Request
  <2>5. Quiet /\ ~overlapped => HandlerView(t)'
    BY <2>1, <2>2, <2>4 DEF HandlerView, IInv, Order, QuietMeansAgreed, IdleFrame
  <2>6. SyncView(t)'
    BY <2>2 DEF SyncView
  <2>7. Order'
    BY <1>1, <2>1, <2>5, <2>6, BeginKeeps
  <2> QED
    BY <2>2, <2>3, <2>7, TypesSplit DEF IInv
<1> QED
  BY <1>3, <1>4, <1>5, <1>6, <1>7 DEF HandleRequest

-----------------------------------------------------------------------------
(***************************************************************************)
(* The scheduler's own steps.                                              *)
(***************************************************************************)
\* A step that leaves the database and the table alone leaves the agreement.
LEMMA AgreementKept ==
    ASSUME UNCHANGED <<database, armed>>
    PROVE  \A j \in Jobs : /\ Agrees(j)' <=> Agrees(j)
                           /\ Eligible(j)' <=> Eligible(j)
                           /\ ArmedWell(j)' <=> ArmedWell(j)
                           /\ row'[j] = row[j] /\ armed'[j] = armed[j]
BY DEF database, Agrees, Eligible, ArmedWell

\* add_or_replace and remove_if_armed change one job's trigger.
LEMMA TableTypes ==
    ASSUME Types, NEW j \in Jobs, NEW expr \in Exprs,
           AddOrReplace(j, expr) \/ RemoveIfArmed(j)
    PROVE  /\ armed' \in [Jobs -> Schedulable \cup {NotArmed}]
           /\ \A i \in Jobs \ {j} : armed'[i] = armed[i]
           /\ RemoveIfArmed(j) => armed'[j] = NotArmed
           /\ AddOrReplace(j, expr) /\ expr \in Schedulable => armed'[j] = expr
BY DEF AddOrReplace, RemoveIfArmed, Types, TypeOK

\* A handler's reads, and its write of the table, keep the invariant.
LEMMA HandlerKeeps ==
    ASSUME IInv, NEW t \in Threads,
           ReadJob(t) \/ ReadEligible(t) \/ ArmJob(t) \/ DisarmJob(t) \/ DeleteScript(t)
    PROVE  IInv'
<1> DEFINE f == frame[t]
           j == f.job
<1>1. f \in Frames /\ LocalOK(t) /\ solo \in Threads \cup {Nobody}
  BY DEF IInv, Types, TypeOK
<1>2. pc[t] # "idle"
  BY DEF ReadJob, ReadEligible, ArmJob, DisarmJob, DeleteScript
<1>3. ~overlapped => solo = t /\ HandlerView(t)
  BY <1>2 DEF IInv, Order, Alone, Views
<1>4. CASE ReadJob(t)
  <2>1. j \in Jobs /\ row[j].expr \in Exprs /\ UNCHANGED <<database, armed>>
    BY <1>1, <1>4 DEF ReadJob, LocalOK, IInv, Types, TypeOK, Rows
  <2>2. PICK stage \in {"eligible", "disarm"}, local \in Frames :
           /\ Goto(t, stage, local) /\ local.job = j
           /\ stage = "eligible" => row[j].state = "active" /\ local.expr = row[j].expr
           /\ stage = "disarm" => row[j].state # "active"
    <3>1. [f EXCEPT !.expr = row[j].expr] \in Frames
      BY <1>1, <2>1 DEF Frames
    <3>2. [f EXCEPT !.expr = row[j].expr].job = j /\ [f EXCEPT !.expr = row[j].expr].expr = row[j].expr
      BY <1>1 DEF Frames
    <3> QED
      BY <1>1, <1>4, <3>1, <3>2 DEF ReadJob
  <2>3. ThreadTypes' /\ frame'[t] = local /\ pc'[t] = stage
    BY <2>1, <2>2, MovesKeepTypes DEF IInv, Stages
  <2>4. DataTypes'
    BY <1>4 DEF ReadJob, DataTypes, database, counters, IInv, Types, TypeOK
  <2>5. SyncView(t)' /\ (~overlapped => HandlerView(t)')
    BY <1>3, <1>4, <2>1, <2>2, <2>3, AgreementKept DEF SyncView, HandlerView, Eligible, ReadJob
  <2>6. Order'
    BY <1>2, <2>2, <2>5, GotoKeeps
  <2> QED
    BY <2>3, <2>4, <2>6, TypesSplit DEF IInv
<1>5. CASE ReadEligible(t)
  <2>1. j \in Jobs /\ f.expr \in Exprs /\ UNCHANGED <<database, armed>>
    BY <1>1, <1>5 DEF ReadEligible, LocalOK
  <2>2. PICK stage \in {"arm", "disarm"} :
           Goto(t, stage, f) /\ (stage = "arm" <=> Eligible(j))
    BY <1>5 DEF ReadEligible
  <2>3. ThreadTypes' /\ frame'[t] = f /\ pc'[t] = stage
    BY <1>1, <2>1, <2>2, MovesKeepTypes DEF IInv, Stages
  <2>4. DataTypes'
    BY <1>5 DEF ReadEligible, DataTypes, database, counters, IInv, Types, TypeOK
  <2>5. SyncView(t)' /\ (~overlapped => HandlerView(t)')
    BY <1>3, <1>5, <2>1, <2>2, <2>3, AgreementKept DEF SyncView, HandlerView, ReadEligible
  <2>6. Order'
    BY <1>2, <2>2, <2>5, GotoKeeps
  <2> QED
    BY <2>3, <2>4, <2>6, TypesSplit DEF IInv
<1>6. CASE ArmJob(t) \/ DisarmJob(t)
  <2>1. /\ j \in Jobs /\ pc[t] \in {"arm", "disarm"} /\ End(t)
        /\ row' = row /\ script' = script /\ serving' = serving
        /\ edits' = edits /\ restarts' = restarts
    BY <1>1, <1>6 DEF ArmJob, DisarmJob, LocalOK, database, counters
  <2>2. PICK expr \in Exprs : /\ pc[t] = "arm" => AddOrReplace(j, expr) /\ expr = f.expr
                              /\ pc[t] = "disarm" => RemoveIfArmed(j)
    <3>1. row[j].expr \in Exprs
      BY <2>1 DEF IInv, Types, TypeOK, Rows
    <3> QED
      BY <1>1, <1>6, <3>1 DEF ArmJob, DisarmJob, LocalOK
  <2>3. /\ armed' \in [Jobs -> Schedulable \cup {NotArmed}]
        /\ \A i \in Jobs \ {j} : armed'[i] = armed[i]
        /\ pc[t] = "disarm" => armed'[j] = NotArmed
        /\ pc[t] = "arm" /\ expr \in Schedulable => armed'[j] = expr
    BY <2>1, <2>2, TableTypes DEF IInv
  <2>4. ThreadTypes'
    BY <2>1, FrameTypes, MovesKeepTypes DEF IInv, Stages
  <2>5. DataTypes'
    BY <2>1, <2>3 DEF DataTypes, IInv, Types, TypeOK
  <2>6. pc[t] # "pruning" /\ overlapped' = overlapped
    BY <2>1 DEF End
  <2>7. ~overlapped => \A i \in Jobs : Agrees(i)'
    <3> SUFFICES ASSUME ~overlapped, NEW i \in Jobs PROVE Agrees(i)'
      OBVIOUS
    <3>1. Eligible(i)' <=> Eligible(i)
      BY <2>1 DEF Eligible
    <3>2. CASE i # j
      BY <1>3, <2>1, <2>3, <3>1, <3>2 DEF HandlerView, Agrees
    <3>3. CASE i = j
      BY <1>3, <2>1, <2>2, <2>3, <3>1, <3>3 DEF HandlerView, Agrees
    <3> QED
      BY <3>2, <3>3
  <2>8. Order'
    BY <1>2, <2>1, <2>6, <2>7, EndKeeps
  <2> QED
    BY <2>4, <2>5, <2>8, TypesSplit DEF IInv
<1>7. CASE DeleteScript(t)
  <2>1. /\ f.script \in Scripts /\ End(t) /\ script' = [script EXCEPT ![f.script] = "deleted"]
        /\ row' = row /\ armed' = armed /\ serving' = serving
        /\ edits' = edits /\ restarts' = restarts /\ pc[t] = "delete_script"
    BY <1>1, <1>7 DEF DeleteScript, LocalOK, counters
  <2>2. ThreadTypes'
    BY <2>1, FrameTypes, MovesKeepTypes DEF IInv, Stages
  <2>3. DataTypes'
    BY <2>1 DEF DataTypes, IInv, Types, TypeOK
  <2>4. overlapped' = overlapped
    BY <2>1 DEF End
  <2>5. ~overlapped => \A i \in Jobs : Agrees(i)'
    <3> SUFFICES ASSUME ~overlapped, NEW i \in Jobs PROVE Agrees(i)'
      OBVIOUS
    <3>1. Agrees(i) /\ (Alive(i) => row[i].script # f.script)
      BY <1>3, <2>1 DEF HandlerView
    <3>2. Eligible(i)' <=> Eligible(i)
      BY <2>1, <3>1 DEF Eligible, Alive, IInv, Types, TypeOK, Rows
    <3> QED
      BY <2>1, <3>1, <3>2 DEF Agrees
  <2>6. Order'
    BY <1>2, <2>1, <2>4, <2>5, EndKeeps
  <2> QED
    BY <2>2, <2>3, <2>6, TypesSplit DEF IInv
<1> QED
  BY <1>4, <1>5, <1>6, <1>7

\* sync_from_db keeps the invariant, from its snapshot to its end.
LEMMA SyncKeeps ==
    ASSUME IInv, NEW t \in Threads,
           TakeSnapshot(t) \/ SyncArm(t) \/ ListStale(t) \/ SyncRemove(t) \/ EndSync(t)
    PROVE  IInv'
<1> DEFINE f == frame[t]
<1>1. f \in Frames /\ f.todo \in Snapshots /\ EligibleJobs \subseteq Jobs
  BY DEF IInv, Types, TypeOK, Frames, EligibleJobs
<1>2. pc[t] # "idle"
  BY DEF TakeSnapshot, SyncArm, ListStale, SyncRemove, EndSync
<1>3. solo = t => SyncView(t)
  BY <1>2 DEF IInv, Order, Views
<1>4. ASSUME NEW stage \in {"arming", "pruning"}, NEW local \in Frames, Goto(t, stage, local),
             row' = row, script' = script, serving' = serving,
             edits' = edits, restarts' = restarts,
             armed' \in [Jobs -> Schedulable \cup {NotArmed}],
             pc'[t] = stage /\ frame'[t] = local /\ solo = t => SyncView(t)'
      PROVE  IInv'
  <2>1. ThreadTypes' /\ frame'[t] = local /\ pc'[t] = stage
    BY <1>4, MovesKeepTypes DEF IInv, Stages
  <2>2. DataTypes'
    BY <1>4 DEF DataTypes, IInv, Types, TypeOK
  <2>3. HandlerView(t)'
    BY <2>1 DEF HandlerView
  <2>4. Order'
    BY <1>2, <1>4, <2>1, <2>3, GotoKeeps
  <2> QED
    BY <2>1, <2>2, <2>4, TypesSplit DEF IInv
<1>5. CASE TakeSnapshot(t)
  <2> DEFINE todo == [j \in EligibleJobs |-> row[j].expr]
             local == [f EXCEPT !.todo = todo, !.desired = EligibleJobs]
  <2>1. /\ pc[t] = "snapshot" /\ Goto(t, "arming", local)
        /\ UNCHANGED <<database, armed, serving, counters>>
    BY <1>5 DEF TakeSnapshot
  <2>2. \A j \in EligibleJobs : row[j].expr \in Exprs
    BY <1>1 DEF IInv, Types, TypeOK, Rows
  <2>3. todo \in [EligibleJobs -> Exprs]
    BY <2>2
  <2>4. todo \in Snapshots
    BY <1>1, <2>3 DEF Snapshots
  <2> HIDE DEF todo
  <2>5. local \in Frames /\ local.todo = todo /\ local.desired = EligibleJobs
    BY <1>1, <2>4 DEF Frames
  <2>6. /\ DOMAIN todo = EligibleJobs /\ \A j \in EligibleJobs : todo[j] = row[j].expr
        /\ EligibleJobs' = EligibleJobs /\ row' = row
    BY <2>1 DEF todo, EligibleJobs, Eligible, database
  <2> HIDE DEF local
  <2>7. pc'[t] = "arming" /\ frame'[t] = local => SyncView(t)'
    BY <2>5, <2>6 DEF SyncView
  <2>8. armed' \in [Jobs -> Schedulable \cup {NotArmed}]
    BY <2>1 DEF IInv, Types, TypeOK
  <2> QED
    BY <1>4, <2>1, <2>5, <2>7, <2>8 DEF database, counters
<1>6. CASE SyncArm(t)
  <2>1. PICK j \in DOMAIN f.todo :
           /\ AddOrReplace(j, f.todo[j])
           /\ Goto(t, "arming", [f EXCEPT !.todo = Restrict(@, DOMAIN @ \ {j})])
    BY <1>6 DEF SyncArm
  <2> DEFINE todo == Restrict(f.todo, DOMAIN f.todo \ {j})
             local == [f EXCEPT !.todo = todo]
  <2>2. PICK S \in SUBSET Jobs : f.todo \in [S -> Exprs]
    BY <1>1 DEF Snapshots
  <2>3. /\ todo \in [S \ {j} -> Exprs] /\ DOMAIN todo = DOMAIN f.todo \ {j}
        /\ \A i \in DOMAIN todo : todo[i] = f.todo[i]
        /\ j \in Jobs /\ f.todo[j] \in Exprs
    BY <2>1, <2>2 DEF Restrict
  <2>4. todo \in Snapshots
    BY <2>2, <2>3 DEF Snapshots
  <2> HIDE DEF todo
  <2>5. /\ local \in Frames /\ local.todo = todo /\ local.desired = f.desired
        /\ Goto(t, "arming", local)
    BY <1>1, <2>1, <2>4 DEF Frames, todo
  <2> HIDE DEF local
  <2>6. /\ armed' \in [Jobs -> Schedulable \cup {NotArmed}]
        /\ \A i \in Jobs \ {j} : armed'[i] = armed[i]
        /\ f.todo[j] \in Schedulable => armed'[j] = f.todo[j]
    BY <2>1, <2>3, TableTypes DEF IInv
  <2>7. /\ pc[t] = "arming" /\ row' = row /\ script' = script /\ serving' = serving
        /\ edits' = edits /\ restarts' = restarts
    BY <1>6 DEF SyncArm, database, counters
  <2>8. EligibleJobs' = EligibleJobs
    BY <2>7 DEF EligibleJobs, Eligible
  <2>9. ASSUME pc'[t] = "arming", frame'[t] = local, solo = t PROVE SyncView(t)'
    <3>1. /\ f.desired = EligibleJobs
          /\ \A i \in DOMAIN f.todo : i \in EligibleJobs /\ f.todo[i] = row[i].expr
          /\ \A i \in EligibleJobs \ DOMAIN f.todo : ArmedWell(i)
      BY <1>3, <2>7, <2>9 DEF SyncView
    <3>2. \A i \in EligibleJobs \ DOMAIN todo : ArmedWell(i)'
      <4> SUFFICES ASSUME NEW i \in EligibleJobs \ DOMAIN todo PROVE ArmedWell(i)'
        OBVIOUS
      <4>1. CASE i = j
        BY <2>1, <2>6, <2>7, <3>1, <4>1 DEF ArmedWell
      <4>2. CASE i # j
        BY <1>1, <2>3, <2>6, <2>7, <3>1, <4>2 DEF ArmedWell
      <4> QED
        BY <4>1, <4>2
    <3> QED
      BY <2>3, <2>5, <2>7, <2>8, <2>9, <3>1, <3>2 DEF SyncView
  <2> QED
    BY <1>4, <2>5, <2>6, <2>7, <2>9
<1>7. CASE ListStale(t)
  <2> DEFINE local == [f EXCEPT !.stale = ArmedJobs \ f.desired]
  <2>1. /\ pc[t] = "arming" /\ DOMAIN f.todo = {} /\ Goto(t, "pruning", local)
        /\ UNCHANGED <<database, armed, serving, counters>>
    BY <1>7 DEF ListStale
  <2>2. local \in Frames /\ local.stale = ArmedJobs \ f.desired
    BY <1>1 DEF Frames, ArmedJobs
  <2> HIDE DEF local
  <2>3. /\ EligibleJobs' = EligibleJobs /\ ArmedJobs' = ArmedJobs
        /\ \A j \in Jobs : ArmedWell(j)' <=> ArmedWell(j)
    BY <2>1, AgreementKept DEF EligibleJobs, ArmedJobs
  <2>4. pc'[t] = "pruning" /\ frame'[t] = local /\ solo = t => SyncView(t)'
    BY <1>1, <1>3, <2>1, <2>2, <2>3 DEF SyncView
  <2>5. armed' \in [Jobs -> Schedulable \cup {NotArmed}]
    BY <2>1 DEF IInv, Types, TypeOK
  <2> QED
    BY <1>4, <2>1, <2>2, <2>4, <2>5 DEF database, counters
<1>8. CASE SyncRemove(t)
  <2>1. PICK j \in f.stale :
           RemoveIfArmed(j) /\ Goto(t, "pruning", [f EXCEPT !.stale = @ \ {j}])
    BY <1>8 DEF SyncRemove
  <2> DEFINE local == [f EXCEPT !.stale = @ \ {j}]
  <2>2. /\ local \in Frames /\ local.stale = f.stale \ {j} /\ j \in Jobs
        /\ Goto(t, "pruning", local)
    BY <1>1, <2>1 DEF Frames
  <2> HIDE DEF local
  <2>3. /\ armed' \in [Jobs -> Schedulable \cup {NotArmed}]
        /\ \A i \in Jobs \ {j} : armed'[i] = armed[i]
        /\ armed'[j] = NotArmed
    BY <2>1, <2>2 DEF RemoveIfArmed, IInv, Types, TypeOK
  <2>4. /\ pc[t] = "pruning" /\ row' = row /\ script' = script /\ serving' = serving
        /\ edits' = edits /\ restarts' = restarts
    BY <1>8 DEF SyncRemove, database, counters
  <2>5. EligibleJobs' = EligibleJobs /\ ArmedJobs' = ArmedJobs \ {j}
    BY <2>3, <2>4 DEF EligibleJobs, Eligible, ArmedJobs
  <2>6. ASSUME pc'[t] = "pruning", frame'[t] = local, solo = t PROVE SyncView(t)'
    <3>1. /\ \A i \in EligibleJobs : ArmedWell(i) /\ i \notin f.stale
          /\ ArmedJobs \subseteq EligibleJobs \cup f.stale
      BY <1>3, <2>4, <2>6 DEF SyncView
    <3>2. \A i \in EligibleJobs : ArmedWell(i)'
      BY <1>1, <2>1, <2>3, <2>4, <3>1 DEF ArmedWell
    <3> QED
      BY <2>2, <2>5, <2>6, <3>1, <3>2 DEF SyncView
  <2> QED
    BY <1>4, <2>2, <2>3, <2>4, <2>6
<1>9. CASE EndSync(t)
  <2>1. /\ pc[t] = "pruning" /\ f.stale = {} /\ End(t) /\ serving' = TRUE
        /\ UNCHANGED <<database, armed, counters>>
    BY <1>9 DEF EndSync
  <2>2. ThreadTypes'
    BY <2>1, FrameTypes, MovesKeepTypes DEF IInv, Stages
  <2>3. DataTypes'
    BY <2>1 DEF DataTypes, database, counters, IInv, Types, TypeOK
  <2>4. solo = t => \A j \in Jobs : Agrees(j)'
    <3> SUFFICES ASSUME solo = t, NEW j \in Jobs PROVE Agrees(j)
      BY <2>1, AgreementKept
    <3>1. /\ Eligible(j) => ArmedWell(j)
          /\ armed[j] # NotArmed => Eligible(j)
      BY <1>3, <2>1 DEF SyncView, EligibleJobs, ArmedJobs
    <3> QED
      BY <3>1 DEF Agrees, ArmedWell
  <2>5. Order'
    BY <1>2, <2>1, <2>4, EndKeeps
  <2> QED
    BY <2>2, <2>3, <2>5, TypesSplit DEF IInv
<1> QED
  BY <1>5, <1>6, <1>7, <1>8, <1>9

\* A tick of the resync job starts a sync.
LEMMA StartKeeps == ASSUME IInv, StartPeriodicSync PROVE IInv'
<1>1. /\ Periodic \in Threads /\ Begin(Periodic, "snapshot", IdleFrame)
      /\ UNCHANGED <<database, armed, serving, counters>>
  BY DEF StartPeriodicSync, Resync, Threads
<1>2. ThreadTypes' /\ pc'[Periodic] = "snapshot"
  BY <1>1, FrameTypes, MovesKeepTypes DEF IInv, Stages
<1>3. DataTypes'
  BY <1>1 DEF DataTypes, database, counters, IInv, Types, TypeOK
<1>4. Order'
  BY <1>1, <1>2, BeginKeeps DEF SyncView, HandlerView
<1> QED
  BY <1>2, <1>3, <1>4, TypesSplit DEF IInv

\* After a restart the first sync is alone.
LEMMA RestartKeeps == ASSUME IInv, Restart PROVE IInv'
<1>1. ThreadTypes'
  BY FrameTypes DEF Restart, ThreadTypes, LocalOK, Threads, Stages, IInv, Types, TypeOK
<1>2. DataTypes'
  <2>1. armed' \in [Jobs -> Schedulable \cup {NotArmed}]
    BY DEF Restart
  <2>2. UNCHANGED <<row, script, edits>> /\ serving' = FALSE /\ restarts' = restarts + 1
    BY DEF Restart, database
  <2>3. DataTypes
    BY TypesSplit DEF IInv
  <2>4. restarts' \in Nat /\ edits' \in Nat
    BY <2>2, <2>3 DEF DataTypes
  <2>5. row' \in [Jobs -> Rows]
    BY <2>2, <2>3 DEF DataTypes
  <2>6. script' \in [Scripts -> {"enabled", "disabled", "deleted"}]
    BY <2>2, <2>3 DEF DataTypes
  <2>7. serving' \in BOOLEAN
    BY <2>2
  <2> QED
    BY <2>1, <2>4, <2>5, <2>6, <2>7, Zenon DEF DataTypes
<1>3. pc'[Periodic] = "snapshot" /\ Periodic \in Threads
  BY DEF Restart, Threads
<1>4. ~Quiet'
  BY <1>3 DEF Quiet
<1>5. Alone'
  BY DEF Restart, Alone
<1>6. Views'
  BY <1>3 DEF Restart, Views, SyncView, HandlerView
<1> QED
  BY <1>1, <1>2, <1>4, <1>5, <1>6, TypesSplit DEF IInv, Order, QuietMeansAgreed

\* A step that changes nothing keeps the invariant.
LEMMA StutterKeeps == ASSUME IInv, UNCHANGED vars PROVE IInv'
BY DEF vars, database, process, counters, IInv, Types, TypeOK, LocalOK, Order, Alone, Views,
   SyncView, HandlerView, QuietMeansAgreed, Quiet, Agrees, Eligible, EligibleJobs, ArmedJobs,
   ArmedWell, Alive

-----------------------------------------------------------------------------
\* Every reachable state satisfies the invariant.
LEMMA Invariant == Spec => []IInv
<1>1. IInv /\ [Next]_vars => IInv'
  <2> SUFFICES ASSUME IInv, [Next]_vars PROVE IInv'
    OBVIOUS
  <2>1. ASSUME NEW t \in WebThreads, HandleRequest(t) PROVE IInv'
    BY <2>1, RequestKeeps
  <2>2. ASSUME NEW t \in Threads, Work(t) PROVE IInv'
    BY <2>2, HandlerKeeps, SyncKeeps DEF Work
  <2> QED
    BY <2>1, <2>2, StartKeeps, RestartKeeps, StutterKeeps DEF Next
<1> QED
  BY InvInit, <1>1, PTL DEF Spec

\* Every variable keeps its type: what is armed is a trigger that CronTrigger
\* accepted.
THEOREM TypeCorrect == Spec => []TypeOK
<1>1. IInv => TypeOK
  BY DEF IInv, Types
<1> QED
  BY Invariant, <1>1, PTL

\* For any number of jobs and threads: activities that do not overlap leave every
\* trigger in agreement with its row, and so does one undisturbed sync, whatever
\* overlapped before it.
THEOREM QuietAgrees == Spec => []QuietMeansAgreed
<1>1. IInv => QuietMeansAgreed
  BY DEF IInv, Order
<1> QED
  BY Invariant, <1>1, PTL

=============================================================================
