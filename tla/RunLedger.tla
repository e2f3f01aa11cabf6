----------------------------- MODULE RunLedger -----------------------------
(***************************************************************************)
(* What the executions table promises, independent of who writes it.       *)
(*                                                                         *)
(* A run is recorded before its process exists (Begin), is closed at most  *)
(* once with a final status (Close), and a run nobody will close any more  *)
(* keeps the status "running" (Abandon).  The scheduler never records a    *)
(* run of a job that already has a scheduled run recorded as running.      *)
(* ExecutionEngine implements this module.                                 *)
(***************************************************************************)
EXTENDS Naturals, Sequences

CONSTANTS Jobs, Triggers, Scheduled, Running, FinalStatuses

VARIABLES
    rows,   \* the executions table, oldest first: the id is the position
    open    \* the ids some live caller still has to close

vars == <<rows, open>>

RunningRows(j, trigger) ==
    {id \in DOMAIN rows : /\ rows[id].job = j
                          /\ rows[id].trigger = trigger
                          /\ rows[id].status = Running}

Init ==
    /\ rows = <<>>
    /\ open = {}

Begin(j, trigger) ==
    /\ trigger = Scheduled => RunningRows(j, Scheduled) = {}
    /\ rows' = Append(rows, [job |-> j, trigger |-> trigger, status |-> Running])
    /\ open' = open \cup {Len(rows) + 1}

Close(id, status) ==
    /\ id \in open
    /\ rows' = [rows EXCEPT ![id].status = status]
    /\ open' = open \ {id}

Abandon(ids) ==
    /\ ids # {}
    /\ open' = open \ ids
    /\ UNCHANGED rows

Next ==
    \/ \E j \in Jobs, trigger \in Triggers : Begin(j, trigger)
    \/ \E id \in open, status \in FinalStatuses : Close(id, status)
    \/ \E ids \in SUBSET open : Abandon(ids)

Spec == Init /\ [][Next]_vars
=============================================================================
