------------------------------- MODULE Replay -------------------------------
(***************************************************************************)
(* What a reader of a log makes of it: the entries about one key, applied  *)
(* in their order to what the key began with.  cron_job_history and        *)
(* audit_logs are such logs; the other entries of the table are skipped.   *)
(***************************************************************************)
EXTENDS Naturals, Sequences

CONSTANTS
    Apply(_, _),        \* a row and an entry to the row after it
    About(_)            \* the key of an entry

Step(row, key, e) == IF About(e) = key THEN Apply(row, e) ELSE row

Replayed(key, first, log) ==
    LET after[n \in 0 .. Len(log)] ==
            IF n = 0 THEN first ELSE Step(after[n - 1], key, log[n])
    IN  after[Len(log)]
=============================================================================
