------------------------------ MODULE Sessions ------------------------------
(***************************************************************************)
(* The sessions of one user: logging in behind the rate limiter, the       *)
(* token's way through get_current_user, logging out, and everything that  *)
(* revokes all tokens at once (services/auth_service.py, routes/auth.py,   *)
(* api/dependencies.py, core/security.py, core/rate_limit.py and the       *)
(* callers in services/user_service.py).                                   *)
(*                                                                         *)
(* The clock counts ticks, several to the second: a token's iat and exp    *)
(* are whole seconds, tokens_invalid_before and the limiter are not.       *)
(* Users share nothing here, and neither do the limiter's keys.            *)
(***************************************************************************)
EXTENDS Integers, FiniteSets, Sequences

CONSTANTS
    WebThreads,
    TicksPerSecond,
    TokenSeconds,       \* ACCESS_TOKEN_EXPIRE_MINUTES, in seconds
    MaxEvents,          \* LOGIN_RATE_LIMIT
    WindowSeconds,      \* LOGIN_RATE_WINDOW_SECONDS
    MaxClock,           \* bound: the clock
    MaxRequests,        \* bound: requests
    MaxRestarts         \* bound: restarts of the process

ASSUME SettingsAssumption ==
    {TicksPerSecond, TokenSeconds, MaxEvents, WindowSeconds} \subseteq Nat \ {0}
ASSUME ThreadsAssumption == IsFiniteSet(WebThreads)
ASSUME BoundsAssumption == {MaxClock, MaxRequests, MaxRestarts} \subseteq Nat

VARIABLES
    (* The database. *)
    active,         \* users.is_active
    threshold,      \* users.tokens_invalid_before, 0 for NULL
    revoked,        \* revoked_tokens: the jti of each row
    (* The process and its clients. *)
    failures,       \* the limiter's timestamps for the user's key
    pc, frame,      \* each thread's position and local variables
    tokens,         \* the tokens issued; a jti is a token's place
    clock,
    (* Bookkeeping that the program does not keep. *)
    era,            \* commits that revoked all tokens of the user
    ended,          \* the tokens that were logged out
    wait,           \* when the wait of the last 429 answer is over, or 0
    left,           \* the failures of that answer but the oldest, and those since
    requests, restarts

database == <<active, threshold, revoked>>
bounds == <<requests, restarts>>
vars == <<database, failures, pc, frame, tokens, clock, era, ended, wait, left, bounds>>

Jtis == DOMAIN tokens

(***************************************************************************)
(* "era" is the number of revocations when the password was verified;      *)
(* "raced" says that the login overlapped a later one.                     *)
(***************************************************************************)
Tokens == [issued : Nat, era : Nat, raced : BOOLEAN]

IdleFrame == [token |-> 0, era |-> 0, stamp |-> 0, op |-> "none"]
Operations == {"none", "password", "role", "activate", "deactivate"}
Frames == [token : Nat, era : Nat, stamp : Nat, op : Operations]

Stages == {"idle", "retry", "authenticate", "fail", "reset", "issue",
           "decoded", "load", "accepted", "purge", "revoke"}

TypeOK ==
    /\ active \in BOOLEAN
    /\ threshold \in Nat
    /\ tokens \in Seq(Tokens)
    /\ revoked \subseteq Jtis
    /\ failures \in Seq(Nat)
    /\ pc \in [WebThreads -> Stages]
    /\ frame \in [WebThreads -> Frames]
    /\ \A t \in WebThreads : pc[t] \in {"decoded", "load", "accepted"} => frame[t].token \in Jtis
    /\ ended \subseteq Jtis
    /\ {clock, era, wait, left, requests, restarts} \subseteq Nat

-----------------------------------------------------------------------------
(* create_access_token and decode_token: JWT dates are whole seconds. *)

WholeSecond(time) == (time \div TicksPerSecond) * TicksPerSecond
Iat(k) == WholeSecond(tokens[k].issued)
Exp(k) == WholeSecond(tokens[k].issued + TokenSeconds * TicksPerSecond)

\* A token is expired from the very instant of its exp.
Expired(k) == Exp(k) <= clock

\* Mutant: rows are purged by the time of the logout.
PurgedAtOnce(rows) == {}

\* purge_expired: the rows whose expires_at is before now.
Purged(rows) == {k \in rows : Exp(k) >= clock}

-----------------------------------------------------------------------------
(* SlidingWindowRateLimiter, for one key. *)

Window == WindowSeconds * TicksPerSecond

\* _purge: the oldest leave while they are before the cutoff.  The clock never
\* goes back, so that these are all that are before it.
Old(times, now) == {i \in DOMAIN times : times[i] + Window < now}
Recent(times, now) == SubSeq(times, Cardinality(Old(times, now)) + 1, Len(times))

\* Mutant: one attempt too many.
BlocksAbove(times) == Len(times) > MaxEvents

IsBlocked(times) == Len(times) >= MaxEvents

\* Mutant: the fraction of a second is cut off.
SecondsCut(times) ==
    IF times = <<>> THEN 0 ELSE (Head(times) + Window - clock) \div TicksPerSecond

SecondsUntilUnblocked(times) ==
    IF times = <<>> THEN 0 ELSE (Head(times) + Window - clock) \div TicksPerSecond + 1

-----------------------------------------------------------------------------
Init ==
    /\ active \in BOOLEAN
    /\ threshold = 0
    /\ revoked = {}
    /\ failures = <<>>
    /\ pc = [t \in WebThreads |-> "idle"]
    /\ frame = [t \in WebThreads |-> IdleFrame]
    /\ tokens = <<>>
    /\ clock = 0
    /\ era = 0
    /\ ended = {}
    /\ wait = 0
    /\ left = 0
    /\ requests = 0
    /\ restarts = 0

Goto(t, stage, local) ==
    /\ pc' = [pc EXCEPT ![t] = stage]
    /\ frame' = [frame EXCEPT ![t] = local]
    /\ UNCHANGED <<clock, restarts>>

\* The handler returns or raises; its session is closed.
Done(t) == Goto(t, "idle", IdleFrame)

Arrive(t, stage, local) ==
    /\ pc[t] = "idle"
    /\ requests < MaxRequests
    /\ requests' = requests + 1
    /\ Goto(t, stage, local)

-----------------------------------------------------------------------------
(***************************************************************************)
(* POST /login.  Its calls of the limiter take the lock one by one.        *)
(***************************************************************************)
LoginArrives(t) ==
    /\ Arrive(t, IF IsBlocked(Recent(failures, clock)) THEN "retry" ELSE "authenticate", IdleFrame)
    /\ failures' = Recent(failures, clock)
    /\ UNCHANGED <<database, tokens, era, ended, wait, left>>

\* The 429 answer with its Retry-After, whatever the window holds.
AnswerRetryAfter(t) ==
    LET times == Recent(failures, clock) IN
    /\ pc[t] = "retry"
    /\ failures' = times
    /\ wait' = clock + SecondsUntilUnblocked(times) * TicksPerSecond
    /\ left' = IF times = <<>> THEN 0 ELSE Len(times) - 1
    /\ Done(t)
    /\ UNCHANGED <<database, tokens, era, ended, requests>>

\* authenticate_user: the row is read and the outcome is committed to the audit.
Authenticate(t) ==
    /\ pc[t] = "authenticate"
    /\ \/ active /\ Goto(t, "reset", [IdleFrame EXCEPT !.era = era])
       \/ Goto(t, "fail", IdleFrame)
    /\ UNCHANGED <<database, failures, tokens, era, ended, wait, left, requests>>

RegisterFailure(t) ==
    /\ pc[t] = "fail"
    /\ failures' = Append(failures, clock)
    /\ left' = left + 1
    /\ Done(t)
    /\ UNCHANGED <<database, tokens, era, ended, wait, requests>>

ResetKey(t) ==
    /\ pc[t] = "reset"
    /\ failures' = <<>>
    /\ Goto(t, "issue", frame[t])
    /\ UNCHANGED <<database, tokens, era, ended, wait, left, requests>>

\* update_last_login and issue_access_token.
IssueAccessToken(t) ==
    /\ pc[t] = "issue"
    /\ tokens' = Append(tokens, [issued |-> clock, era |-> frame[t].era,
                                 raced |-> frame[t].era # era])
    /\ Done(t)
    /\ UNCHANGED <<database, failures, era, ended, wait, left, requests>>

-----------------------------------------------------------------------------
(***************************************************************************)
(* get_token_payload and get_current_user: the signature and exp, then the *)
(* revoked_tokens table, then the user's row.  A refusal leaves nothing.   *)
(***************************************************************************)
DecodeToken(t) ==
    \E k \in Jtis :
        /\ ~Expired(k)
        /\ Arrive(t, "decoded", [IdleFrame EXCEPT !.token = k])
        /\ UNCHANGED <<database, failures, tokens, era, ended, wait, left>>

\* Mutant: the payload does not reach get_current_user.
PayloadLost(t) ==
    /\ pc[t] = "decoded"
    /\ \/ frame[t].token \notin revoked /\ Goto(t, "load", IdleFrame)
       \/ frame[t].token \in revoked /\ Done(t)
    /\ UNCHANGED <<database, failures, tokens, era, ended, wait, left, requests>>

IsRevoked(t) ==
    /\ pc[t] = "decoded"
    /\ \/ frame[t].token \notin revoked /\ Goto(t, "load", frame[t])
       \/ frame[t].token \in revoked /\ Done(t)
    /\ UNCHANGED <<database, failures, tokens, era, ended, wait, left, requests>>

TokenAccepted(k) == active /\ Iat(k) >= threshold

GetCurrentUser(t) ==
    /\ pc[t] = "load"
    /\ \/ TokenAccepted(frame[t].token) /\ Goto(t, "accepted", frame[t])
       \/ ~TokenAccepted(frame[t].token) /\ Done(t)
    /\ UNCHANGED <<database, failures, tokens, era, ended, wait, left, requests>>

\* GET /me and every other route; also a change with a wrong current password.
Answer(t) ==
    /\ pc[t] = "accepted"
    /\ Done(t)
    /\ UNCHANGED <<database, failures, tokens, era, ended, wait, left, requests>>

(***************************************************************************)
(* POST /logout: the row and the audit record in one commit.  The jti is   *)
(* unique: a second row for the token raises.                              *)
(***************************************************************************)
Logout(t) ==
    /\ pc[t] = "accepted"
    /\ frame[t].token \notin revoked
    /\ revoked' = revoked \cup {frame[t].token}
    /\ ended' = ended \cup {frame[t].token}
    /\ Goto(t, "purge", frame[t])
    /\ UNCHANGED <<active, threshold, failures, tokens, era, wait, left, requests>>

PurgeExpired(t) ==
    /\ pc[t] = "purge"
    /\ revoked' = Purged(revoked)
    /\ Done(t)
    /\ UNCHANGED <<active, threshold, failures, tokens, era, ended, wait, left, requests>>

-----------------------------------------------------------------------------
\* Mutant: the threshold has whole seconds, as the tokens do.
RevokeFromSecond(stamp) ==
    /\ threshold' = WholeSecond(stamp)
    /\ era' = era + 1
    /\ tokens' = [k \in Jtis |-> [tokens[k] EXCEPT !.raced = @ \/ tokens[k].issued >= stamp]]

(***************************************************************************)
(* _revoke_all_tokens_for_user, once committed.  Its time was taken before *)
(* its flush: a token issued since then overlaps it.                       *)
(***************************************************************************)
RevokeAllTokens(stamp) ==
    /\ threshold' = stamp
    /\ era' = era + 1
    /\ tokens' = [k \in Jtis |-> [tokens[k] EXCEPT !.raced = @ \/ tokens[k].issued >= stamp]]

\* change_password up to the flush: the current password was right.
StartPasswordChange(t) ==
    /\ pc[t] = "accepted"
    /\ Goto(t, "revoke", [IdleFrame EXCEPT !.op = "password", !.stamp = clock])
    /\ UNCHANGED <<database, failures, tokens, era, ended, wait, left, requests>>

\* update_user by an administrator, up to its first flush.
StartUpdateUser(t) ==
    \E op \in Operations \ {"none"} :
        /\ op = "activate" => ~active
        /\ op = "deactivate" => active
        /\ Arrive(t, "revoke", [IdleFrame EXCEPT !.op = op, !.stamp = clock])
        /\ UNCHANGED <<database, failures, tokens, era, ended, wait, left>>

\* One change in a request.  A new password or role: the time was taken before the flush.
CommitCredentials(t) ==
    /\ pc[t] = "revoke" /\ frame[t].op \in {"password", "role"}
    /\ RevokeAllTokens(frame[t].stamp)
    /\ Done(t)
    /\ UNCHANGED <<active, revoked, failures, ended, wait, left, requests>>

\* A new status: its record is flushed first, so the time is taken under the
\* write lock.
CommitDeactivation(t) ==
    /\ pc[t] = "revoke" /\ frame[t].op = "deactivate"
    /\ active' = FALSE
    /\ RevokeAllTokens(clock)
    /\ Done(t)
    /\ UNCHANGED <<revoked, failures, ended, wait, left, requests>>

CommitActivation(t) ==
    /\ pc[t] = "revoke" /\ frame[t].op = "activate"
    /\ active' = TRUE
    /\ Done(t)
    /\ UNCHANGED <<threshold, revoked, failures, tokens, era, ended, wait, left, requests>>

-----------------------------------------------------------------------------
\* A check or a flush raises, or the purge fails, which is ignored.
Abandon(t) ==
    /\ pc[t] # "idle"
    /\ Done(t)
    /\ UNCHANGED <<database, failures, tokens, era, ended, wait, left, requests>>

\* The limiter and the requests are gone; lifespan purges, or fails to.
Restart ==
    /\ restarts < MaxRestarts
    /\ restarts' = restarts + 1
    /\ failures' = <<>>
    /\ pc' = [t \in WebThreads |-> "idle"]
    /\ frame' = [t \in WebThreads |-> IdleFrame]
    /\ revoked' \in {revoked, Purged(revoked)}
    /\ UNCHANGED <<active, threshold, tokens, clock, era, ended, wait, left, requests>>

Tick ==
    /\ clock < MaxClock
    /\ clock' = clock + 1
    /\ UNCHANGED <<database, failures, pc, frame, tokens, era, ended, wait, left, bounds>>

Next ==
    \/ \E t \in WebThreads :
          \/ LoginArrives(t) \/ AnswerRetryAfter(t) \/ Authenticate(t) \/ RegisterFailure(t)
          \/ ResetKey(t) \/ IssueAccessToken(t)
          \/ DecodeToken(t) \/ IsRevoked(t) \/ GetCurrentUser(t) \/ Answer(t)
          \/ Logout(t) \/ PurgeExpired(t)
          \/ StartPasswordChange(t) \/ StartUpdateUser(t)
          \/ CommitCredentials(t) \/ CommitDeactivation(t) \/ CommitActivation(t)
          \/ Abandon(t)
    \/ Restart \/ Tick

Spec == Init /\ [][Next]_vars

-----------------------------------------------------------------------------
\* A token that was logged out never passes the look into revoked_tokens while
\* it would be valid otherwise, whoever purges the table and when.  After its
\* expiry it may: exp is looked at one statement earlier.
LoggedOutStaysOut ==
    [][\A t \in WebThreads :
          pc[t] = "decoded" /\ pc'[t] = "load" /\ frame[t].token \in ended =>
              Expired(frame[t].token)]_vars

\* A token from before a change of password, role or status is never accepted
\* after its commit, although iat is cut to the second, the threshold's time is
\* older than its commit, and a later commit can bring an older threshold: only
\* a login that overlaps the change leaves a token that survives it.
OldTokensRefused ==
    [][\A t \in WebThreads :
          pc[t] = "load" /\ pc'[t] = "accepted" =>
              LET token == tokens[frame[t].token] IN token.era = era \/ token.raced]_vars

\* Attempts that are past the look at the limiter and not in it yet.
Attempts == {t \in WebThreads : pc[t] \in {"authenticate", "fail"}}

\* However the attempts overlap, the window holds fewer failures than the limit
\* and one for each thread together.
AttemptsBounded ==
    Len(Recent(failures, clock)) + Cardinality(Attempts) < MaxEvents + Cardinality(WebThreads)

\* When the wait that a 429 answer names is over, the oldest failure it counted
\* has left the window: no more than the others are there, and those that came
\* since.  So one wait lets the client in if the window held exactly the limit;
\* after attempts that overlapped, it may hold more, the answer names the time of
\* the oldest all the same, and the client may be turned away again.
OldestLeavesInTime ==
    wait # 0 /\ clock >= wait => Len(Recent(failures, clock)) <= left
=============================================================================
