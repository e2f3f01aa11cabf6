--------------------------- MODULE SessionsProofs ---------------------------
(***************************************************************************)
(* Tokens, revocations and the login limiter, for any number of threads,   *)
(* requests and restarts, and any settings.                                *)
(***************************************************************************)
EXTENDS Sessions, FiniteSetTheorems, SequenceTheorems, TLAPS

\* A function on 1 .. n is a sequence.
LEMMA TupleIsSeq ==
    ASSUME NEW S, NEW n \in Nat, NEW g \in [1 .. n -> S]
    PROVE  g \in Seq(S)
<1>1. g \in UNION {[1 .. m -> S] : m \in Nat}
  OBVIOUS
<1> QED
  BY <1>1, SeqDef

\* The settings are positive numbers.
LEMMA Settings ==
    /\ TicksPerSecond \in Nat /\ TicksPerSecond > 0
    /\ TokenSeconds \in Nat /\ TokenSeconds > 0
    /\ MaxEvents \in Nat /\ MaxEvents > 0
    /\ WindowSeconds \in Nat /\ WindowSeconds > 0
    /\ Window \in Nat
<1>1. /\ TicksPerSecond \in Nat /\ TicksPerSecond > 0
      /\ TokenSeconds \in Nat /\ TokenSeconds > 0
      /\ MaxEvents \in Nat /\ MaxEvents > 0
      /\ WindowSeconds \in Nat /\ WindowSeconds > 0
  BY SettingsAssumption
<1>2. \A a, b \in Nat : a * b \in Nat
  OBVIOUS
<1> QED
  BY <1>1, <1>2 DEF Window

\* Cutting a time to its second gives a time that is not later, and less than a
\* second earlier.
LEMMA WholeSecondBounds ==
    ASSUME NEW time \in Int
    PROVE  /\ WholeSecond(time) \in Int
           /\ WholeSecond(time) <= time
           /\ time < WholeSecond(time) + TicksPerSecond
<1>1. ASSUME NEW n \in Nat, n > 0
      PROVE  /\ time \div n \in Int
             /\ (time \div n) * n <= time
             /\ time < (time \div n) * n + n
  BY <1>1, Z3
<1>2. \A a, b \in Int : a * b \in Int
  OBVIOUS
<1> QED
  BY <1>1, <1>2, Settings DEF WholeSecond

\* What the limiter keeps of a sequence of timestamps.
LEMMA RecentProperties ==
    ASSUME NEW times \in Seq(Nat), NEW now \in Nat
    PROVE  /\ Recent(times, now) \in Seq(Nat)
           /\ Cardinality(Old(times, now)) \in 0 .. Len(times)
           /\ Len(Recent(times, now)) = Len(times) - Cardinality(Old(times, now))
           /\ Old(times, now) = {} => Recent(times, now) = times
           /\ IsFiniteSet(Old(times, now))
<1> DEFINE n == Cardinality(Old(times, now))
<1>1. Len(times) \in Nat /\ DOMAIN times = 1 .. Len(times)
  BY LenProperties
<1>2. IsFiniteSet(1 .. Len(times)) /\ Cardinality(1 .. Len(times)) = Len(times)
  <2>1. 1 \in Int /\ Len(times) \in Int
    BY <1>1
  <2>2. /\ IsFiniteSet(1 .. Len(times))
        /\ Cardinality(1 .. Len(times)) = IF 1 > Len(times) THEN 0 ELSE Len(times) - 1 + 1
    BY <2>1, FS_Interval, Zenon
  <2> QED
    BY <1>1, <2>2
<1>3. Old(times, now) \in SUBSET (1 .. Len(times))
  BY <1>1 DEF Old
<1>4. IsFiniteSet(Old(times, now)) /\ n <= Len(times)
  BY <1>2, <1>3, FS_Subset
<1>5. n \in 0 .. Len(times)
  BY <1>1, <1>4, FS_CardinalityType
<1> HIDE DEF n
<1>6. \A i \in n + 1 .. Len(times) : times[i] \in Nat
  BY <1>1, <1>5, ElementOfSeq
<1>7. /\ SubSeq(times, n + 1, Len(times)) \in Seq(Nat)
      /\ Len(SubSeq(times, n + 1, Len(times))) = Len(times) - n
  <2>1. n + 1 \in Int /\ Len(times) \in Int
    BY <1>1, <1>5
  <2>2. /\ SubSeq(times, n + 1, Len(times)) \in Seq(Nat)
        /\ Len(SubSeq(times, n + 1, Len(times)))
             = IF n + 1 <= Len(times) THEN Len(times) - (n + 1) + 1 ELSE 0
    BY <1>6, <2>1, SubSeqProperties, Zenon
  <2>3. \A a \in Nat : \A b \in 0 .. a : (IF b + 1 <= a THEN a - (b + 1) + 1 ELSE 0) = a - b
    OBVIOUS
  <2> QED
    BY <1>1, <1>5, <2>2, <2>3, Zenon
<1>8. n = 0 => SubSeq(times, n + 1, Len(times)) = times
  BY SubSeqFull
<1>9. Old(times, now) = {} => n = 0
  BY FS_EmptySet DEF n
<1>10. Recent(times, now) = SubSeq(times, n + 1, Len(times))
  BY DEF Recent, n
<1> QED
  <2>1. Old(times, now) = {} => Recent(times, now) = times
    BY <1>8, <1>9, <1>10
  <2>2. /\ Recent(times, now) \in Seq(Nat)
        /\ Len(Recent(times, now)) = Len(times) - n
    BY <1>7, <1>10
  <2> QED
    BY <1>4, <1>5, <2>1, <2>2, Zenon DEF n

-----------------------------------------------------------------------------
\* What TypeOK says of the threads, and a step that moves one of them.
ThreadsOK ==
    /\ pc \in [WebThreads -> Stages]
    /\ frame \in [WebThreads -> Frames]
    /\ \A t \in WebThreads : pc[t] \in {"decoded", "load", "accepted"} => frame[t].token \in Jtis
    /\ clock \in Nat
    /\ restarts \in Nat

\* A step that moves one thread keeps ThreadsOK.
LEMMA GotoTypes ==
    ASSUME TypeOK, NEW t \in WebThreads, NEW stage \in Stages, NEW local \in Frames,
           Goto(t, stage, local), Jtis \subseteq Jtis',
           stage \in {"decoded", "load", "accepted"} => local.token \in Jtis
    PROVE  ThreadsOK'
<1>1. pc' = [pc EXCEPT ![t] = stage] /\ frame' = [frame EXCEPT ![t] = local]
      /\ clock' = clock /\ restarts' = restarts
  BY DEF Goto
<1>2. pc' \in [WebThreads -> Stages] /\ frame' \in [WebThreads -> Frames]
  BY <1>1 DEF TypeOK
<1>3. ASSUME NEW u \in WebThreads, pc'[u] \in {"decoded", "load", "accepted"}
      PROVE  frame'[u].token \in Jtis'
  <2>1. CASE u = t
    BY <1>1, <1>3, <2>1 DEF TypeOK
  <2>2. CASE u # t
    BY <1>1, <1>3, <2>2 DEF TypeOK
  <2> QED
    BY <2>1, <2>2
<1> QED
  BY <1>1, <1>2, <1>3 DEF ThreadsOK, TypeOK

\* The frames that the actions write.
LEMMA FrameTypes ==
    /\ IdleFrame \in Frames
    /\ \A n \in Nat : /\ [IdleFrame EXCEPT !.token = n] \in Frames
                       /\ [IdleFrame EXCEPT !.token = n].token = n
                       /\ [IdleFrame EXCEPT !.era = n] \in Frames
                       /\ [IdleFrame EXCEPT !.era = n].era = n
                       /\ \A op \in Operations :
                             [IdleFrame EXCEPT !.op = op, !.stamp = n] \in Frames
BY DEF IdleFrame, Frames, Operations

\* The tokens, before and after an action that adds one or marks them.
LEMMA TokenTypes ==
    ASSUME TypeOK
    PROVE  /\ Jtis = 1 .. Len(tokens) /\ Len(tokens) \in Nat
           /\ \A k \in Jtis : tokens[k] \in Tokens
BY LenProperties DEF TypeOK, Jtis

\* A revocation marks tokens and keeps their dates.
LEMMA MarkedTokens ==
    ASSUME TypeOK, NEW stamp \in Nat, RevokeAllTokens(stamp)
    PROVE  /\ tokens' \in Seq(Tokens) /\ Jtis' = Jtis
           /\ \A k \in Jtis : /\ tokens'[k].issued = tokens[k].issued
                              /\ tokens'[k].raced = (tokens[k].raced \/ tokens[k].issued >= stamp)
<1>1. tokens' = [k \in Jtis |-> [tokens[k] EXCEPT !.raced = @ \/ tokens[k].issued >= stamp]]
  BY DEF RevokeAllTokens
<1>2. \A k \in Jtis : tokens[k] \in Tokens
  BY TokenTypes
<1>3. tokens' \in [1 .. Len(tokens) -> Tokens]
  <2>1. \A k \in Jtis : [tokens[k] EXCEPT !.raced = @ \/ tokens[k].issued >= stamp] \in Tokens
    BY <1>2 DEF Tokens
  <2> QED
    BY <1>1, <2>1, TokenTypes
<1>4. tokens' \in Seq(Tokens)
  BY <1>3, TokenTypes, TupleIsSeq
<1>5. DOMAIN tokens' = Jtis
  BY <1>1
<1>6. \A k \in Jtis : /\ tokens'[k].issued = tokens[k].issued
                     /\ tokens'[k].raced = (tokens[k].raced \/ tokens[k].issued >= stamp)
  BY <1>1, <1>2 DEF Tokens
<1> QED
  BY <1>4, <1>5, <1>6 DEF Jtis

\* A token is added at the end.
LEMMA IssuedToken ==
    ASSUME TypeOK, NEW token \in Tokens, tokens' = Append(tokens, token)
    PROVE  /\ tokens' \in Seq(Tokens) /\ Jtis' = 1 .. Len(tokens) + 1
           /\ \A k \in Jtis : tokens'[k] = tokens[k]
           /\ tokens'[Len(tokens) + 1] = token
<1>1. tokens \in Seq(Tokens)
  BY DEF TypeOK
<1>2. /\ tokens' \in Seq(Tokens) /\ Len(tokens') = Len(tokens) + 1
      /\ \A k \in 1 .. Len(tokens) : tokens'[k] = tokens[k]
      /\ tokens'[Len(tokens) + 1] = token
  BY <1>1, AppendProperties
<1>3. DOMAIN tokens' = 1 .. Len(tokens')
  BY <1>2, LenProperties
<1> QED
  BY <1>2, <1>3, TokenTypes DEF Jtis

-----------------------------------------------------------------------------
\* The time that the answer of AnswerRetryAfter names is a time at which the
\* oldest failure has left the window.
LEMMA WaitIsEnough ==
    ASSUME TypeOK, Recent(failures, clock) # <<>>
    PROVE  LET until == clock + SecondsUntilUnblocked(Recent(failures, clock)) * TicksPerSecond IN
           /\ until \in Nat
           /\ Recent(failures, clock)[1] + Window < until
<1> DEFINE times == Recent(failures, clock)
           x == Head(times) + Window - clock
           q == SecondsUntilUnblocked(times)
<1>1. times \in Seq(Nat) /\ times # <<>>
  BY RecentProperties DEF TypeOK
<1>2. Head(times) \in Nat /\ Head(times) = times[1]
  BY <1>1, HeadTailProperties
<1> HIDE DEF times
<1>c. clock \in Nat
  BY DEF TypeOK
<1>3. x \in Int /\ x + clock = times[1] + Window /\ x + clock >= 0
  BY <1>2, <1>c, Settings
<1>4. q = x \div TicksPerSecond + 1
  BY <1>1 DEF SecondsUntilUnblocked
<1> HIDE DEF x, q
<1>5. x \div TicksPerSecond \in Int
  BY <1>3, Settings
<1>6. q * TicksPerSecond = WholeSecond(x) + TicksPerSecond
  <2>1. \A a, b \in Int : (a + 1) * b = a * b + b
    OBVIOUS
  <2> QED
    BY <1>4, <1>5, <2>1, Settings DEF WholeSecond
<1>7. WholeSecond(x) \in Int /\ x < WholeSecond(x) + TicksPerSecond
  BY <1>3, WholeSecondBounds
<1>8. clock + q * TicksPerSecond \in Nat /\ times[1] + Window < clock + q * TicksPerSecond
  BY <1>3, <1>6, <1>7, Settings DEF TypeOK
<1> QED
  BY <1>8 DEF times, q

-----------------------------------------------------------------------------
\* With no failure in the window there is nothing to wait for.
LEMMA WaitIsNothing ==
    ASSUME TypeOK, Recent(failures, clock) = <<>>
    PROVE  clock + SecondsUntilUnblocked(Recent(failures, clock)) * TicksPerSecond = clock
<1>1. SecondsUntilUnblocked(Recent(failures, clock)) = 0
  BY DEF SecondsUntilUnblocked
<1>2. \A a \in Nat : clock + 0 * a = clock
  BY DEF TypeOK
<1> QED
  BY <1>1, <1>2, Settings

\* The initial states have the types.
LEMMA TypeInit == Init => TypeOK
<1> SUFFICES ASSUME Init PROVE TypeOK
  OBVIOUS
<1>1. tokens \in Seq(Tokens) /\ failures \in Seq(Nat)
  BY EmptySeq DEF Init
<1>2. pc \in [WebThreads -> Stages] /\ frame \in [WebThreads -> Frames]
  BY FrameTypes DEF Init, Stages
<1>3. active \in BOOLEAN /\ threshold \in Nat /\ revoked \subseteq Jtis /\ ended \subseteq Jtis
  BY DEF Init
<1>4. {clock, era, wait, left, requests, restarts} \subseteq Nat
  BY DEF Init
<1>5. \A t \in WebThreads : pc[t] = "idle"
  BY DEF Init
<1> QED
  BY <1>1, <1>2, <1>3, <1>4, <1>5 DEF TypeOK

\* Every action keeps the types.
LEMMA TypeNext == TypeOK /\ [Next]_vars => TypeOK'
<1> SUFFICES ASSUME TypeOK, [Next]_vars PROVE TypeOK'
  OBVIOUS
<1> USE DEF database, bounds
<1>r. Recent(failures, clock) \in Seq(Nat)
  BY RecentProperties DEF TypeOK
<1>1. ASSUME NEW t \in WebThreads, LoginArrives(t) PROVE TypeOK'
  <2> DEFINE stage == IF IsBlocked(Recent(failures, clock)) THEN "retry" ELSE "authenticate"
  <2>1. Goto(t, stage, IdleFrame) /\ stage \in {"retry", "authenticate"} /\ requests' \in Nat
    BY <1>1 DEF LoginArrives, Arrive, TypeOK
  <2> HIDE DEF stage
  <2>2. ThreadsOK'
    BY <1>1, <2>1, GotoTypes, FrameTypes DEF Stages, LoginArrives, Jtis
  <2> QED
    BY <1>1, <1>r, <2>1, <2>2 DEF LoginArrives, ThreadsOK, TypeOK, Jtis
<1>2. ASSUME NEW t \in WebThreads, AnswerRetryAfter(t) PROVE TypeOK'
  <2>1. ThreadsOK'
    BY <1>2, GotoTypes, FrameTypes DEF Stages, AnswerRetryAfter, Done, Jtis
  <2>2. wait' \in Nat /\ left' \in Nat
    <3>1. CASE Recent(failures, clock) # <<>>
      <4>1. Len(Recent(failures, clock)) \in Nat /\ Len(Recent(failures, clock)) # 0
        BY <1>r, <3>1, EmptySeq, LenProperties
      <4> QED
        BY <1>2, <3>1, <4>1, WaitIsEnough DEF AnswerRetryAfter
    <3>2. CASE Recent(failures, clock) = <<>>
      BY <1>2, <3>2, WaitIsNothing DEF AnswerRetryAfter, TypeOK
    <3> QED
      BY <3>1, <3>2
  <2> QED
    BY <1>2, <1>r, <2>1, <2>2 DEF AnswerRetryAfter, ThreadsOK, TypeOK, Jtis
<1>3. ASSUME NEW t \in WebThreads, Authenticate(t) PROVE TypeOK'
  <2>1. ThreadsOK'
    BY <1>3, GotoTypes, FrameTypes DEF Stages, Authenticate, Jtis, TypeOK
  <2> QED
    BY <1>3, <2>1 DEF Authenticate, ThreadsOK, TypeOK, Jtis
<1>4. ASSUME NEW t \in WebThreads, RegisterFailure(t) PROVE TypeOK'
  <2>1. ThreadsOK'
    BY <1>4, GotoTypes, FrameTypes DEF Stages, RegisterFailure, Done, Jtis
  <2>2. failures' \in Seq(Nat) /\ left' \in Nat
    BY <1>4, AppendProperties DEF RegisterFailure, TypeOK
  <2> QED
    BY <1>4, <2>1, <2>2 DEF RegisterFailure, ThreadsOK, TypeOK, Jtis
<1>5. ASSUME NEW t \in WebThreads, ResetKey(t) PROVE TypeOK'
  <2>1. ThreadsOK'
    BY <1>5, GotoTypes DEF Stages, ResetKey, Jtis, TypeOK
  <2>2. failures' \in Seq(Nat)
    BY <1>5, EmptySeq DEF ResetKey
  <2> QED
    BY <1>5, <2>1, <2>2 DEF ResetKey, ThreadsOK, TypeOK, Jtis
<1>6. ASSUME NEW t \in WebThreads, IssueAccessToken(t) PROVE TypeOK'
  <2> DEFINE token == [issued |-> clock, era |-> frame[t].era, raced |-> frame[t].era # era]
  <2>1. token \in Tokens /\ tokens' = Append(tokens, token)
    BY <1>6 DEF IssueAccessToken, Tokens, TypeOK, Frames
  <2>2. tokens' \in Seq(Tokens) /\ Jtis \subseteq Jtis'
    BY <2>1, IssuedToken, TokenTypes
  <2>3. ThreadsOK'
    BY <1>6, <2>2, GotoTypes, FrameTypes DEF Stages, IssueAccessToken, Done
  <2> QED
    BY <1>6, <2>2, <2>3 DEF IssueAccessToken, ThreadsOK, TypeOK
<1>7. ASSUME NEW t \in WebThreads, DecodeToken(t) PROVE TypeOK'
  <2>1. PICK k \in Jtis : Arrive(t, "decoded", [IdleFrame EXCEPT !.token = k])
    BY <1>7 DEF DecodeToken
  <2>2. k \in Nat /\ Jtis' = Jtis
    BY <1>7, TokenTypes DEF DecodeToken, Jtis
  <2>3. ThreadsOK'
    BY <2>1, <2>2, GotoTypes, FrameTypes DEF Stages, Arrive
  <2> QED
    BY <1>7, <2>1, <2>3 DEF DecodeToken, Arrive, ThreadsOK, TypeOK, Jtis
<1>8. ASSUME NEW t \in WebThreads, IsRevoked(t) PROVE TypeOK'
  <2>1. ThreadsOK'
    BY <1>8, GotoTypes, FrameTypes DEF Stages, IsRevoked, Done, Jtis, TypeOK
  <2> QED
    BY <1>8, <2>1 DEF IsRevoked, ThreadsOK, TypeOK, Jtis
<1>9. ASSUME NEW t \in WebThreads, GetCurrentUser(t) PROVE TypeOK'
  <2>1. ThreadsOK'
    BY <1>9, GotoTypes, FrameTypes DEF Stages, GetCurrentUser, Done, Jtis, TypeOK
  <2> QED
    BY <1>9, <2>1 DEF GetCurrentUser, ThreadsOK, TypeOK, Jtis
<1>10. ASSUME NEW t \in WebThreads, Answer(t) PROVE TypeOK'
  <2>1. ThreadsOK'
    BY <1>10, GotoTypes, FrameTypes DEF Stages, Answer, Done, Jtis
  <2> QED
    BY <1>10, <2>1 DEF Answer, ThreadsOK, TypeOK, Jtis
<1>11. ASSUME NEW t \in WebThreads, Logout(t) PROVE TypeOK'
  <2>1. ThreadsOK'
    BY <1>11, GotoTypes DEF Stages, Logout, Jtis, TypeOK
  <2>2. frame[t].token \in Jtis
    BY <1>11 DEF Logout, TypeOK
  <2> QED
    BY <1>11, <2>1, <2>2 DEF Logout, ThreadsOK, TypeOK, Jtis
<1>12. ASSUME NEW t \in WebThreads, PurgeExpired(t) PROVE TypeOK'
  <2>1. ThreadsOK'
    BY <1>12, GotoTypes, FrameTypes DEF Stages, PurgeExpired, Done, Jtis
  <2> QED
    BY <1>12, <2>1 DEF PurgeExpired, Purged, ThreadsOK, TypeOK, Jtis
<1>13. ASSUME NEW t \in WebThreads, StartPasswordChange(t) PROVE TypeOK'
  <2>1. ThreadsOK'
    BY <1>13, GotoTypes, FrameTypes DEF Stages, StartPasswordChange, Jtis, Operations, TypeOK
  <2> QED
    BY <1>13, <2>1 DEF StartPasswordChange, ThreadsOK, TypeOK, Jtis
<1>14. ASSUME NEW t \in WebThreads, StartUpdateUser(t) PROVE TypeOK'
  <2>1. PICK op \in Operations : Arrive(t, "revoke", [IdleFrame EXCEPT !.op = op, !.stamp = clock])
    BY <1>14 DEF StartUpdateUser
  <2>2. ThreadsOK'
    BY <1>14, <2>1, GotoTypes, FrameTypes DEF Stages, Arrive, StartUpdateUser, Jtis, TypeOK
  <2> QED
    BY <1>14, <2>1, <2>2 DEF StartUpdateUser, Arrive, ThreadsOK, TypeOK, Jtis
<1>15. ASSUME NEW t \in WebThreads, CommitCredentials(t) PROVE TypeOK'
  <2>1. frame[t].stamp \in Nat /\ RevokeAllTokens(frame[t].stamp)
    BY <1>15 DEF CommitCredentials, TypeOK, Frames
  <2>2. tokens' \in Seq(Tokens) /\ Jtis' = Jtis
    BY <2>1, MarkedTokens
  <2>3. ThreadsOK'
    BY <1>15, <2>2, GotoTypes, FrameTypes DEF Stages, CommitCredentials, Done
  <2> QED
    BY <1>15, <2>1, <2>2, <2>3 DEF CommitCredentials, RevokeAllTokens, ThreadsOK, TypeOK
<1>16. ASSUME NEW t \in WebThreads, CommitDeactivation(t) PROVE TypeOK'
  <2>1. clock \in Nat /\ RevokeAllTokens(clock)
    BY <1>16 DEF CommitDeactivation, TypeOK
  <2>2. tokens' \in Seq(Tokens) /\ Jtis' = Jtis
    BY <2>1, MarkedTokens
  <2>3. ThreadsOK'
    BY <1>16, <2>2, GotoTypes, FrameTypes DEF Stages, CommitDeactivation, Done
  <2> QED
    <3>1. active' \in BOOLEAN
      BY <1>16 DEF CommitDeactivation
    <3>2. /\ threshold' \in Nat /\ era' \in Nat
          /\ UNCHANGED <<revoked, failures, ended, wait, left, requests>>
      BY <1>16, <2>1 DEF CommitDeactivation, RevokeAllTokens, TypeOK
    <3> QED
      BY <2>2, <2>3, <3>1, <3>2 DEF ThreadsOK, TypeOK
<1>17. ASSUME NEW t \in WebThreads, CommitActivation(t) PROVE TypeOK'
  <2>1. ThreadsOK'
    BY <1>17, GotoTypes, FrameTypes DEF Stages, CommitActivation, Done, Jtis
  <2> QED
    BY <1>17, <2>1 DEF CommitActivation, ThreadsOK, TypeOK, Jtis
<1>18. ASSUME NEW t \in WebThreads, Abandon(t) PROVE TypeOK'
  <2>1. ThreadsOK'
    BY <1>18, GotoTypes, FrameTypes DEF Stages, Abandon, Done, Jtis
  <2> QED
    BY <1>18, <2>1 DEF Abandon, ThreadsOK, TypeOK, Jtis
<1>19. CASE Restart
  <2>1. failures' \in Seq(Nat)
    BY <1>19, EmptySeq DEF Restart
  <2> QED
    <3>1. pc' \in [WebThreads -> Stages] /\ frame' \in [WebThreads -> Frames]
      BY <1>19, FrameTypes DEF Restart, Stages
    <3>2. \A t \in WebThreads : pc'[t] = "idle"
      BY <1>19 DEF Restart
    <3>3. /\ revoked' \subseteq revoked /\ restarts' \in Nat
          /\ UNCHANGED <<active, threshold, tokens, clock, era, ended, wait, left, requests>>
      BY <1>19 DEF Restart, Purged, TypeOK
    <3> QED
      BY <2>1, <3>1, <3>2, <3>3 DEF TypeOK, Jtis
<1>20. CASE Tick
  BY <1>20 DEF Tick, TypeOK, Jtis
<1>21. CASE UNCHANGED vars
  BY <1>21 DEF vars, TypeOK, Jtis
<1> QED
  BY <1>1, <1>2, <1>3, <1>4, <1>5, <1>6, <1>7, <1>8, <1>9, <1>10, <1>11, <1>12, <1>13, <1>14,
     <1>15, <1>16, <1>17, <1>18, <1>19, <1>20, <1>21 DEF Next

-----------------------------------------------------------------------------
(***************************************************************************)
(* The revocation of all tokens.                                           *)
(***************************************************************************)
\* A token from before a revocation is too old for the threshold, unless its
\* login overlapped one.
CutoffInv == \A k \in Jtis : tokens[k].era = era \/ tokens[k].raced \/ Iat(k) < threshold

\* A revocation leaves no token that is neither refused nor marked.
LEMMA CutoffRevoke ==
    ASSUME TypeOK, NEW stamp \in Nat, RevokeAllTokens(stamp)
    PROVE  CutoffInv'
<1> SUFFICES ASSUME NEW k \in Jtis' PROVE tokens'[k].raced \/ Iat(k)' < threshold'
  BY DEF CutoffInv
<1>1. /\ k \in Jtis
      /\ tokens'[k].issued = tokens[k].issued
      /\ tokens'[k].raced = (tokens[k].raced \/ tokens[k].issued >= stamp)
      /\ tokens[k].issued \in Nat
  BY MarkedTokens, TokenTypes DEF Tokens
<1>2. Iat(k)' = WholeSecond(tokens[k].issued)
  BY <1>1 DEF Iat, WholeSecond
<1>3. WholeSecond(tokens[k].issued) \in Int /\ WholeSecond(tokens[k].issued) <= tokens[k].issued
  BY <1>1, WholeSecondBounds
<1>4. threshold' = stamp
  BY DEF RevokeAllTokens
<1>5. CASE tokens[k].issued >= stamp
  BY <1>1, <1>5
<1>6. CASE ~(tokens[k].issued >= stamp)
  BY <1>1, <1>2, <1>3, <1>4, <1>6
<1> QED
  BY <1>5, <1>6

\* Every step keeps CutoffInv.
LEMMA CutoffNext == TypeOK /\ CutoffInv /\ [Next]_vars => CutoffInv'
<1> SUFFICES ASSUME TypeOK, CutoffInv, [Next]_vars PROVE CutoffInv'
  OBVIOUS
<1>1. CASE UNCHANGED <<tokens, era, threshold>>
  BY <1>1 DEF CutoffInv, Jtis, Iat, WholeSecond
<1>2. ASSUME NEW t \in WebThreads, IssueAccessToken(t) PROVE CutoffInv'
  <2> DEFINE token == [issued |-> clock, era |-> frame[t].era, raced |-> frame[t].era # era]
  <2>1. token \in Tokens /\ tokens' = Append(tokens, token)
    BY <1>2 DEF IssueAccessToken, Tokens, TypeOK, Frames
  <2>2. /\ Jtis' = Jtis \cup {Len(tokens) + 1}
        /\ \A k \in Jtis : tokens'[k] = tokens[k]
        /\ tokens'[Len(tokens) + 1] = token
    BY <2>1, IssuedToken, TokenTypes
  <2>3. token.era = era \/ token.raced
    OBVIOUS
  <2> HIDE DEF token
  <2>4. era' = era /\ threshold' = threshold
    BY <1>2 DEF IssueAccessToken, database
  <2> QED
    BY <2>2, <2>3, <2>4 DEF CutoffInv, Iat, WholeSecond
<1>3. ASSUME NEW t \in WebThreads, CommitCredentials(t) PROVE CutoffInv'
  BY <1>3, CutoffRevoke DEF CommitCredentials, TypeOK, Frames
<1>4. ASSUME NEW t \in WebThreads, CommitDeactivation(t) PROVE CutoffInv'
  BY <1>4, CutoffRevoke DEF CommitDeactivation, TypeOK
<1> QED
  BY <1>1, <1>2, <1>3, <1>4 DEF Next, vars, database, bounds, LoginArrives, AnswerRetryAfter,
     Authenticate, RegisterFailure, ResetKey, DecodeToken, IsRevoked, GetCurrentUser, Answer,
     Logout, PurgeExpired, StartPasswordChange, StartUpdateUser, CommitActivation, Abandon,
     Restart, Tick

-----------------------------------------------------------------------------
(***************************************************************************)
(* Logging out.                                                            *)
(***************************************************************************)
\* A token that was logged out has its row, until it has expired.
EndedInv == \A k \in ended : k \in revoked \/ Exp(k) < clock

\* A step that keeps the tokens' dates, the rows and the ended tokens.
LEMMA EndedKept ==
    ASSUME TypeOK, EndedInv, ended' = ended, clock' \in Nat, clock <= clock',
           \A k \in Jtis : tokens'[k].issued = tokens[k].issued,
           \A k \in revoked \ revoked' : Exp(k) < clock
    PROVE  EndedInv'
<1> SUFFICES ASSUME NEW k \in ended PROVE k \in revoked' \/ Exp(k)' < clock'
  BY DEF EndedInv
<1>1. k \in Jtis /\ tokens[k].issued \in Nat
  BY TokenTypes DEF TypeOK, Tokens
<1>2. Exp(k)' = Exp(k)
  BY <1>1 DEF Exp, WholeSecond
<1>3. \A a, b \in Nat : a * b \in Nat
  OBVIOUS
<1>4. TokenSeconds * TicksPerSecond \in Nat
  BY <1>3, Settings
<1>5. tokens[k].issued + TokenSeconds * TicksPerSecond \in Int
  BY <1>1, <1>4
<1>6. Exp(k) \in Int
  BY <1>5, WholeSecondBounds DEF Exp
<1>7. k \in revoked' \/ Exp(k) < clock
  BY DEF EndedInv
<1> QED
  BY <1>2, <1>6, <1>7 DEF TypeOK

\* The rows that a purge deletes.
LEMMA PurgedRows == TypeOK => \A k \in revoked \ Purged(revoked) : Exp(k) < clock
<1> SUFFICES ASSUME TypeOK, NEW k \in revoked, ~(Exp(k) >= clock) PROVE Exp(k) < clock
  BY DEF Purged
<1>1. tokens[k].issued \in Nat
  BY TokenTypes DEF TypeOK, Tokens
<1>2. \A a, b \in Nat : a * b \in Nat
  OBVIOUS
<1>3. tokens[k].issued + TokenSeconds * TicksPerSecond \in Int
  BY <1>1, <1>2, Settings
<1>4. Exp(k) \in Int
  BY <1>3, WholeSecondBounds DEF Exp
<1> QED
  BY <1>4 DEF TypeOK

\* Every step keeps EndedInv.
LEMMA EndedNext == TypeOK /\ EndedInv /\ [Next]_vars => EndedInv'
<1> SUFFICES ASSUME TypeOK, EndedInv, [Next]_vars PROVE EndedInv'
  OBVIOUS
<1>1. CASE UNCHANGED <<tokens, ended, revoked>> /\ clock' \in {clock, clock + 1}
  BY <1>1, EndedKept DEF TypeOK
<1>2. ASSUME NEW t \in WebThreads, IssueAccessToken(t) PROVE EndedInv'
  <2> DEFINE token == [issued |-> clock, era |-> frame[t].era, raced |-> frame[t].era # era]
  <2>1. token \in Tokens /\ tokens' = Append(tokens, token)
    BY <1>2 DEF IssueAccessToken, Tokens, TypeOK, Frames
  <2>2. \A k \in Jtis : tokens'[k] = tokens[k]
    BY <2>1, IssuedToken
  <2>3. ended' = ended /\ revoked' = revoked /\ clock' = clock
    BY <1>2 DEF IssueAccessToken, database, Done, Goto
  <2> QED
    BY <2>2, <2>3, EndedKept DEF TypeOK
<1>3. ASSUME NEW t \in WebThreads, CommitCredentials(t) PROVE EndedInv'
  <2>1. /\ frame[t].stamp \in Nat /\ RevokeAllTokens(frame[t].stamp)
        /\ ended' = ended /\ revoked' = revoked /\ clock' = clock
    BY <1>3 DEF CommitCredentials, Done, Goto, TypeOK, Frames
  <2> QED
    BY <2>1, MarkedTokens, EndedKept DEF TypeOK
<1>4. ASSUME NEW t \in WebThreads, CommitDeactivation(t) PROVE EndedInv'
  <2>1. /\ RevokeAllTokens(clock)
        /\ ended' = ended /\ revoked' = revoked /\ clock' = clock
    BY <1>4 DEF CommitDeactivation, Done, Goto
  <2> QED
    BY <2>1, MarkedTokens, EndedKept DEF TypeOK
<1>5. ASSUME NEW t \in WebThreads, Logout(t) PROVE EndedInv'
  <2>1. /\ ended' = ended \cup {frame[t].token} /\ revoked' = revoked \cup {frame[t].token}
        /\ clock' = clock /\ tokens' = tokens
    BY <1>5 DEF Logout, Goto
  <2> QED
    BY <2>1 DEF EndedInv, Exp, WholeSecond
<1>6. ASSUME NEW t \in WebThreads, PurgeExpired(t) PROVE EndedInv'
  <2>1. revoked' = Purged(revoked) /\ ended' = ended /\ clock' = clock /\ tokens' = tokens
    BY <1>6 DEF PurgeExpired, Done, Goto
  <2> QED
    BY <2>1, PurgedRows, EndedKept DEF TypeOK
<1>7. CASE Restart
  <2>1. /\ revoked' \in {revoked, Purged(revoked)}
        /\ ended' = ended /\ clock' = clock /\ tokens' = tokens
    BY <1>7 DEF Restart
  <2> QED
    BY <2>1, PurgedRows, EndedKept DEF TypeOK
<1> QED
  BY <1>1, <1>2, <1>3, <1>4, <1>5, <1>6, <1>7 DEF Next, vars, database, bounds, LoginArrives,
     AnswerRetryAfter, Authenticate, RegisterFailure, ResetKey, DecodeToken, IsRevoked,
     GetCurrentUser, Answer, StartPasswordChange, StartUpdateUser, CommitActivation, Abandon,
     Tick, Arrive, Done, Goto

-----------------------------------------------------------------------------
(***************************************************************************)
(* The limiter.                                                            *)
(***************************************************************************)
\* All the failures that are kept but one are accounted for, and if none of those
\* has gone yet, the oldest leaves the window when the wait is over.
WaitInv ==
    wait # 0 => /\ Len(failures) <= left + 1
                /\ Len(failures) = left + 1 => failures[1] + Window < wait

\* Purging keeps WaitInv.
LEMMA WaitPurge ==
    ASSUME TypeOK, WaitInv, failures' = Recent(failures, clock), wait' = wait, left' = left
    PROVE  WaitInv'
<1>1. Len(failures) \in Nat /\ failures \in Seq(Nat) /\ clock \in Nat
  BY DEF TypeOK
<1>2. CASE Old(failures, clock) = {}
  BY <1>1, <1>2, RecentProperties DEF WaitInv
<1>3. CASE Old(failures, clock) # {}
  <2>1. Cardinality(Old(failures, clock)) # 0
    BY <1>1, <1>3, RecentProperties, FS_EmptySet
  <2>2. /\ Cardinality(Old(failures, clock)) \in 0 .. Len(failures)
        /\ Len(failures') = Len(failures) - Cardinality(Old(failures, clock))
    BY <1>1, RecentProperties
  <2>3. Len(failures') < Len(failures) /\ Len(failures') \in Nat
    BY <1>1, <2>1, <2>2
  <2>4. (Len(failures') <= left' + 1 /\ Len(failures') # left' + 1) \/ wait' = 0
    <3>1. left' = left /\ left \in Nat
      BY DEF TypeOK
    <3> QED
      BY <1>1, <2>3, <3>1 DEF WaitInv
  <2> QED
    BY <2>4 DEF WaitInv
<1> QED
  BY <1>2, <1>3

\* Every step keeps WaitInv.
LEMMA WaitNext == TypeOK /\ WaitInv /\ [Next]_vars => WaitInv'
<1> SUFFICES ASSUME TypeOK, WaitInv, [Next]_vars PROVE WaitInv'
  OBVIOUS
<1>1. CASE UNCHANGED <<failures, wait, left>>
  BY <1>1 DEF WaitInv
<1>2. CASE failures' = Recent(failures, clock) /\ wait' = wait /\ left' = left
  BY <1>2, WaitPurge
<1>3. CASE failures' = <<>> /\ wait' = wait /\ left' = left
  <2>1. Len(failures') = 0 /\ left' \in Nat
    BY <1>3 DEF TypeOK
  <2>2. \A a \in Nat : 0 <= a + 1 /\ 0 # a + 1
    OBVIOUS
  <2> QED
    BY <2>1, <2>2, Zenon DEF WaitInv
<1>4. ASSUME NEW t \in WebThreads, RegisterFailure(t) PROVE WaitInv'
  <2>1. failures' = Append(failures, clock) /\ wait' = wait /\ left' = left + 1
    BY <1>4 DEF RegisterFailure
  <2>2. /\ Len(failures) \in Nat /\ Len(failures') = Len(failures) + 1
        /\ Len(failures) > 0 => failures'[1] = failures[1]
    BY <2>1, AppendProperties DEF TypeOK
  <2>3. left \in Nat
    BY DEF TypeOK
  <2> QED
    BY <2>1, <2>2, <2>3 DEF WaitInv
<1>5. ASSUME NEW t \in WebThreads, AnswerRetryAfter(t) PROVE WaitInv'
  <2>1. failures' = Recent(failures, clock) /\ failures' \in Seq(Nat)
    BY <1>5, RecentProperties DEF AnswerRetryAfter, TypeOK
  <2>2. CASE Recent(failures, clock) # <<>>
    <3>1. /\ left' = Len(failures') - 1 /\ Len(failures') \in Nat
          /\ wait' = clock + SecondsUntilUnblocked(Recent(failures, clock)) * TicksPerSecond
      BY <1>5, <2>1, <2>2, LenProperties DEF AnswerRetryAfter
    <3>2. failures'[1] + Window < wait'
      BY <2>1, <2>2, <3>1, WaitIsEnough
    <3> QED
      BY <3>1, <3>2 DEF WaitInv
  <2>3. CASE Recent(failures, clock) = <<>>
    <3>1. Len(failures') = 0 /\ left' = 0
      BY <1>5, <2>1, <2>3 DEF AnswerRetryAfter
    <3> QED
      BY <3>1 DEF WaitInv
  <2> QED
    BY <2>2, <2>3
<1> QED
  BY <1>1, <1>2, <1>3, <1>4, <1>5 DEF Next, vars, database, bounds, LoginArrives,
     Authenticate, RegisterFailure, ResetKey, IssueAccessToken, DecodeToken, IsRevoked,
     GetCurrentUser, Answer, Logout, PurgeExpired, StartPasswordChange, StartUpdateUser,
     CommitCredentials, CommitDeactivation, CommitActivation, Abandon, Restart, Tick

\* When the wait is over, a failure has gone for the one that is not accounted for.
LEMMA WaitImplies == TypeOK /\ WaitInv => OldestLeavesInTime
<1> SUFFICES ASSUME TypeOK, WaitInv, wait # 0, clock >= wait
             PROVE  Len(Recent(failures, clock)) <= left
  BY DEF OldestLeavesInTime
<1>1. /\ Len(failures) \in Nat /\ failures \in Seq(Nat)
      /\ clock \in Nat /\ wait \in Nat /\ left \in Nat
      /\ DOMAIN failures = 1 .. Len(failures)
  BY LenProperties DEF TypeOK
<1>2. /\ Cardinality(Old(failures, clock)) \in 0 .. Len(failures)
      /\ Len(Recent(failures, clock)) = Len(failures) - Cardinality(Old(failures, clock))
  BY <1>1, RecentProperties
<1>3. CASE Len(failures) = left + 1
  <2>1. failures[1] \in Nat /\ 1 \in DOMAIN failures
    BY <1>1, <1>3, ElementOfSeq
  <2>2. 1 \in Old(failures, clock)
    BY <1>1, <1>3, <2>1, Settings DEF WaitInv, Old
  <2>3. Cardinality(Old(failures, clock)) # 0
    BY <1>1, <2>2, RecentProperties, FS_EmptySet
  <2> QED
    BY <1>1, <1>2, <1>3, <2>3
<1>4. CASE Len(failures) # left + 1
  <2>1. Len(failures) <= left + 1
    BY DEF WaitInv
  <2>2. \A n, k, a \in Nat : n <= a + 1 /\ n # a + 1 /\ k \in 0 .. n => n - k <= a
    OBVIOUS
  <2>3. Cardinality(Old(failures, clock)) \in Nat
    BY <1>1, <1>2
  <2> QED
    BY <1>1, <1>2, <1>4, <2>1, <2>2, <2>3, Zenon
<1> QED
  BY <1>3, <1>4

-----------------------------------------------------------------------------
\* The attempts under way are finitely many.
LEMMA AttemptsFinite ==
    /\ IsFiniteSet(Attempts) /\ Cardinality(Attempts) \in Nat
    /\ Cardinality(Attempts) <= Cardinality(WebThreads) /\ Cardinality(WebThreads) \in Nat
<1>1. Attempts \in SUBSET WebThreads
  BY DEF Attempts
<1> QED
  BY <1>1, ThreadsAssumption, FS_Subset, FS_CardinalityType

\* Fewer failures in the window and no new attempt.
LEMMA AttemptsKept ==
    ASSUME TypeOK, AttemptsBounded, Attempts' \subseteq Attempts,
           Len(Recent(failures', clock')) \in Nat, Len(Recent(failures', clock')) <= Len(Recent(failures, clock))
    PROVE  AttemptsBounded'
<1>1. Cardinality(Attempts') <= Cardinality(Attempts) /\ Cardinality(Attempts') \in Nat
  BY AttemptsFinite, FS_Subset, FS_CardinalityType
<1>2. Len(Recent(failures, clock)) \in Nat
  BY RecentProperties DEF TypeOK
<1>3. Cardinality(Attempts)' = Cardinality(Attempts')
  OBVIOUS
<1> QED
  BY <1>1, <1>2, AttemptsFinite, Settings DEF AttemptsBounded

\* Purging, and letting time pass, leaves no more failures in the window.
LEMMA RecentShrinks ==
    ASSUME TypeOK, clock' \in Nat, clock <= clock',
           failures' \in {failures, Recent(failures, clock)}
    PROVE  /\ Len(Recent(failures', clock')) \in Nat
           /\ Len(Recent(failures', clock')) <= Len(Recent(failures, clock))
<1>1. failures \in Seq(Nat) /\ clock \in Nat /\ Recent(failures, clock) \in Seq(Nat)
  BY RecentProperties DEF TypeOK
<1> DEFINE times == Recent(failures, clock)
<1>2. CASE failures' = times
  <2> HIDE DEF times
  <2>1. /\ Cardinality(Old(times, clock')) \in 0 .. Len(times)
        /\ Len(Recent(times, clock')) = Len(times) - Cardinality(Old(times, clock'))
        /\ Len(times) \in Nat
    BY <1>1, RecentProperties, LenProperties DEF times
  <2>2. Len(Recent(times, clock')) \in Nat /\ Len(Recent(times, clock')) <= Len(times)
    BY <2>1
  <2> QED
    BY <1>2, <2>2 DEF times
<1>3. CASE failures' = failures
  <2>1. Old(failures, clock) \subseteq Old(failures, clock')
    BY <1>1, LenProperties, ElementOfSeq, Settings DEF Old
  <2>2. Cardinality(Old(failures, clock)) <= Cardinality(Old(failures, clock'))
    BY <1>1, <2>1, RecentProperties, FS_Subset
  <2>3. /\ Cardinality(Old(failures, clock)) \in 0 .. Len(failures)
        /\ Len(Recent(failures, clock)) = Len(failures) - Cardinality(Old(failures, clock))
        /\ Cardinality(Old(failures, clock')) \in 0 .. Len(failures)
        /\ Len(Recent(failures, clock')) = Len(failures) - Cardinality(Old(failures, clock'))
        /\ Len(failures) \in Nat
    BY <1>1, RecentProperties, LenProperties
  <2>4. /\ Len(Recent(failures, clock')) \in Nat
        /\ Len(Recent(failures, clock')) <= Len(Recent(failures, clock))
    BY <2>2, <2>3
  <2> QED
    BY <1>3, <2>4
<1> QED
  BY <1>2, <1>3

\* A failure that is registered adds one.
LEMMA RecentGrows ==
    ASSUME TypeOK
    PROVE  LET added == Append(failures, clock) IN
           Len(Recent(added, clock)) = Len(Recent(failures, clock)) + 1
<1> DEFINE added == Append(failures, clock)
<1>1. failures \in Seq(Nat) /\ clock \in Nat
  BY DEF TypeOK
<1>2. /\ added \in Seq(Nat) /\ Len(added) = Len(failures) + 1
      /\ \A i \in 1 .. Len(failures) : added[i] = failures[i]
      /\ added[Len(failures) + 1] = clock
  BY <1>1, AppendProperties
<1> HIDE DEF added
<1>3. Old(added, clock) = Old(failures, clock)
  <2>1. /\ DOMAIN added = 1 .. (Len(failures) + 1) /\ DOMAIN failures = 1 .. Len(failures)
        /\ Len(failures) \in Nat
    BY <1>1, <1>2, LenProperties
  <2>2. ~(clock + Window < clock)
    BY <1>1, Settings
  <2>3. \A i \in DOMAIN added : added[i] + Window < clock => i \in DOMAIN failures
    BY <1>2, <2>1, <2>2
  <2>4. \A i \in DOMAIN failures : i \in DOMAIN added /\ added[i] = failures[i]
    BY <1>2, <2>1
  <2> QED
    BY <2>3, <2>4 DEF Old
<1>4. Len(Recent(added, clock)) = Len(added) - Cardinality(Old(failures, clock))
  BY <1>1, <1>2, <1>3, RecentProperties
<1>5. /\ Len(Recent(failures, clock)) = Len(failures) - Cardinality(Old(failures, clock))
      /\ Cardinality(Old(failures, clock)) \in 0 .. Len(failures)
      /\ Len(failures) \in Nat
  BY <1>1, RecentProperties, LenProperties
<1> QED
  BY <1>2, <1>4, <1>5 DEF added

\* Every step keeps AttemptsBounded.
LEMMA AttemptsNext == TypeOK /\ AttemptsBounded /\ [Next]_vars => AttemptsBounded'
<1> SUFFICES ASSUME TypeOK, AttemptsBounded, [Next]_vars PROVE AttemptsBounded'
  OBVIOUS
<1>1. CASE /\ failures' \in {failures, Recent(failures, clock)}
           /\ clock' \in {clock, clock + 1}
           /\ Attempts' \subseteq Attempts
  BY <1>1, RecentShrinks, AttemptsKept DEF TypeOK
<1>2. ASSUME NEW t \in WebThreads, LoginArrives(t), pc'[t] = "authenticate" PROVE AttemptsBounded'
  <2>1. ~IsBlocked(Recent(failures, clock))
    BY <1>2 DEF LoginArrives, Arrive, Goto, TypeOK
  <2>2. Len(Recent(failures, clock)) < MaxEvents
    BY <2>1, RecentProperties, Settings DEF IsBlocked, TypeOK
  <2>3. failures' = Recent(failures, clock) /\ clock' = clock
    BY <1>2 DEF LoginArrives, Arrive, Goto
  <2>4. /\ Len(Recent(failures', clock')) \in Nat
        /\ Len(Recent(failures', clock')) <= Len(Recent(failures, clock))
    BY <2>3, RecentShrinks DEF TypeOK
  <2>7. Len(Recent(failures, clock)) \in Nat
    BY RecentProperties, LenProperties DEF TypeOK
  <2>5. Attempts' \in SUBSET WebThreads
    BY DEF Attempts
  <2>6. Cardinality(Attempts') <= Cardinality(WebThreads) /\ Cardinality(Attempts') \in Nat
    BY <2>5, ThreadsAssumption, FS_Subset, FS_CardinalityType
  <2> QED
    BY <2>2, <2>4, <2>6, <2>7, AttemptsFinite, Settings DEF AttemptsBounded
<1>3. ASSUME NEW t \in WebThreads, RegisterFailure(t) PROVE AttemptsBounded'
  <2>1. Attempts' = Attempts \ {t} /\ t \in Attempts
    BY <1>3 DEF RegisterFailure, Done, Goto, Attempts, TypeOK
  <2>2. Cardinality(Attempts') = Cardinality(Attempts) - 1
    BY <2>1, AttemptsFinite, FS_RemoveElement
  <2>3. failures' = Append(failures, clock) /\ clock' = clock
    BY <1>3 DEF RegisterFailure, Done, Goto
  <2>4. Len(Recent(failures', clock')) = Len(Recent(failures, clock)) + 1
    BY <2>3, RecentGrows
  <2>5. Len(Recent(failures, clock)) \in Nat
    BY RecentProperties DEF TypeOK
  <2> QED
    BY <2>2, <2>4, <2>5, AttemptsFinite, Settings DEF AttemptsBounded
<1>4. CASE failures' = <<>> /\ clock' = clock /\ Attempts' \subseteq Attempts
  <2>1. Old(<<>>, clock) = {}
    BY DEF Old
  <2>2. Recent(<<>>, clock) = <<>> /\ Len(Recent(<<>>, clock)) = 0
    BY <2>1, EmptySeq, RecentProperties DEF TypeOK
  <2>3. Len(Recent(failures, clock)) \in Nat
    BY RecentProperties DEF TypeOK
  <2> QED
    BY <1>4, <2>2, <2>3, AttemptsKept
<1>5. ASSUME NEW t \in WebThreads, pc[t] # "idle", Done(t) PROVE Attempts' \subseteq Attempts
  BY <1>5 DEF Done, Goto, Attempts, TypeOK
<1>6. ASSUME NEW t \in WebThreads, NEW stage, NEW local, Goto(t, stage, local),
             stage \notin {"authenticate", "fail"}
      PROVE  Attempts' \subseteq Attempts
  BY <1>6 DEF Goto, Attempts, TypeOK
<1>7. ASSUME NEW t \in WebThreads, Authenticate(t) PROVE AttemptsBounded'
  <2>1. Attempts' \subseteq Attempts
    BY <1>7 DEF Authenticate, Goto, Attempts, TypeOK
  <2> QED
    BY <1>1, <1>7, <2>1 DEF Authenticate, Goto
<1>8. ASSUME NEW t \in WebThreads, LoginArrives(t), pc'[t] # "authenticate" PROVE AttemptsBounded'
  <2>1. Attempts' \subseteq Attempts
    BY <1>8 DEF LoginArrives, Arrive, Goto, Attempts, TypeOK
  <2> QED
    BY <1>1, <1>8, <2>1 DEF LoginArrives, Arrive, Goto
<1>9. ASSUME NEW t \in WebThreads, AnswerRetryAfter(t) PROVE AttemptsBounded'
  <2>1. failures' = Recent(failures, clock) /\ clock' = clock
    BY <1>9 DEF AnswerRetryAfter, Done, Goto
  <2>2. Attempts' \subseteq Attempts
    BY <1>5, <1>9 DEF AnswerRetryAfter
  <2> QED
    BY <1>1, <2>1, <2>2
<1>10. ASSUME NEW t \in WebThreads, ResetKey(t) PROVE AttemptsBounded'
  BY <1>4, <1>6, <1>10 DEF ResetKey, Goto
<1>11. CASE Restart
  <2>1. Attempts' = {}
    BY <1>11 DEF Restart, Attempts
  <2> QED
    BY <1>4, <1>11, <2>1 DEF Restart
<1>12. CASE Tick
  BY <1>1, <1>12 DEF Tick, Attempts
<1>13. CASE UNCHANGED vars
  BY <1>1, <1>13 DEF vars, Attempts
<1>14. ASSUME NEW t \in WebThreads,
              \/ IssueAccessToken(t) \/ IsRevoked(t) \/ GetCurrentUser(t)
              \/ Answer(t) \/ Logout(t) \/ PurgeExpired(t) \/ StartPasswordChange(t)
              \/ CommitCredentials(t) \/ CommitDeactivation(t) \/ CommitActivation(t)
              \/ Abandon(t)
       PROVE  AttemptsBounded'
  <2>1. failures' = failures
    BY <1>14 DEF IssueAccessToken, IsRevoked, GetCurrentUser, Answer, Logout, PurgeExpired,
       StartPasswordChange, CommitCredentials, CommitDeactivation, CommitActivation, Abandon
  <2>2. PICK stage \in Stages \ {"authenticate", "fail"}, local \in {IdleFrame, frame[t],
                [IdleFrame EXCEPT !.op = "password", !.stamp = clock]} : Goto(t, stage, local)
    BY <1>14 DEF IssueAccessToken, IsRevoked, GetCurrentUser, Answer, Logout, PurgeExpired,
       StartPasswordChange, CommitCredentials, CommitDeactivation, CommitActivation, Abandon,
       Done, Stages
  <2>3. Attempts' \subseteq Attempts /\ clock' = clock
    BY <1>6, <2>2 DEF Goto
  <2> QED
    BY <1>1, <2>1, <2>3
<1>15. ASSUME NEW t \in WebThreads, DecodeToken(t) \/ StartUpdateUser(t) PROVE AttemptsBounded'
  <2>1. failures' = failures
    BY <1>15 DEF DecodeToken, StartUpdateUser
  <2>2. \E stage \in {"decoded", "revoke"} : \E local : Goto(t, stage, local)
    BY <1>15 DEF DecodeToken, StartUpdateUser, Arrive
  <2>3. Attempts' \subseteq Attempts /\ clock' = clock
    BY <1>6, <2>2 DEF Goto
  <2> QED
    BY <1>1, <2>1, <2>3
<1> QED
  BY <1>2, <1>3, <1>7, <1>8, <1>9, <1>10, <1>11, <1>12, <1>13, <1>14, <1>15 DEF Next

-----------------------------------------------------------------------------
\* The initial states satisfy the four invariants.
LEMMA InvInit == Init => CutoffInv /\ EndedInv /\ WaitInv /\ AttemptsBounded
<1> SUFFICES ASSUME Init PROVE CutoffInv /\ EndedInv /\ WaitInv /\ AttemptsBounded
  OBVIOUS
<1>1. CutoffInv /\ EndedInv
  BY DEF Init, CutoffInv, EndedInv, Jtis
<1>2. WaitInv
  BY DEF Init, WaitInv
<1>3. AttemptsBounded
  <2>1. Attempts = {} /\ failures = <<>> /\ clock = 0
    BY DEF Init, Attempts
  <2>2. Old(<<>>, 0) = {}
    BY DEF Old
  <2>3. Recent(<<>>, 0) = <<>> /\ Len(<<>>) = 0
    BY <2>2, EmptySeq, RecentProperties
  <2>4. Cardinality({}) = 0
    BY FS_EmptySet
  <2> QED
    BY <2>1, <2>3, <2>4, AttemptsFinite, Settings DEF AttemptsBounded
<1> QED
  BY <1>1, <1>2, <1>3

\* Every reachable state satisfies them.
LEMMA Invariants == Spec => [](TypeOK /\ CutoffInv /\ EndedInv /\ WaitInv /\ AttemptsBounded)
<1> DEFINE Inv == TypeOK /\ CutoffInv /\ EndedInv /\ WaitInv /\ AttemptsBounded
<1>1. Init => Inv
  BY TypeInit, InvInit
<1>2. Inv /\ [Next]_vars => Inv'
  BY TypeNext, CutoffNext, EndedNext, WaitNext, AttemptsNext
<1> QED
  BY <1>1, <1>2, PTL DEF Spec

\* Every variable keeps its type: a request that is past a check still holds a
\* token that was issued.
THEOREM TypeCorrect == Spec => []TypeOK
BY Invariants, PTL

\* A logged-out token passes get_token_payload only once it has expired, for any
\* number of threads, logouts, purges and restarts.
THEOREM LoggedOutIsRefused == Spec => LoggedOutStaysOut
<1> DEFINE A == \A t \in WebThreads :
                   pc[t] = "decoded" /\ pc'[t] = "load" /\ frame[t].token \in ended =>
                      Expired(frame[t].token)
<1>1. TypeOK /\ EndedInv /\ [Next]_vars => [A]_vars
  <2> SUFFICES ASSUME TypeOK, EndedInv, Next, NEW u \in WebThreads, pc[u] = "decoded",
                      pc'[u] = "load", frame[u].token \in ended
               PROVE  Expired(frame[u].token)
    OBVIOUS
  <2>1. IsRevoked(u) /\ frame[u].token \notin revoked
    <3>1. ASSUME NEW t \in WebThreads, NEW stage, NEW local, Goto(t, stage, local), stage # "load"
          PROVE  FALSE
      BY <3>1 DEF Goto, TypeOK
    <3>2. ASSUME NEW t \in WebThreads, IsRevoked(t)
          PROVE  t = u /\ frame[t].token \notin revoked
      <4>1. t = u
        BY <3>2 DEF IsRevoked, Goto, Done, TypeOK
      <4> QED
        BY <3>1, <3>2, <4>1 DEF IsRevoked, Done
    <3>3. ~Restart /\ ~Tick
      BY DEF Restart, Tick
    <3> QED
      BY <3>1, <3>2, <3>3 DEF Next, LoginArrives, AnswerRetryAfter, Authenticate,
         RegisterFailure, ResetKey, IssueAccessToken, DecodeToken, GetCurrentUser, Answer, Logout,
         PurgeExpired, StartPasswordChange, StartUpdateUser, CommitCredentials,
         CommitDeactivation, CommitActivation, Abandon, Arrive, Done
  <2>2. Exp(frame[u].token) < clock
    BY <2>1 DEF EndedInv
  <2>3. Exp(frame[u].token) \in Int /\ clock \in Nat
    <3>1. tokens[frame[u].token].issued \in Nat /\ clock \in Nat
      BY TokenTypes DEF Tokens, TypeOK
    <3>2. tokens[frame[u].token].issued + TokenSeconds * TicksPerSecond \in Int
      <4>1. \A a, b \in Nat : a * b \in Nat
        OBVIOUS
      <4> QED
        BY <3>1, <4>1, Settings
    <3> QED
      BY <3>1, <3>2, WholeSecondBounds DEF Exp
  <2> QED
    BY <2>2, <2>3 DEF Expired
<1> QED
  BY Invariants, <1>1, PTL DEF Spec, LoggedOutStaysOut

\* get_current_user accepts a token only if no revocation was committed between
\* the check of its password and now, or its login overlapped one.
THEOREM RevokedIsRefused == Spec => OldTokensRefused
<1> DEFINE A == \A t \in WebThreads :
                   pc[t] = "load" /\ pc'[t] = "accepted" =>
                      LET token == tokens[frame[t].token] IN token.era = era \/ token.raced
<1>1. TypeOK /\ CutoffInv /\ [Next]_vars => [A]_vars
  <2> SUFFICES ASSUME TypeOK, CutoffInv, Next, NEW u \in WebThreads, pc[u] = "load",
                      pc'[u] = "accepted"
               PROVE  tokens[frame[u].token].era = era \/ tokens[frame[u].token].raced
    OBVIOUS
  <2>1. TokenAccepted(frame[u].token)
    <3>1. ASSUME NEW t \in WebThreads, NEW stage, NEW local, Goto(t, stage, local),
                 stage # "accepted"
          PROVE  FALSE
      BY <3>1 DEF Goto, TypeOK
    <3>2. ASSUME NEW t \in WebThreads, GetCurrentUser(t) PROVE TokenAccepted(frame[u].token)
      <4>1. t = u
        BY <3>2 DEF GetCurrentUser, Goto, Done, TypeOK
      <4> QED
        BY <3>1, <3>2, <4>1 DEF GetCurrentUser, Done
    <3>3. ~Restart /\ ~Tick
      BY DEF Restart, Tick
    <3>4. ASSUME NEW t \in WebThreads, ResetKey(t) PROVE FALSE
      BY <3>1, <3>4 DEF ResetKey
    <3> QED
      BY <3>1, <3>2, <3>3, <3>4 DEF Next, LoginArrives, AnswerRetryAfter, Authenticate,
         RegisterFailure, IssueAccessToken, DecodeToken, IsRevoked, Answer, Logout,
         PurgeExpired, StartPasswordChange, StartUpdateUser, CommitCredentials,
         CommitDeactivation, CommitActivation, Abandon, Arrive, Done
  <2>2. frame[u].token \in Jtis /\ tokens[frame[u].token].issued \in Nat /\ threshold \in Nat
    BY TokenTypes DEF Tokens, TypeOK
  <2>3. Iat(frame[u].token) \in Int
    BY <2>2, WholeSecondBounds DEF Iat
  <2>4. ~(Iat(frame[u].token) < threshold)
    BY <2>1, <2>2, <2>3 DEF TokenAccepted
  <2> QED
    BY <2>2, <2>4 DEF CutoffInv
<1> QED
  BY Invariants, <1>1, PTL DEF Spec, OldTokensRefused

\* The failures in the window and the attempts under way stay below the limit
\* and one for each thread, for any limit, window and number of threads.
THEOREM AttemptsAreBounded == Spec => []AttemptsBounded
BY Invariants, PTL

\* After the wait that Retry-After names, the oldest of the failures it counted has
\* left the window, for any limit, window and resolution of the clock, however many
\* attempts overlapped.
THEOREM RetryAfterFreesAPlace == Spec => []OldestLeavesInTime
<1>1. TypeOK /\ WaitInv => OldestLeavesInTime
  BY WaitImplies
<1> QED
  BY Invariants, <1>1, PTL

\* The client is let in after one wait if the other failures that its answer
\* counted, and those since, are fewer than the limit.  They are not only when
\* attempts overlapped, or failed anew before the wait was over.
THEOREM OneWaitIsEnough == Spec => [](wait # 0 /\ clock >= wait /\ left < MaxEvents
                                        => ~IsBlocked(Recent(failures, clock)))
<1>1. TypeOK /\ WaitInv => (wait # 0 /\ clock >= wait /\ left < MaxEvents
                              => ~IsBlocked(Recent(failures, clock)))
  <2> SUFFICES ASSUME TypeOK, WaitInv, wait # 0, clock >= wait, left < MaxEvents
               PROVE  ~IsBlocked(Recent(failures, clock))
    OBVIOUS
  <2>1. Len(Recent(failures, clock)) <= left
    BY WaitImplies DEF OldestLeavesInTime
  <2>2. Len(Recent(failures, clock)) \in Nat /\ left \in Nat
    BY RecentProperties, LenProperties DEF TypeOK
  <2> QED
    BY <2>1, <2>2, Settings DEF IsBlocked
<1> QED
  BY Invariants, <1>1, PTL
=============================================================================
