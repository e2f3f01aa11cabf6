---------------------------- MODULE ReplayProofs ----------------------------
(***************************************************************************)
(* How a replay grows with its log.  Replayed is a recursive function: to  *)
(* reason about it one must know that it exists and is unique, which takes *)
(* an induction on the length of the log.  The library's rules for that    *)
(* range over predicates; here the induction is over a set of numbers, as  *)
(* a consequence of the well-foundedness of < on Nat.  A module that       *)
(* instantiates this one gets the theorems for its own Apply and About.    *)
(***************************************************************************)
EXTENDS Replay, WellFoundedInduction, TLAPS

LEMMA LeastNatural ==
    ASSUME NEW T, T \subseteq Nat, T # {}
    PROVE  \E x \in T : \A y \in T : ~(y < x)
<1> DEFINE R == OpToRel(<, Nat)
<1>1. IsWellFoundedOn(R, Nat)
    BY NatLessThanWellFounded, Zenon
<1>2. \A y, x \in Nat : y < x => <<y, x>> \in R
    BY Zenon DEF OpToRel
<1>3. PICK x \in T : \A y \in T : ~(<<y, x>> \in R)
  <2> HIDE DEF R
  <2> QED BY <1>1, WFMin
<1> QED BY <1>2, <1>3

LEMMA SetInduction ==
    ASSUME NEW S, 0 \in S, \A n \in Nat : n \in S => n + 1 \in S
    PROVE  Nat \subseteq S
<1> SUFFICES ASSUME Nat \ S # {}
             PROVE  FALSE
    OBVIOUS
<1>1. PICK x \in Nat \ S : \A y \in Nat \ S : ~(y < x)
    BY LeastNatural
<1>2. x # 0 /\ x - 1 \in Nat /\ x - 1 < x
    BY <1>1
<1>3. x - 1 \in S
    BY <1>1, <1>2
<1>4. x - 1 + 1 \in S
    BY <1>2, <1>3
<1> QED BY <1>1, <1>4

-----------------------------------------------------------------------------
\* f gives what the first m entries make of the key's first row, for m in 0 .. n.
IsReplay(f, key, first, log, n) ==
    f = [m \in 0 .. n |-> IF m = 0 THEN first ELSE Step(f[m - 1], key, log[m])]

LEMMA ReplayExists ==
    ASSUME NEW key, NEW first, NEW log, NEW n \in Nat
    PROVE  \E f : IsReplay(f, key, first, log, n)
<1> DEFINE S == {m \in Nat : \E f : IsReplay(f, key, first, log, m)}
<1>1. 0 \in S
  <2> DEFINE f == [m \in 0 .. 0 |-> first]
  <2>1. IsReplay(f, key, first, log, 0)
      BY DEF IsReplay
  <2> QED BY <2>1
<1>2. ASSUME NEW m \in Nat, m \in S
      PROVE  m + 1 \in S
  <2>1. PICK f : IsReplay(f, key, first, log, m)
      BY <1>2
  <2> DEFINE g == [k \in 0 .. m + 1 |->
                      IF k = m + 1 THEN Step(f[m], key, log[m + 1]) ELSE f[k]]
  <2>2. ASSUME NEW k \in 0 .. m + 1
        PROVE  g[k] = IF k = 0 THEN first ELSE Step(g[k - 1], key, log[k])
    <3>1. CASE k = m + 1
      <4>1. k # 0 /\ k - 1 = m /\ k - 1 \in 0 .. m + 1 /\ k - 1 # m + 1
          BY <3>1
      <4> QED BY <3>1, <4>1
    <3>2. CASE k \in 0 .. m
      <4>1. f[k] = IF k = 0 THEN first ELSE Step(f[k - 1], key, log[k])
          BY <2>1, <3>2 DEF IsReplay
      <4>2. k # m + 1 /\ (k # 0 => k - 1 \in 0 .. m + 1 /\ k - 1 # m + 1)
          BY <3>2
      <4> QED BY <4>1, <4>2
    <3> QED BY <3>1, <3>2
  <2>3. IsReplay(g, key, first, log, m + 1)
      BY <2>2 DEF IsReplay
  <2> QED BY <2>3
<1>3. Nat \subseteq S
  <2> HIDE DEF S
  <2> QED BY <1>1, <1>2, SetInduction
<1> QED BY <1>3

LEMMA ReplayIs ==
    ASSUME NEW key, NEW first, NEW log, Len(log) \in Nat
    PROVE  \E f : /\ IsReplay(f, key, first, log, Len(log))
                  /\ Replayed(key, first, log) = f[Len(log)]
<1> DEFINE F == CHOOSE f : IsReplay(f, key, first, log, Len(log))
<1>1. IsReplay(F, key, first, log, Len(log))
    BY ReplayExists
<1>2. Replayed(key, first, log) = F[Len(log)]
    BY DEF Replayed, IsReplay
<1> QED BY <1>1, <1>2

\* One step of a replay.
LEMMA ReplayStep ==
    ASSUME NEW key, NEW first, NEW log, NEW n \in Nat, NEW k \in Nat, k < n,
           NEW f, IsReplay(f, key, first, log, n)
    PROVE  f[k + 1] = Step(f[k], key, log[k + 1])
<1>1. k + 1 # 0 /\ (k + 1) - 1 = k /\ k + 1 \in 0 .. n
    OBVIOUS
<1> QED BY <1>1 DEF IsReplay

\* A replay does not depend on what follows.
LEMMA ReplaysAgree ==
    ASSUME NEW key, NEW first, NEW log, NEW longer,
           NEW n \in Nat, NEW m \in Nat, n <= m,
           \A i \in 1 .. n : longer[i] = log[i],
           NEW f, IsReplay(f, key, first, log, n),
           NEW g, IsReplay(g, key, first, longer, m)
    PROVE  f[n] = g[n]
<1> DEFINE S == {k \in Nat : k <= n => f[k] = g[k]}
<1>1. 0 \in S
    BY DEF IsReplay
<1>2. ASSUME NEW k \in Nat, k \in S
      PROVE  k + 1 \in S
  <2> SUFFICES ASSUME k + 1 <= n
               PROVE  f[k + 1] = g[k + 1]
      OBVIOUS
  <2>1. f[k] = g[k] /\ log[k + 1] = longer[k + 1]
      BY <1>2
  <2>2. f[k + 1] = Step(f[k], key, log[k + 1])
      BY ReplayStep
  <2>3. k < m
      OBVIOUS
  <2>4. g[k + 1] = Step(g[k], key, longer[k + 1])
      BY <2>3, ReplayStep
  <2> QED BY <2>1, <2>2, <2>4
<1>3. Nat \subseteq S
  <2> HIDE DEF S
  <2> QED BY <1>1, <1>2, SetInduction
<1> QED BY <1>3

-----------------------------------------------------------------------------
\* An empty log leaves the row as it was first.
THEOREM ReplayOfNothing ==
    ASSUME NEW key, NEW first
    PROVE  Replayed(key, first, << >>) = first
<1>1. PICK f : /\ IsReplay(f, key, first, << >>, 0)
               /\ Replayed(key, first, << >>) = f[0]
    BY ReplayIs
<1> QED BY <1>1 DEF IsReplay

\* A reader who has replayed a log need only apply the entry that is added to
\* it, if it is about the key.
THEOREM ReplayOfAppend ==
    ASSUME NEW key, NEW first, NEW S, NEW log \in Seq(S), NEW e \in S
    PROVE  Replayed(key, first, Append(log, e)) = Step(Replayed(key, first, log), key, e)
<1> DEFINE longer == Append(log, e)
           n == Len(log)
<1>1. /\ n \in Nat /\ Len(longer) = n + 1 /\ longer[n + 1] = e
      /\ \A i \in 1 .. n : longer[i] = log[i]
    OBVIOUS
<1> HIDE DEF longer, n
<1>2. PICK f : IsReplay(f, key, first, log, n) /\ Replayed(key, first, log) = f[n]
    BY <1>1, ReplayIs DEF n
<1>3. PICK g : /\ IsReplay(g, key, first, longer, n + 1)
               /\ Replayed(key, first, longer) = g[n + 1]
  <2>1. Len(longer) \in Nat
      BY <1>1
  <2>2. \E g : /\ IsReplay(g, key, first, longer, Len(longer))
              /\ Replayed(key, first, longer) = g[Len(longer)]
      BY <2>1, ReplayIs
  <2> QED BY <1>1, <2>2
<1>4. f[n] = g[n]
    BY <1>1, <1>2, <1>3, ReplaysAgree
<1>5. g[n + 1] = Step(g[n], key, longer[n + 1])
  <2>1. n \in Nat /\ n + 1 \in Nat /\ n < n + 1
      BY <1>1
  <2>2. IsReplay(g, key, first, longer, n + 1)
      BY <1>3
  <2> QED BY <2>1, <2>2, ReplayStep
<1> QED BY <1>1, <1>2, <1>3, <1>4, <1>5 DEF longer

\* A log of any length without an entry about the key leaves its row as it was
\* first.
THEOREM ReplayOfOthers ==
    ASSUME NEW key, NEW first, NEW log, Len(log) \in Nat,
           \A i \in 1 .. Len(log) : About(log[i]) # key
    PROVE  Replayed(key, first, log) = first
<1> DEFINE n == Len(log)
<1>1. PICK f : IsReplay(f, key, first, log, n) /\ Replayed(key, first, log) = f[n]
    BY ReplayIs
<1> DEFINE S == {k \in Nat : k <= n => f[k] = first}
<1> HIDE DEF n
<1>2. 0 \in S
    BY <1>1 DEF IsReplay, n
<1>3. ASSUME NEW k \in Nat, k \in S
      PROVE  k + 1 \in S
  <2> SUFFICES ASSUME k + 1 <= n
               PROVE  f[k + 1] = first
      OBVIOUS
  <2>1. f[k] = first /\ About(log[k + 1]) # key /\ k < n /\ n \in Nat
      BY <1>3 DEF n
  <2>2. IsReplay(f, key, first, log, n)
      BY <1>1
  <2>3. f[k + 1] = Step(f[k], key, log[k + 1])
      BY <2>1, <2>2, ReplayStep
  <2> QED BY <2>1, <2>3 DEF Step
<1>4. Nat \subseteq S
  <2> HIDE DEF S
  <2> QED BY <1>2, <1>3, SetInduction
<1> QED BY <1>1, <1>4 DEF n
=============================================================================
