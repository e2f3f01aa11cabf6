------------------------ MODULE CronExpressionProofs ------------------------
(***************************************************************************)
(* Normalising a valid expression gives a valid expression that            *)
(* normalises to itself, for every set of texts that clients send.         *)
(***************************************************************************)
EXTENDS CronExpression, FiniteSetTheorems, SequenceTheorems, TLAPS

\* A function on 1 .. n is a sequence.
LEMMA TupleIsSeq ==
    ASSUME NEW S, NEW n \in Nat, NEW g \in [1 .. n -> S]
    PROVE  g \in Seq(S)
<1>1. g \in UNION {[1 .. m -> S] : m \in Nat}
  OBVIOUS
<1> QED
  BY <1>1, SeqDef

\* A valid token normalises to a valid token.
LEMMA TokenStaysValid ==
    ASSUME NEW f \in Fields, NEW t \in Tokens, TokenValid(f, t)
    PROVE  TokenValid(f, NormalizeToken(f, t)) /\ NormalizeToken(f, t) \in Tokens
<1> DEFINE n == NormalizeToken(f, t)
<1>2. /\ n = [base |-> t.base, lo |-> NormalizeBound(f, t.lo),
              hi |-> NormalizeBound(f, t.hi), step |-> t.step]
  BY DEF NormalizeToken, Tokens
<1>2a. NormalizeBound(f, t.lo) \in Texts /\ NormalizeBound(f, t.hi) \in Texts
  BY DEF NormalizeBound, Tokens, Texts
<1>3. n \in Tokens
  BY <1>2, <1>2a DEF Tokens
<1>4. \A x \in Texts : NumberValid(f, x) => NumberValid(f, NormalizeBound(f, x))
  BY SymbolsAssumption DEF NumberValid, NormalizeBound, IsNumber, Texts, Fields, Lowest,
     Highest
<1>5. \A x \in Texts : NormalizeBound(f, NormalizeBound(f, x)) = NormalizeBound(f, x)
  BY SymbolsAssumption DEF NormalizeBound
<1>6. StepValid(n)
  BY <1>2 DEF TokenValid, StepValid, HasStep
<1>7. t.base = "single" => n.base = "single" /\ NumberValid(f, n.lo)
  BY <1>2, <1>4 DEF TokenValid, Tokens
<1>8. t.base = "range" => n.base = "range" /\ RangeValid(f, n)
  BY <1>2, <1>4, <1>5 DEF TokenValid, RangeValid, Tokens
<1>9. t.base = "*" => n.base = "*"
  BY <1>2
<1> QED
  BY <1>3, <1>6, <1>7, <1>8, <1>9 DEF TokenValid

\* Normalising twice is normalising once.
LEMMA NormalizeTokenIdempotent ==
    ASSUME NEW f, NEW t \in Tokens
    PROVE  NormalizeToken(f, NormalizeToken(f, t)) = NormalizeToken(f, t)
BY DEF NormalizeToken, NormalizeBound, Tokens

\* A field of a valid expression keeps its shape, and normalises to itself.
LEMMA FieldIdempotent ==
    ASSUME NEW f, NEW parts \in Seq(Tokens)
    PROVE  NormalizeField(f, NormalizeField(f, parts)) = NormalizeField(f, parts)
BY NormalizeTokenIdempotent DEF NormalizeField

\* A valid field normalises to a valid field.
LEMMA FieldStaysValid ==
    ASSUME NEW f \in Fields, NEW parts \in Seq(Tokens), FieldValid(f, parts)
    PROVE  FieldValid(f, NormalizeField(f, parts))
BY FieldIdempotent DEF FieldValid

\* A valid, normalised token stands for values of its field.
LEMMA ExpandsInField ==
    ASSUME NEW f \in Fields, NEW t \in Tokens, TokenValid(f, t)
    PROVE  Expand(f, NormalizeToken(f, t)) \subseteq Allowed(f)
<1> DEFINE n == NormalizeToken(f, t)
<1>1. n \in Tokens /\ TokenValid(f, n)
  BY TokenStaysValid
<1>2. \A x \in Texts : NumberValid(f, x) => NormalizeBound(f, x) \in Allowed(f)
  BY SymbolsAssumption DEF NumberValid, NormalizeBound, IsNumber, Texts, Fields, Lowest,
     Highest, Allowed, Largest
<1>3. n.base = t.base /\ n.lo = NormalizeBound(f, t.lo) /\ n.hi = NormalizeBound(f, t.hi)
  BY DEF NormalizeToken, Tokens
<1>4. CASE t.base = "*"
  BY <1>3, <1>4 DEF Expand
<1>5. CASE t.base = "single"
  BY <1>2, <1>3, <1>5 DEF Expand, TokenValid, Tokens
<1>6. CASE t.base = "range"
  <2>1. n.lo \in Allowed(f) /\ n.hi \in Allowed(f)
    BY <1>2, <1>3, <1>6 DEF TokenValid, RangeValid, Tokens
  <2>2. n.lo .. n.hi \subseteq Allowed(f)
    BY <2>1 DEF Allowed, Largest, Lowest, Highest, Fields
  <2> QED
    BY <1>3, <1>6, <2>2 DEF Expand
<1> QED
  BY <1>4, <1>5, <1>6 DEF TokenValid

-----------------------------------------------------------------------------
\* Each of the five places has the name of a field.
LEMMA NamesAreFields == \A i \in Places : FieldNames[i] \in Fields
BY DEF Places, FieldNames, Fields

\* Normalising an expression: its shape, its validity and its values.
LEMMA NormalizeCanonical ==
    ASSUME NEW e \in Seq(Seq(Tokens)), Valid(e)
    PROVE  /\ Normalize(e) \in Seq(Seq(Tokens))
           /\ Valid(Normalize(e))
           /\ Normalize(Normalize(e)) = Normalize(e)
<1>1. DOMAIN e = Places /\ \A i \in Places : e[i] \in Seq(Tokens)
  BY LenProperties DEF Valid, Places
<1>2. ASSUME NEW i \in Places
      PROVE  /\ NormalizeField(FieldNames[i], e[i]) \in Seq(Tokens)
             /\ FieldValid(FieldNames[i], NormalizeField(FieldNames[i], e[i]))
  <2>1. FieldNames[i] \in Fields /\ e[i] \in Seq(Tokens) /\ FieldValid(FieldNames[i], e[i])
    BY <1>1, NamesAreFields DEF Valid
  <2>2. \A k \in DOMAIN e[i] : NormalizeToken(FieldNames[i], e[i][k]) \in Tokens
    BY <2>1, TokenStaysValid DEF FieldValid, TokensValid
  <2>3. NormalizeField(FieldNames[i], e[i]) \in Seq(Tokens)
    <3> DEFINE g == NormalizeField(FieldNames[i], e[i])
    <3>1. DOMAIN e[i] = 1 .. Len(e[i]) /\ Len(e[i]) \in Nat
      BY <2>1
    <3>2. g = [k \in 1 .. Len(e[i]) |-> NormalizeToken(FieldNames[i], e[i][k])]
      BY <3>1 DEF NormalizeField
    <3>3. g \in [1 .. Len(e[i]) -> Tokens]
      BY <3>1, <3>2, <2>2
    <3> HIDE DEF g
    <3>4. g \in Seq(Tokens)
      BY <3>1, <3>3, TupleIsSeq
    <3> QED
      BY <3>4 DEF g
  <2> QED
    BY <2>1, <2>3, FieldStaysValid
<1>3. Normalize(e) \in Seq(Seq(Tokens)) /\ Len(Normalize(e)) = 5
  <2> DEFINE g == Normalize(e)
  <2>1. g \in [1 .. 5 -> Seq(Tokens)]
    BY <1>2 DEF Normalize, Places
  <2> HIDE DEF g
  <2>2. g \in Seq(Seq(Tokens))
    BY <2>1, TupleIsSeq
  <2>3. Len(g) = 5
    BY <2>1, <2>2, LenProperties
  <2> QED
    BY <2>2, <2>3 DEF g
<1>4. \A i \in Places : Normalize(e)[i] = NormalizeField(FieldNames[i], e[i])
  BY DEF Normalize
<1>5. Valid(Normalize(e))
  BY <1>2, <1>3, <1>4 DEF Valid
<1>6. \A i \in Places : NormalizeField(FieldNames[i], Normalize(e)[i]) = Normalize(e)[i]
  BY <1>1, <1>4, FieldIdempotent
<1>7. Normalize(Normalize(e)) = Normalize(e)
  BY <1>6 DEF Normalize
<1> QED
  BY <1>3, <1>5, <1>7

-----------------------------------------------------------------------------
\* What an expanded token stands for, unless it is a range with one end at 7.
LEMMA ExpandMeans ==
    ASSUME NEW f \in Fields, NEW t \in Tokens, TokenValid(f, t), ~WrapsToSunday(f, t)
    PROVE  Expand(f, NormalizeToken(f, t)) = Meaning(f, t)
<1> DEFINE n == NormalizeToken(f, t)
<1>1. /\ n.base = t.base /\ n.step = t.step /\ n.lo = NormalizeBound(f, t.lo)
      /\ n.hi = NormalizeBound(f, t.hi)
  BY DEF NormalizeToken
<1>2. \A v \in 0 .. 6 : v % 7 = v
  OBVIOUS
<1>3. \A v \in Allowed(f) : SundayIsZero(f, v) = v
  BY <1>2 DEF SundayIsZero, Allowed, Largest, Lowest
<1>4. CASE t.base = "*"
  BY <1>1, <1>3, <1>4 DEF Expand, Meaning, HasStep
<1>5. CASE t.base = "single"
  <2>1. t.lo \in Int /\ t.lo >= Lowest[f] /\ t.lo <= Highest[f]
    BY <1>5 DEF TokenValid, NumberValid, IsNumber, Tokens, Texts
  <2>2. NormalizeBound(f, t.lo) = SundayIsZero(f, t.lo)
    BY <2>1 DEF NormalizeBound, SundayIsZero, Lowest, Highest
  <2> QED
    BY <1>1, <1>5, <2>2 DEF Expand, Meaning
<1>6. CASE t.base = "range"
  <2>1. /\ t.lo \in Int /\ t.lo >= Lowest[f] /\ t.lo <= Highest[f]
        /\ t.hi \in Int /\ t.hi >= Lowest[f] /\ t.hi <= Highest[f]
        /\ HasStep(t) => t.step \in Int /\ t.step > 0
    BY <1>6 DEF TokenValid, RangeValid, NumberValid, StepValid, HasStep, IsNumber, Tokens, Texts
  <2>2. CASE f = "day_of_week" /\ t.lo = 7
    <3>1. t.hi = 7
      BY <1>6, <2>2 DEF WrapsToSunday
    <3>2. n.lo = 0 /\ n.hi = 0
      BY <1>1, <2>2, <3>1 DEF NormalizeBound
    <3>3. HasStep(t) => 0 % t.step = 0
      BY <2>1
    <3>4. Expand(f, n) = {0}
      BY <1>1, <1>6, <3>2, <3>3 DEF Expand, HasStep
    <3>5. Meaning(f, t) = {SundayIsZero(f, 7)}
      BY <1>6, <2>2, <3>1, <3>3 DEF Meaning
    <3> QED
      BY <2>2, <3>4, <3>5 DEF SundayIsZero
  <2>3. CASE ~(f = "day_of_week" /\ t.lo = 7)
    <3>1. n.lo = t.lo /\ n.hi = t.hi
      BY <1>1, <1>6, <2>3 DEF WrapsToSunday, NormalizeBound
    <3>2. t.lo .. t.hi \subseteq Allowed(f)
      BY <1>6, <2>1, <2>3 DEF WrapsToSunday, Allowed, Largest, Lowest, Highest, Fields
    <3>3. \A v \in t.lo .. t.hi : SundayIsZero(f, v) = v
      BY <1>3, <3>2
    <3> DEFINE S == {v \in t.lo .. t.hi : HasStep(t) => (v - t.lo) % t.step = 0}
    <3>4. Expand(f, n) = S
      BY <1>1, <1>6, <3>1 DEF Expand, HasStep
    <3>5. Meaning(f, t) = {SundayIsZero(f, v) : v \in S}
      BY <1>6 DEF Meaning
    <3>6. \A v \in S : SundayIsZero(f, v) = v
      BY <3>3
    <3> HIDE DEF S
    <3> QED
      BY <3>4, <3>5, <3>6
  <2> QED
    BY <2>2, <2>3
<1> QED
  BY <1>4, <1>5, <1>6 DEF TokenValid

-----------------------------------------------------------------------------
\* What is stored is the normal form of what the client sent.
StoredInv ==
    /\ stage \in {"idle", "apply", "notify", "respond", "refused", "previewed", "failed", "done"}
    /\ stage = "idle" => body = NoText /\ row = NoText
    /\ stage = "apply" => body # NoText
    /\ stage = "notify" => row # NoText
    /\ body # NoText => posted \in Expressions /\ Valid(posted) /\ body = Normalize(posted)
    /\ row # NoText => body # NoText /\ row = body
    /\ armed # NoText => row # NoText /\ armed = row

\* StoredInv is inductive.
LEMMA StoredInvInit == Init => StoredInv
BY DEF Init, StoredInv

\* Every step keeps it.
LEMMA StoredInvNext == StoredInv /\ [Next]_vars => StoredInv'
<1> SUFFICES ASSUME StoredInv, [Next]_vars PROVE StoredInv'
  OBVIOUS
<1>1. ASSUME NEW e \in Expressions, Post(e) PROVE StoredInv'
  <2>1. Valid(e) => Normalize(e) # NoText
    BY ExpressionsAssumption, NormalizeCanonical
  <2> QED
    BY <1>1, <2>1 DEF StoredInv, Post
<1>2. ASSUME NEW e \in Expressions, Preview(e) PROVE StoredInv'
  BY <1>2 DEF StoredInv, Preview
<1>3. CASE ApplySchedule
  <2>1. Valid(body) /\ Normalize(body) = body
    BY <1>3, ExpressionsAssumption, NormalizeCanonical DEF StoredInv, ApplySchedule
  <2> QED
    BY <1>3, <2>1 DEF StoredInv, ApplySchedule
<1> DEFINE Kept == row = NoText \/ Normalize(row) = row
<1>k. Kept
  BY ExpressionsAssumption, NormalizeCanonical DEF StoredInv
<1>4. CASE NotifyJobChanged
  BY <1>4, <1>k DEF StoredInv, NotifyJobChanged, AddOrReplace
<1>5. CASE Respond
  BY <1>5 DEF StoredInv, Respond
<1>6. CASE SyncFromDb
  BY <1>6, <1>k DEF StoredInv, SyncFromDb, AddOrReplace
<1>7. CASE NextRequest
  BY <1>7 DEF StoredInv, NextRequest
<1>8. CASE UNCHANGED vars
  BY <1>8 DEF StoredInv, vars
<1> QED
  BY <1>1, <1>2, <1>3, <1>4, <1>5, <1>6, <1>7, <1>8 DEF Next

\* So it holds for ever.
LEMMA StoredAlways == Spec => []StoredInv
<1> QED
  BY StoredInvInit, StoredInvNext, PTL DEF Spec

\* Whatever texts clients send: what the schema lets through, the service, the
\* scheduler and the description can parse again and find unchanged.
THEOREM CanonicalForm == Spec => []StoredIsCanonical
<1>1. StoredInv => StoredIsCanonical
  <2> SUFFICES ASSUME StoredInv, NEW text \in {body, row} \ {NoText}
               PROVE  Valid(text) /\ Normalize(text) = text
    BY DEF StoredInv, StoredIsCanonical
  <2>1. posted \in Seq(Seq(Tokens)) /\ Valid(posted) /\ text = Normalize(posted)
    BY ExpressionsAssumption DEF StoredInv
  <2> QED
    BY <2>1, NormalizeCanonical
<1> QED
  BY <1>1, StoredAlways, PTL

\* Whatever texts clients send: the stored fields stand for values of the field,
\* for at least one, and for those that the client's text means, except that a
\* range of days with 7 at one end (WrapsToSunday) is stored as other days.
THEOREM NormalizingKeepsMeaning == Spec => []MeaningKept
<1>1. StoredInv => MeaningKept
  <2> SUFFICES ASSUME StoredInv, row # NoText, NEW i \in Places
               PROVE  LET f == FieldNames[i]  values == ExpandField(f, row[i]) IN
                      /\ values # {} /\ values \subseteq Allowed(f)
                      /\ (\A k \in DOMAIN posted[i] : ~WrapsToSunday(f, posted[i][k])) =>
                            values = UNION {Meaning(f, posted[i][k]) : k \in DOMAIN posted[i]}
    BY DEF MeaningKept
  <2> DEFINE f == FieldNames[i]
             parts == posted[i]
  <2>1. posted \in Seq(Seq(Tokens)) /\ Valid(posted) /\ row = Normalize(posted)
    BY ExpressionsAssumption DEF StoredInv
  <2>2. f \in Fields /\ FieldValid(f, parts)
    BY <2>1, NamesAreFields DEF Valid
  <2>3. parts \in Seq(Tokens)
    BY <2>1, LenProperties DEF Valid, Places
  <2>4. row[i] = NormalizeField(f, parts)
    BY <2>1 DEF Normalize
  <2> HIDE DEF f, parts
  <2>5. \A k \in DOMAIN parts : parts[k] \in Tokens /\ TokenValid(f, parts[k])
    BY <2>2, <2>3 DEF FieldValid, TokensValid
  <2>6. ExpandField(f, row[i]) =
           UNION {Expand(f, NormalizeToken(f, parts[k])) : k \in DOMAIN parts}
    BY <2>4 DEF ExpandField, NormalizeField
  <2>7. ExpandField(f, row[i]) # {}
    BY <2>2, <2>4 DEF FieldValid
  <2>8. ExpandField(f, row[i]) \subseteq Allowed(f)
    BY <2>2, <2>5, <2>6, ExpandsInField
  <2>9. ASSUME \A k \in DOMAIN parts : ~WrapsToSunday(f, parts[k])
        PROVE  ExpandField(f, row[i]) = UNION {Meaning(f, parts[k]) : k \in DOMAIN parts}
    <3>1. \A k \in DOMAIN parts :
             Expand(f, NormalizeToken(f, parts[k])) = Meaning(f, parts[k])
      BY <2>2, <2>5, <2>9, ExpandMeans
    <3> QED
      BY <2>6, <3>1
  <2> QED
    BY <2>7, <2>8, <2>9 DEF f, parts
<1> QED
  BY <1>1, StoredAlways, PTL

-----------------------------------------------------------------------------
\* Where the two readings are alike, they are equal.
LEMMA TriggerReads ==
    ASSUME NEW f \in Fields, f # "day_of_week", NEW t \in Tokens, TokenValid(f, t),
           ReadsAlike(f, t)
    PROVE  TriggerValues(f, t) = Expand(f, t)
<1>1. CASE t.base = "*"
  <2>1. TriggerFirst(f, t) .. TriggerLast(f, t) = Allowed(f)
    BY <1>1 DEF TriggerFirst, TriggerLast, Allowed
  <2>2. TriggerFirst(f, t) = Lowest[f] /\ Lowest[f] \in {0, 1}
    BY <1>1 DEF TriggerFirst, Lowest, Fields
  <2>3. \A v \in Allowed(f) : v \in Int
    BY DEF Allowed
  <2>4. HasStep(t) => \A v \in Allowed(f) : (v - Lowest[f]) % t.step = 0 <=> v % t.step = 0
    <3>1. CASE Lowest[f] = 0
      BY <2>3, <3>1
    <3>2. CASE HasStep(t) /\ t.step = 1
      BY <2>2, <2>3, <3>2
    <3> QED
      BY <1>1, <3>1, <3>2 DEF ReadsAlike
  <2> QED
    BY <1>1, <2>1, <2>2, <2>4 DEF TriggerValues, Expand
<1>2. CASE t.base = "single"
  <2>1. ~HasStep(t) /\ t.lo \in Int
    BY <1>2 DEF ReadsAlike, TokenValid, NumberValid, IsNumber, Tokens, Texts
  <2>2. TriggerFirst(f, t) = t.lo /\ TriggerLast(f, t) = t.lo
    BY <1>2, <2>1 DEF TriggerFirst, TriggerLast
  <2> QED
    BY <1>2, <2>1, <2>2 DEF TriggerValues, Expand
<1>3. CASE t.base = "range"
  BY <1>3 DEF TriggerValues, TriggerFirst, TriggerLast, Expand
<1> QED
  BY <1>1, <1>2, <1>3 DEF TokenValid

\* Whatever texts clients send: an armed job fires at the minutes, hours, days
\* and months of its row, but for steps that count from 1 and N/S.
THEOREM ArmedAsStored == Spec => []TriggerFollowsRow
<1>1. StoredInv => TriggerFollowsRow
  <2> SUFFICES ASSUME StoredInv, armed # NoText, NEW i \in 1 .. 4,
                      \A k \in DOMAIN row[i] : ReadsAlike(FieldNames[i], row[i][k])
               PROVE  FiringValues(FieldNames[i], armed[i]) = ExpandField(FieldNames[i], row[i])
    BY DEF TriggerFollowsRow
  <2>1. posted \in Seq(Seq(Tokens)) /\ Valid(posted) /\ row = Normalize(posted) /\ armed = row
    BY ExpressionsAssumption DEF StoredInv
  <2>2. row \in Seq(Seq(Tokens)) /\ Valid(row)
    BY <2>1, NormalizeCanonical
  <2>3. i \in Places /\ FieldNames[i] \in Fields /\ FieldNames[i] # "day_of_week"
    BY DEF Places, FieldNames, Fields
  <2> DEFINE f == FieldNames[i]
             parts == row[i]
  <2>4. FieldValid(f, parts)
    BY <2>2, <2>3 DEF Valid
  <2>5. parts \in Seq(Tokens)
    BY <2>2, <2>3, LenProperties DEF Valid, Places
  <2> HIDE DEF f, parts
  <2>6. \A k \in DOMAIN parts : parts[k] \in Tokens /\ TokenValid(f, parts[k])
    BY <2>4, <2>5 DEF FieldValid, TokensValid
  <2>7. \A k \in DOMAIN parts : TriggerValues(f, parts[k]) = Expand(f, parts[k])
    BY <2>3, <2>6, TriggerReads DEF f, parts
  <2>8. FiringValues(f, parts) = ExpandField(f, parts)
    BY <2>7 DEF FiringValues, ExpandField
  <2> QED
    BY <2>1, <2>8 DEF f, parts
<1> QED
  BY <1>1, StoredAlways, PTL

-----------------------------------------------------------------------------
\* A field that is valid has at least one token.
LEMMA ValidFieldHasToken ==
    ASSUME NEW f, NEW parts \in Seq(Tokens), FieldValid(f, parts)
    PROVE  parts # <<>>
<1> SUFFICES ASSUME parts = <<>> PROVE FALSE
  OBVIOUS
<1>1. DOMAIN parts = {}
  OBVIOUS
<1>2. ExpandField(f, NormalizeField(f, parts)) = {}
  BY <1>1 DEF ExpandField, NormalizeField
<1> QED
  BY <1>2 DEF FieldValid

\* How the fields of a valid expression look once normalised.
LEMMA NormalFields ==
    ASSUME NEW e \in Expressions, Valid(e), NEW i \in Places
    PROVE  LET f == FieldNames[i]  parts == Normalize(e)[i] IN
           /\ f \in Fields
           /\ DOMAIN Normalize(e) = Places
           /\ parts \in Seq(Tokens) /\ parts # <<>>
           /\ ExpandField(f, parts) # {}
           /\ ExpandField(f, parts) \subseteq Allowed(f)
           /\ \A k \in DOMAIN parts : /\ parts[k] \in Tokens
                                      /\ TokenValid(f, parts[k])
                                      /\ NormalizeToken(f, parts[k]) = parts[k]
<1> DEFINE f == FieldNames[i]
           parts == Normalize(e)[i]
<1>1. e \in Seq(Seq(Tokens))
  BY ExpressionsAssumption
<1>2. Normalize(e) \in Seq(Seq(Tokens)) /\ Valid(Normalize(e)) /\ Normalize(Normalize(e)) = Normalize(e)
  BY <1>1, NormalizeCanonical
<1>3. DOMAIN Normalize(e) = Places
  BY DEF Normalize
<1>4. f \in Fields /\ parts \in Seq(Tokens) /\ FieldValid(f, parts)
  BY <1>2, <1>3, NamesAreFields DEF Valid
<1>5. NormalizeField(f, parts) = parts
  BY <1>2 DEF Normalize
<1> HIDE DEF f, parts
<1>6. parts # <<>>
  BY <1>4, ValidFieldHasToken
<1>7. \A k \in DOMAIN parts : /\ parts[k] \in Tokens
                              /\ TokenValid(f, parts[k])
                              /\ NormalizeToken(f, parts[k]) = parts[k]
  BY <1>4, <1>5 DEF FieldValid, TokensValid, NormalizeField
<1>8. ExpandField(f, parts) # {}
  BY <1>4, <1>5 DEF FieldValid
<1>9. ExpandField(f, parts) \subseteq Allowed(f)
  <2>1. \A k \in DOMAIN parts : Expand(f, parts[k]) \subseteq Allowed(f)
    BY <1>4, <1>7, ExpandsInField
  <2> QED
    BY <2>1 DEF ExpandField
<1> QED
  BY <1>3, <1>4, <1>6, <1>7, <1>8, <1>9 DEF f, parts

\* Whatever texts clients send: what is handed on, stored and armed are five
\* fields, none of them empty, and every request ends at a known answer.
THEOREM ExpressionTypes == Spec => []TypeOK
<1>1. StoredInv => TypeOK
  <2> SUFFICES ASSUME StoredInv, NEW text \in {body, row, armed}, text # NoText
               PROVE  /\ DOMAIN text = Places
                      /\ \A i \in Places : text[i] \in Seq(Tokens) \ {<<>>}
    BY DEF StoredInv, TypeOK
  <2>1. posted \in Expressions /\ Valid(posted) /\ text = Normalize(posted)
    BY DEF StoredInv
  <2> QED
    BY <2>1, NormalFields DEF Normalize
<1> QED
  BY <1>1, StoredAlways, PTL

-----------------------------------------------------------------------------
\* A valid, normalised token is one that CronTrigger accepts, unless its step is
\* beyond its range.
LEMMA TriggerAcceptsToken ==
    ASSUME NEW f \in Fields, NEW t \in Tokens, TokenValid(f, t),
           NormalizeToken(f, t) = t, ~StepBeyondRange(f, t)
    PROVE  TriggerAccepts(f, t)
<1>1. NormalizeBound(f, t.lo) = t.lo /\ NormalizeBound(f, t.hi) = t.hi
  <2>1. NormalizeToken(f, t).lo = NormalizeBound(f, t.lo)
        /\ NormalizeToken(f, t).hi = NormalizeBound(f, t.hi)
    BY DEF NormalizeToken
  <2> QED
    BY <2>1
<1>2. /\ Lowest[f] \in Nat /\ Largest(f) \in Nat /\ Lowest[f] < Largest(f)
      /\ Highest[f] = IF f = "day_of_week" THEN 7 ELSE Largest(f)
      /\ f = "day_of_week" => Largest(f) = 6
  BY DEF Fields, Lowest, Largest, Highest
<1>3. HasStep(t) => t.step \in Nat /\ t.step > 0
  BY DEF TokenValid, StepValid, HasStep, IsNumber, Tokens, Texts
<1>4. \A x \in Texts : NumberValid(f, x) /\ NormalizeBound(f, x) = x =>
         x \in Nat /\ x >= Lowest[f] /\ x <= Largest(f)
  BY <1>2 DEF NumberValid, NormalizeBound, IsNumber, Texts
<1>5. CASE t.base = "*"
  <2>1. TriggerFirst(f, t) = Lowest[f] /\ TriggerLast(f, t) = Largest(f)
    BY <1>5 DEF TriggerFirst, TriggerLast
  <2>2. HasStep(t) => t.step <= Largest(f) - Lowest[f]
    BY <1>2, <1>3, <1>5 DEF StepBeyondRange
  <2> QED
    BY <1>2, <2>1, <2>2 DEF TriggerAccepts
<1>6. CASE t.base = "single"
  <2>1. t.lo \in Nat /\ t.lo >= Lowest[f] /\ t.lo <= Largest(f)
    BY <1>1, <1>4, <1>6 DEF TokenValid, Tokens
  <2>2. /\ TriggerFirst(f, t) = t.lo
        /\ TriggerLast(f, t) = IF HasStep(t) THEN Largest(f) ELSE t.lo
    BY <1>6 DEF TriggerFirst, TriggerLast
  <2>3. HasStep(t) => t.step <= Largest(f) - t.lo
    BY <1>2, <1>3, <1>6, <2>1 DEF StepBeyondRange
  <2> QED
    BY <1>2, <2>1, <2>2, <2>3 DEF TriggerAccepts
<1>7. CASE t.base = "range"
  <2>1. /\ t.lo \in Nat /\ t.lo >= Lowest[f] /\ t.hi \in Nat /\ t.hi <= Largest(f)
        /\ t.lo <= t.hi
    BY <1>1, <1>4, <1>7 DEF TokenValid, RangeValid, Tokens
  <2>2. TriggerFirst(f, t) = t.lo /\ TriggerLast(f, t) = t.hi
    BY <1>7 DEF TriggerFirst, TriggerLast
  <2>3. HasStep(t) => t.step <= t.hi - t.lo
    BY <1>3, <1>7, <2>1 DEF StepBeyondRange
  <2> QED
    BY <1>2, <1>3, <2>1, <2>2, <2>3 DEF TriggerAccepts
<1> QED
  BY <1>5, <1>6, <1>7 DEF TokenValid

\* What the answer of a request says: a job without a trigger has an expression
\* that CronTrigger rejects, and the description is that of the normal form.
AnswerInv ==
    /\ stage \in {"respond", "done"} => /\ row # NoText
                                        /\ armed = NoText => ~FromCrontab(row)
    /\ stage \in {"previewed", "done"} => /\ posted \in Expressions /\ Valid(posted)
                                          /\ ~DescriptionRaises(Normalize(posted))
                                          /\ shown = Describe(Normalize(posted))

LEMMA AnswerInvNext == StoredInv /\ AnswerInv /\ [Next]_vars => AnswerInv'
<1> SUFFICES ASSUME StoredInv, AnswerInv, [Next]_vars PROVE AnswerInv'
  OBVIOUS
<1>1. ASSUME row # NoText
      PROVE  /\ posted \in Expressions /\ Valid(posted) /\ row = Normalize(posted)
             /\ Valid(row) /\ Normalize(row) = row
  BY <1>1, ExpressionsAssumption, NormalizeCanonical DEF StoredInv
<1>2. ASSUME NEW e \in Expressions, Post(e) PROVE AnswerInv'
  BY <1>2 DEF AnswerInv, Post
<1>3. ASSUME NEW e \in Expressions, Preview(e) PROVE AnswerInv'
  BY <1>3 DEF AnswerInv, Preview
<1>4. CASE ApplySchedule
  BY <1>4 DEF AnswerInv, ApplySchedule
<1>5. ASSUME row # NoText, AddOrReplace, UNCHANGED row
      PROVE  armed' = NoText => armed = NoText /\ ~FromCrontab(row')
  BY <1>1, <1>5 DEF AddOrReplace
<1>6. CASE NotifyJobChanged
  <2>1. row # NoText
    BY <1>6 DEF StoredInv, NotifyJobChanged
  <2> QED
    BY <1>5, <1>6, <2>1 DEF AnswerInv, NotifyJobChanged
<1>7. CASE Respond
  <2>1. row # NoText
    BY <1>7 DEF AnswerInv, Respond
  <2> QED
    BY <1>1, <1>7, <2>1 DEF AnswerInv, Respond
<1>8. CASE SyncFromDb
  BY <1>5, <1>8 DEF AnswerInv, SyncFromDb
<1>9. CASE NextRequest
  BY <1>9 DEF AnswerInv, NextRequest
<1>10. CASE UNCHANGED vars
  BY <1>10 DEF AnswerInv, vars
<1> QED
  BY <1>2, <1>3, <1>4, <1>6, <1>7, <1>8, <1>9, <1>10 DEF Next

LEMMA AnswerAlways == Spec => []AnswerInv
<1>1. Init => AnswerInv
  BY DEF Init, AnswerInv
<1> QED
  BY <1>1, AnswerInvNext, StoredAlways, PTL DEF Spec

\* Whatever texts clients send: a job that was stored and answered without a
\* trigger has a step beyond its range, the one thing on which the panel's
\* validator and CronTrigger disagree.
THEOREM DisagreementIsAStep == Spec => []OnlyStepsDisagree
<1>1. StoredInv /\ AnswerInv => OnlyStepsDisagree
  <2> SUFFICES ASSUME StoredInv, AnswerInv, stage = "done", armed = NoText,
                      \A i \in Places : \A k \in DOMAIN row[i] :
                         ~StepBeyondRange(FieldNames[i], row[i][k])
               PROVE  FALSE
    BY DEF OnlyStepsDisagree
  <2>1. row # NoText /\ ~FromCrontab(row)
    BY DEF AnswerInv
  <2>2. posted \in Expressions /\ Valid(posted) /\ row = Normalize(posted)
    BY <2>1 DEF StoredInv
  <2>3. ASSUME NEW i \in Places, NEW k \in DOMAIN row[i]
        PROVE  TriggerAccepts(FieldNames[i], row[i][k])
    BY <2>2, <2>3, NormalFields, TriggerAcceptsToken
  <2> QED
    BY <2>1, <2>3 DEF FromCrontab
<1> QED
  BY <1>1, StoredAlways, AnswerAlways, PTL

-----------------------------------------------------------------------------
\* The description's minutes are the field's minutes, when there is one at all.
LEMMA DescribedMinutesExact ==
    ASSUME NEW e, e[1] \in Seq(Tokens), e[1] # <<>>, ~DescriptionRaises(e)
    PROVE  DescribedMinutes(e) = ExpandField("minute", e[1])
<1>1. CASE UsesMinutesPhrase(e) /\ StartsWithStep(e[1])
  <2>1. DOMAIN e[1] = {1}
    BY <1>1 DEF DescriptionRaises
  <2>2. ExpandField("minute", e[1]) = Expand("minute", e[1][1])
    BY <2>1 DEF ExpandField
  <2> QED
    BY <1>1, <2>2 DEF DescribedMinutes, StartsWithStep, Expand
<1>2. CASE ~(UsesMinutesPhrase(e) /\ StartsWithStep(e[1]))
  BY <1>2 DEF DescribedMinutes
<1> QED
  BY <1>1, <1>2

\* Its hours are the field's, unless several hours share every minute.
LEMMA DescribedHoursExact ==
    ASSUME NEW e, ExpandField("hour", e[2]) # {},
           ExpandField("hour", e[2]) \subseteq Allowed("hour")
    PROVE  \/ DescribedHours(e) = ExpandField("hour", e[2])
           \/ IsStar(e[1]) /\ Cardinality(ExpandField("hour", e[2])) > 1
<1> DEFINE hours == ExpandField("hour", e[2])
<1>1. IsFiniteSet(hours)
  <2>1. Allowed("hour") = 0 .. 23
    BY DEF Allowed, Lowest, Largest, Highest
  <2> DEFINE last == 23
  <2>2. 0 \in Int /\ last \in Int
    OBVIOUS
  <2> HIDE DEF last
  <2>3. IsFiniteSet(0 .. last)
    BY <2>2, FS_Interval
  <2> QED
    BY <2>1, <2>3, FS_Subset DEF last
<1>2. Cardinality(hours) \in Nat /\ Cardinality(hours) # 0
  BY <1>1, FS_CardinalityType, FS_EmptySet
<1> QED
  BY <1>2 DEF DescribedHours

\* Whatever texts clients send: a description names the minutes and the hours
\* the text stands for, but for the hours when every minute of several is meant.
THEOREM DescribedAsMeant == Spec => []DescriptionIsExact
<1>1. AnswerInv => DescriptionIsExact
  <2> SUFFICES ASSUME AnswerInv, stage \in {"previewed", "done"}
               PROVE  LET hours == ExpandField("hour", Normalize(posted)[2]) IN
                      /\ shown.minutes = ExpandField("minute", Normalize(posted)[1])
                      /\ \/ shown.hours = hours
                         \/ IsStar(Normalize(posted)[1]) /\ Cardinality(hours) > 1
    BY DEF DescriptionIsExact
  <2> DEFINE e == Normalize(posted)
  <2>1. /\ posted \in Expressions /\ Valid(posted)
        /\ ~DescriptionRaises(e) /\ shown = Describe(e)
    BY DEF AnswerInv
  <2>2. 1 \in Places /\ 2 \in Places /\ FieldNames[1] = "minute" /\ FieldNames[2] = "hour"
    BY DEF Places, FieldNames
  <2>3. /\ e[1] \in Seq(Tokens) /\ e[1] # <<>>
        /\ ExpandField("hour", e[2]) # {}
        /\ ExpandField("hour", e[2]) \subseteq Allowed("hour")
    BY <2>1, <2>2, NormalFields
  <2> HIDE DEF e
  <2>4. shown.minutes = DescribedMinutes(e) /\ shown.hours = DescribedHours(e)
    BY <2>1 DEF Describe
  <2> QED
    BY <2>1, <2>3, <2>4, DescribedMinutesExact, DescribedHoursExact DEF e
<1> QED
  BY <1>1, AnswerAlways, PTL
=============================================================================
