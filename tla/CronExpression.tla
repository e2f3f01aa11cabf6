--------------------------- MODULE CronExpression ---------------------------
(***************************************************************************)
(* The life of a cron expression (utils/cron_validator.py): the request's  *)
(* schema validates and normalises it, the job service parses it again and *)
(* derives the row's columns, the scheduler validates the row's text and   *)
(* hands it to CronTrigger.from_crontab, and the response describes it.    *)
(*                                                                         *)
(* An expression is a sequence of fields and a field a sequence of tokens, *)
(* as splitting at blanks and commas leaves them; a number is a number,    *)
(* whatever its leading zeros.                                             *)
(***************************************************************************)
EXTENDS Integers, Sequences, FiniteSets, FiniteSetsExt

CONSTANTS
    Expressions,        \* the texts that clients send
    Missing, Junk,      \* no text, and a text that is not a number
    NoStep, NoText

ASSUME SymbolsAssumption ==
    /\ {Missing, Junk, NoStep} \cap Int = {}
    /\ NoStep \notin {Missing, Junk}

VARIABLES
    stage,      \* how far the request is
    body,       \* schedule_expression as the schema hands it on
    row,        \* cron_jobs.schedule_expression; its derived columns are in JobService
    armed,      \* the expression of the job's trigger
    shown,      \* human_description
    posted      \* bookkeeping: what the client sent

vars == <<stage, body, row, armed, shown, posted>>

-----------------------------------------------------------------------------
FieldNames == <<"minute", "hour", "day_of_month", "month", "day_of_week">>
Fields == {"minute", "hour", "day_of_month", "month", "day_of_week"}
Places == 1 .. 5

Lowest == [minute |-> 0, hour |-> 0, day_of_month |-> 1, month |-> 1, day_of_week |-> 0]
Highest == [minute |-> 59, hour |-> 23, day_of_month |-> 31, month |-> 12, day_of_week |-> 7]

\* The values a field can take: day_of_week collapses 7 into 0.
Largest(f) == IF f = "day_of_week" THEN 6 ELSE Highest[f]
Allowed(f) == Lowest[f] .. Largest(f)

(***************************************************************************)
(* A token is "*", N or N-M, each with an optional step, or "illegal": a   *)
(* text that is empty or has other characters.                             *)
(***************************************************************************)
Texts == Nat \cup {Missing, Junk}
Tokens == [base : {"*", "single", "range", "illegal"}, lo : Texts, hi : Texts,
           step : Texts \cup {NoStep}]
Star == [base |-> "*", lo |-> Missing, hi |-> Missing, step |-> NoStep]

ASSUME ExpressionsAssumption ==
    /\ Expressions \subseteq Seq(Seq(Tokens))
    /\ NoText \notin Seq(Seq(Tokens))

IsNumber(x) == x \notin {Missing, Junk, NoStep}
HasStep(t) == t.step # NoStep

-----------------------------------------------------------------------------
(***************************************************************************)
(* _validate_token raises an error, with one of several codes, unless the  *)
(* token is valid.                                                         *)
(***************************************************************************)
\* Mutant: the days are renumbered from Monday, as the trigger has them.
MondayFirst(f, n) == IF f = "day_of_week" /\ IsNumber(n) THEN (n + 6) % 7 ELSE n

\* Mutant: 7 stays 7.
KeepBound(f, n) == n

NormalizeBound(f, n) == IF f = "day_of_week" /\ n = 7 THEN 0 ELSE n

StepValid(t) == HasStep(t) => IsNumber(t.step) /\ t.step > 0
NumberValid(f, x) == IsNumber(x) /\ x >= Lowest[f] /\ x <= Highest[f]

\* 5-7 is refused: the ends are compared after 7 becomes 0.
RangeValid(f, t) ==
    /\ NumberValid(f, t.lo)
    /\ NumberValid(f, t.hi)
    /\ NormalizeBound(f, t.lo) <= NormalizeBound(f, t.hi)

TokenValid(f, t) ==
    /\ StepValid(t)
    /\ \/ t.base = "*"
       \/ t.base = "single" /\ NumberValid(f, t.lo)
       \/ t.base = "range" /\ RangeValid(f, t)

NormalizeToken(f, t) ==
    [base |-> t.base, lo |-> NormalizeBound(f, t.lo), hi |-> NormalizeBound(f, t.hi),
     step |-> t.step]

\* Mutant: the steps of a range count from 0.
ExpandFromZero(f, t) ==
    CASE t.base = "*"      -> {v \in Allowed(f) : HasStep(t) => v % t.step = 0}
      [] t.base = "single" -> {t.lo}
      [] t.base = "range"  -> {v \in t.lo .. t.hi : HasStep(t) => v % t.step = 0}

(***************************************************************************)
(* _expand_token, of a normalised token: steps of "*" count from 0, also   *)
(* where the field starts at 1, and N/S is N.                              *)
(***************************************************************************)
Expand(f, t) ==
    CASE t.base = "*"      -> {v \in Allowed(f) : HasStep(t) => v % t.step = 0}
      [] t.base = "single" -> {t.lo}
      [] t.base = "range"  -> {v \in t.lo .. t.hi : HasStep(t) => (v - t.lo) % t.step = 0}

-----------------------------------------------------------------------------
(***************************************************************************)
(* parse_cron_expression, field by field.                                  *)
(***************************************************************************)
NormalizeField(f, parts) == [i \in DOMAIN parts |-> NormalizeToken(f, parts[i])]
ExpandField(f, parts) == UNION {Expand(f, parts[i]) : i \in DOMAIN parts}

TokensValid(f, parts) == \A i \in DOMAIN parts : TokenValid(f, parts[i])

\* The normalised tokens are expanded, which raises the same errors again.
FieldValid(f, parts) ==
    LET normalized == NormalizeField(f, parts) IN
    /\ TokensValid(f, parts)
    /\ TokensValid(f, normalized)
    /\ ExpandField(f, normalized) # {}

Valid(e) == Len(e) = 5 /\ \A i \in Places : FieldValid(FieldNames[i], e[i])

Normalize(e) == [i \in Places |-> NormalizeField(FieldNames[i], e[i])]

-----------------------------------------------------------------------------
(***************************************************************************)
(* CronTrigger's reading of a token (external).  It numbers the days of    *)
(* the week from Monday, counts the steps of "*" from the field's first    *)
(* value, reads N/S as N-last/S, and rejects a step beyond the range.      *)
(***************************************************************************)
TriggerFirst(f, t) == IF t.base = "*" THEN Lowest[f] ELSE t.lo
TriggerLast(f, t) ==
    CASE t.base = "range"                  -> t.hi
      [] t.base = "single" /\ ~HasStep(t)  -> t.lo
      [] OTHER                             -> Largest(f)

TriggerAccepts(f, t) ==
    /\ TriggerFirst(f, t) >= Lowest[f]
    /\ TriggerFirst(f, t) <= TriggerLast(f, t)
    /\ TriggerLast(f, t) <= Largest(f)
    /\ HasStep(t) => t.step <= (IF TriggerLast(f, t) = 0 THEN Largest(f) ELSE TriggerLast(f, t))
                               - TriggerFirst(f, t)

TriggerValues(f, t) ==
    {v \in TriggerFirst(f, t) .. TriggerLast(f, t) :
        HasStep(t) => (v - TriggerFirst(f, t)) % t.step = 0}

FromCrontab(e) ==
    \A i \in Places : \A k \in DOMAIN e[i] : TriggerAccepts(FieldNames[i], e[i][k])

FiringValues(f, parts) == UNION {TriggerValues(f, parts[k]) : k \in DOMAIN parts}

\* The days a trigger fires on, numbered from Sunday as in the panel.
FiringDays(parts) == {(d + 1) % 7 : d \in FiringValues("day_of_week", parts)}

-----------------------------------------------------------------------------
(***************************************************************************)
(* describe_cron_expression.  A description is the set of minutes and      *)
(* hours its time part names; its day part names the days of               *)
(* expand_cron_field in every branch.                                      *)
(***************************************************************************)
IsStar(parts) == parts = <<Star>>
StartsWithStep(parts) == parts[1].base = "*" /\ HasStep(parts[1])

FewTimes(e) ==
    /\ ~IsStar(e[1]) /\ ~IsStar(e[2])
    /\ Cardinality(ExpandField("hour", e[2])) <= 4
    /\ Cardinality(ExpandField("minute", e[1])) <= 4

\* _minutes_phrase is used for the minutes.
UsesMinutesPhrase(e) == ~IsStar(e[1]) /\ ~FewTimes(e)

\* int(token[2:]) of a list that starts with */S is an uncaught ValueError.
DescriptionRaises(e) == UsesMinutesPhrase(e) /\ StartsWithStep(e[1]) /\ Len(e[1]) > 1

\* Mutant: a single value is taken for the only one.
DescribedHoursFirst(e) ==
    LET hours == ExpandField("hour", e[2]) IN
    IF IsStar(e[1]) THEN Allowed("hour") ELSE {Min(hours)}

DescribedHours(e) ==
    LET hours == ExpandField("hour", e[2]) IN
    IF IsStar(e[1]) /\ Cardinality(hours) # 1 THEN Allowed("hour") ELSE hours

DescribedMinutes(e) ==
    IF UsesMinutesPhrase(e) /\ StartsWithStep(e[1])
      THEN {m \in Allowed("minute") : m % e[1][1].step = 0}
      ELSE ExpandField("minute", e[1])

Describe(e) ==
    [minutes |-> DescribedMinutes(e), hours |-> DescribedHours(e),
     day_of_month |-> ExpandField("day_of_month", e[3]),
     month |-> ExpandField("month", e[4]),
     day_of_week |-> ExpandField("day_of_week", e[5])]

-----------------------------------------------------------------------------
Init ==
    /\ stage = "idle"
    /\ body = NoText
    /\ row = NoText
    /\ armed = NoText
    /\ shown = NoText
    /\ posted = NoText

\* Mutant: a text that cannot be parsed is handed on as it is.
PostHandsOn(e) ==
    /\ stage = "idle"
    /\ posted' = e
    /\ body' = e
    /\ stage' = IF Valid(e) THEN "apply" ELSE "refused"
    /\ UNCHANGED <<row, armed, shown>>

(***************************************************************************)
(* normalize_expression in the schema of the request's body.               *)
(***************************************************************************)
Post(e) ==
    /\ stage = "idle"
    /\ posted' = e
    /\ \/ /\ Valid(e)
          /\ stage' = "apply"
          /\ body' = Normalize(e)
       \/ /\ ~Valid(e)
          /\ stage' = "refused"
          /\ UNCHANGED body
    /\ UNCHANGED <<row, armed, shown>>

\* POST /validate answers with the description and stores nothing.
Preview(e) ==
    /\ stage = "idle"
    /\ posted' = e
    /\ \/ /\ ~Valid(e)
          /\ stage' = "refused"
          /\ UNCHANGED shown
       \/ /\ Valid(e) /\ ~DescriptionRaises(Normalize(e))
          /\ stage' = "previewed"
          /\ shown' = Describe(Normalize(e))
       \/ /\ Valid(e) /\ DescriptionRaises(Normalize(e))
          /\ stage' = "failed"
          /\ UNCHANGED shown
    /\ UNCHANGED <<body, row, armed>>

(***************************************************************************)
(* _apply_schedule and the commit.  No handler expects an error here.      *)
(***************************************************************************)
ApplySchedule ==
    /\ stage = "apply"
    /\ \/ /\ Valid(body)
          /\ row' = Normalize(body)
          /\ stage' = "notify"
       \/ /\ ~Valid(body)
          /\ stage' = "stuck"
          /\ UNCHANGED row
    /\ UNCHANGED <<body, armed, shown, posted>>

\* add_or_replace: the row's text is validated and normalised once more.
AddOrReplace ==
    armed' = IF Valid(row) /\ FromCrontab(Normalize(row))
               THEN Normalize(row) ELSE armed

NotifyJobChanged ==
    /\ stage = "notify"
    /\ AddOrReplace
    /\ stage' = "respond"
    /\ UNCHANGED <<body, row, shown, posted>>

(***************************************************************************)
(* _to_response.  The job is committed and armed by then.                  *)
(***************************************************************************)
Respond ==
    /\ stage = "respond"
    /\ \/ /\ ~DescriptionRaises(Normalize(row))
          /\ shown' = Describe(Normalize(row))
          /\ stage' = "done"
       \/ /\ DescriptionRaises(Normalize(row))
          /\ stage' = "failed"
          /\ UNCHANGED shown
    /\ UNCHANGED <<body, row, armed, posted>>

SyncFromDb ==
    /\ row # NoText
    /\ AddOrReplace
    /\ UNCHANGED <<stage, body, row, shown, posted>>

\* The job is deleted, or there is none; another request may come.
NextRequest ==
    /\ stage \in {"refused", "previewed", "stuck", "failed", "done"}
    /\ stage' = "idle"
    /\ body' = NoText
    /\ row' = NoText
    /\ armed' = NoText
    /\ shown' = NoText
    /\ posted' = NoText

Next ==
    \/ \E e \in Expressions : Post(e) \/ Preview(e)
    \/ ApplySchedule \/ NotifyJobChanged \/ Respond \/ SyncFromDb \/ NextRequest

Spec == Init /\ [][Next]_vars

-----------------------------------------------------------------------------
TypeOK ==
    /\ stage \in {"idle", "apply", "notify", "respond",
                  "refused", "previewed", "stuck", "failed", "done"}
    /\ \A text \in {body, row, armed} :
          text # NoText => /\ DOMAIN text = Places
                           /\ \A i \in Places : text[i] \in Seq(Tokens) \ {<<>>}

\* What the schema normalised can be parsed by the service, and by the
\* scheduler and the description after it, and comes out unchanged: no request
\* fails half way because of it.  (What overlapping requests make of the row's
\* minute, hour and so on is in JobService.)
StoredIsCanonical ==
    /\ \A text \in {body, row} \ {NoText} : Valid(text) /\ Normalize(text) = text
    /\ stage # "stuck"

(***************************************************************************)
(* The usual meaning of a token: 7 is Sunday like 0, a range counts on     *)
(* from its first value, and "*" covers the field.                         *)
(***************************************************************************)
SundayIsZero(f, v) == IF f = "day_of_week" THEN v % 7 ELSE v
Meaning(f, t) ==
    {SundayIsZero(f, v) : v \in
        CASE t.base = "*"      -> {v \in Allowed(f) : HasStep(t) => v % t.step = 0}
          [] t.base = "single" -> {t.lo}
          [] t.base = "range"  -> {v \in t.lo .. t.hi : HasStep(t) => (v - t.lo) % t.step = 0}}

\* A range with 7 at one of its ends (0-7 is stored as 0-0, 7-3 as 0-3).
WrapsToSunday(f, t) ==
    f = "day_of_week" /\ t.base = "range" /\ (t.lo = 7) # (t.hi = 7)

\* Normalising keeps the values a field stands for, unless one of its tokens is a
\* range of days that ends, or starts, at 7 (WrapsToSunday: 0-7 becomes Sunday
\* alone); and there is always at least one value, each of them a
\* value of the field (_normalize_bound, _expand_token).
MeaningKept ==
    row # NoText =>
        \A i \in Places :
            LET f == FieldNames[i]  values == ExpandField(f, row[i]) IN
            /\ values # {} /\ values \subseteq Allowed(f)
            /\ (\A k \in DOMAIN posted[i] : ~WrapsToSunday(f, posted[i][k])) =>
                  values = UNION {Meaning(f, posted[i][k]) : k \in DOMAIN posted[i]}

\* What the panel accepts and CronTrigger does not: a step that is larger than
\* its range.  Nothing else keeps a stored expression from being armed.
StepBeyondRange(f, t) ==
    /\ HasStep(t)
    /\ \/ t.base = "*" /\ t.step > Largest(f) - Lowest[f]
       \/ t.base = "single" /\ t.step > Largest(f) - t.lo
       \/ t.base = "range" /\ t.step > t.hi - t.lo

OnlyStepsDisagree ==
    stage = "done" /\ armed = NoText =>
        \E i \in Places : \E k \in DOMAIN row[i] : StepBeyondRange(FieldNames[i], row[i][k])

\* Where the two readings are known to differ.
ReadsAlike(f, t) ==
    /\ t.base = "single" => ~HasStep(t)
    /\ t.base = "*" /\ HasStep(t) => Lowest[f] = 0 \/ t.step = 1

\* An armed job fires at the minutes, hours, days and months that the panel
\* computes from its row, unless a field counts steps from 1 or has N/S in it.
TriggerFollowsRow ==
    armed # NoText =>
        \A i \in 1 .. 4 :
            (\A k \in DOMAIN row[i] : ReadsAlike(FieldNames[i], row[i][k])) =>
                FiringValues(FieldNames[i], armed[i]) = ExpandField(FieldNames[i], row[i])

\* The description of a job, or of a text in the form, names the minutes and
\* hours it stands for, however they are written, but for the hours when every
\* minute of several hours is meant.
DescriptionIsExact ==
    stage \in {"previewed", "done"} =>
        LET hours == ExpandField("hour", Normalize(posted)[2]) IN
        /\ shown.minutes = ExpandField("minute", Normalize(posted)[1])
        /\ \/ shown.hours = hours
           \/ IsStar(Normalize(posted)[1]) /\ Cardinality(hours) > 1

(***************************************************************************)
(* What the documents say and the code does not do.                        *)
(***************************************************************************)
\* "no hay un segundo parser ni sintaxis divergente" (docs/scheduler.md): a job
\* fires on the days of the week that its description names.
FiresOnDaysShown ==
    stage = "done" /\ armed # NoText => FiringDays(armed[5]) = shown.day_of_week

\* "Return a human-readable Spanish description of a valid expression": the
\* answer to a request with a valid expression has its description.
AlwaysDescribed == stage # "failed"
=============================================================================
