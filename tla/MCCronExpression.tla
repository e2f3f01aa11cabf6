------------------------- MODULE MCCronExpression -------------------------
(* Expressions around the bounds of every field, for TLC. *)
EXTENDS CronExpression

Steps == {NoStep, Junk, 0, 1, 2}
ListSteps == {NoStep, 2}

AllStars == [i \in Places |-> <<Star>>]
With(i, parts) == [AllStars EXCEPT ![i] = parts]

\* The numbers around a field's bounds, and 7 for the day of the week.
Numbers(f) ==
    {n \in {Lowest[f] - 1, Lowest[f], Lowest[f] + 1, Largest(f),
            Largest(f) + 1, Largest(f) + 2} : n >= 0}

TokensOf(numbers, steps) ==
    [base : {"*", "illegal"}, lo : {Missing}, hi : {Missing}, step : steps]
    \cup [base : {"single"}, lo : numbers, hi : {Missing}, step : steps]
    \cup [base : {"range"}, lo : numbers, hi : numbers, step : steps]

FieldTokens(f) ==
    TokensOf(Numbers(f) \cup {Missing, Junk},
             Steps \cup {Largest(f) - Lowest[f], Largest(f) - Lowest[f] + 1})

ListTokens(f) == TokensOf({Lowest[f], Largest(f) - 1, Largest(f) + 1}, ListSteps)

OneField == UNION {{With(i, <<t>>) : t \in FieldTokens(FieldNames[i])} : i \in Places}
Lists == UNION {{With(i, <<t, u>>) : t, u \in ListTokens(FieldNames[i])} : i \in Places}

\* Minutes and hours together, for the description.
TimeParts(f) ==
    {<<t>> : t \in TokensOf({1, 5}, {NoStep, 2, 20})}
    \cup {<<[Star EXCEPT !.step = 20], [Star EXCEPT !.base = "single", !.lo = 7]>>}
Times == {[With(1, m) EXCEPT ![2] = h] : m \in TimeParts("minute"), h \in TimeParts("hour")}

SmallExpressions ==
    OneField \cup Lists \cup Times \cup {<<>>, SubSeq(AllStars, 1, 4)}
=============================================================================
