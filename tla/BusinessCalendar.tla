---------------------------- MODULE BusinessCalendar -----------------------------
(***************************************************************************)
(* The arithmetic of due dates: business days, holidays and half days.     *)
(*                                                                         *)
(* A day is a day of the calendar in Istanbul, numbered so that day 0 is a *)
(* Sunday; the time of the day is kept by the code and left out here. A    *)
(* calendar is a function from the days that have an active entry to its   *)
(* type. Weights are counted in half days.                                 *)
(***************************************************************************)
EXTENDS Integers, FiniteSets, Functions

\* OFFICIAL_HOLIDAY and COMPANY_HOLIDAY count alike.
EntryTypes == {"HOLIDAY", "HALF_DAY"}

Weekend(d) == d % 7 \in {0, 6}

\* An entry decides, whatever day of the week it is for.
Weight(d, calendar) ==
    IF d \in DOMAIN calendar THEN IF calendar[d] = "HALF_DAY" THEN 1 ELSE 0
    ELSE IF Weekend(d) THEN 0 ELSE 2

\* The days for which entries are read.
Span(n) == IF 2 * n + 14 > 30 THEN 2 * n + 14 ELSE 30

\* Mutant: weekends and holidays are not allowed for.
ShortLookup(start, n, calendar) ==
    Restrict(calendar, DOMAIN calendar \cap start..(start + n + 14))

Lookup(start, n, calendar) ==
    Restrict(calendar, DOMAIN calendar \cap start..(start + Span(n)))

\* The loop of addBusinessDays, from a day with half days that remain: the day on
\* which nothing does.
Walk(start, remaining, lookup) ==
    LET walk[p \in Nat \X Nat] ==
            LET d == p[1]
                left == p[2] - Weight(d, lookup)
            IN  IF left <= 0 THEN d ELSE walk[<<d + 1, left>>]
    IN  walk[<<start, remaining>>]

\* computeDueAt for a policy in business days. The day of the assignment counts.
DueDay(start, n, calendar) ==
    IF n <= 0 THEN start ELSE Walk(start, 2 * n, Lookup(start, n, calendar))

(***************************************************************************)
(* What a due day is meant to be                                           *)
(***************************************************************************)
Weighing(w, start, d, calendar) == {e \in start..d : Weight(e, calendar) = w}

WorkDone(start, d, calendar) == 2 * Cardinality(Weighing(2, start, d, calendar))
                                  + Cardinality(Weighing(1, start, d, calendar))

\* The first day by whose end the business days have passed, in the whole calendar.
IsNthBusinessDay(d, start, n, calendar) ==
    /\ WorkDone(start, d, calendar) >= 2 * n
    /\ d > start => WorkDone(start, d - 1, calendar) < 2 * n

\* The span is long enough for entries on these days: it holds all of them that are
\* still to come, or enough working days without one.
Covers(days, start, n) ==
    \/ \A d \in days : d <= start + Span(n)
    \/ Cardinality({d \in start..(start + Span(n)) : ~Weekend(d)} \ days) >= n

================================================================================
