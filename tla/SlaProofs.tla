-------------------------------- MODULE SlaProofs --------------------------------
(***************************************************************************)
(* Due dates are what they are meant to be, for every policy and calendar  *)
(* that the span of the code covers; and the types of SlaReminders.        *)
(*                                                                         *)
(* The loop of addBusinessDays is a recursive function. That it returns    *)
(* the first day on which enough is done is proved by induction, which     *)
(* takes the form of a least counterexample here: a set of naturals that   *)
(* is not empty has a least element (Least).                               *)
(***************************************************************************)
EXTENDS SlaReminders, FiniteSetTheorems, WellFoundedInduction, TLAPS

(***************************************************************************)
(* Numbers and sets                                                        *)
(***************************************************************************)
\* A set of naturals that is not empty has a least element: of its beginnings, which
\* are finite sets, one is minimal.
LEMMA Least ==
    ASSUME NEW T \in SUBSET Nat, T # {}
    PROVE  \E x \in T : \A y \in T : x <= y
<1>. DEFINE Begin(k) == T \cap 0..k
            Family == {Begin(k) : k \in T}
<1>1. \A k \in Nat : IsFiniteSet(Begin(k))
  <2>. SUFFICES ASSUME NEW k \in Nat PROVE IsFiniteSet(Begin(k))
    OBVIOUS
  <2>1. IsFiniteSet(0..k)
    BY FS_Interval
  <2>2. Begin(k) \in SUBSET (0..k)
    OBVIOUS
  <2>. QED
    BY <2>1, <2>2, FS_Subset
<1>2. Family \subseteq FiniteSubsetsOf(Nat) /\ Family # {}
  BY <1>1 DEF FiniteSubsetsOf
<1>3. PICK B \in Family : \A C \in Family : <<C, B>> \notin StrictSubsetOrdering(Nat)
  <2>1. IsWellFoundedOn(StrictSubsetOrdering(Nat), FiniteSubsetsOf(Nat))
    BY FS_StrictSubsetOrderingWellFounded
  <2>. HIDE DEF Family
  <2>. QED
    BY <1>2, <2>1, WFMin
<1>4. PICK x \in T : B = Begin(x)
  BY <1>3
<1>5. ASSUME NEW y \in T, ~ (x <= y)
      PROVE  FALSE
  <2>1. Begin(y) \subseteq B /\ Begin(y) # B
    BY <1>4, <1>5
  <2>2. Begin(y) \in Family /\ Begin(y) \in SUBSET Nat /\ B \in SUBSET Nat
    BY <1>4
  <2>. HIDE DEF Begin, Family
  <2>. QED
    BY <1>3, <2>1, <2>2 DEF StrictSubsetOrdering
<1>. QED
  BY <1>5

LEMMA WeightType ==
    ASSUME NEW d \in Nat, NEW cal
    PROVE  Weight(d, cal) \in {0, 1, 2}
BY DEF Weight

\* The days of a weight are finitely many.
LEMMA WeighingFinite ==
    ASSUME NEW w, NEW start \in Nat, NEW d \in Int, NEW cal
    PROVE  /\ IsFiniteSet(Weighing(w, start, d, cal))
           /\ Cardinality(Weighing(w, start, d, cal)) \in Nat
<1>1. IsFiniteSet(start..d)
  BY FS_Interval
<1>2. Weighing(w, start, d, cal) \in SUBSET (start..d)
  BY DEF Weighing
<1>3. IsFiniteSet(Weighing(w, start, d, cal))
  BY <1>1, <1>2, FS_Subset
<1>. QED
  BY <1>3, FS_CardinalityType

LEMMA WorkType ==
    ASSUME NEW start \in Nat, NEW d \in Int, NEW cal
    PROVE  WorkDone(start, d, cal) \in Nat
BY WeighingFinite DEF WorkDone

(***************************************************************************)
(* Work done                                                               *)
(***************************************************************************)
\* The first day counts with its weight, the others are the rest.
LEMMA WorkSplits ==
    ASSUME NEW start \in Nat, NEW d \in Nat, d >= start, NEW cal
    PROVE  WorkDone(start, d, cal) = Weight(start, cal) + WorkDone(start + 1, d, cal)
<1>. DEFINE Rest(w) == Weighing(w, start + 1, d, cal)
<1>1. \A w \in {1, 2} : /\ IsFiniteSet(Rest(w)) /\ Cardinality(Rest(w)) \in Nat
                        /\ start \notin Rest(w)
  <2>1. start + 1 \in Nat /\ d \in Int
    OBVIOUS
  <2>2. \A w : IsFiniteSet(Rest(w)) /\ Cardinality(Rest(w)) \in Nat
    BY <2>1, WeighingFinite
  <2>3. \A w : start \notin Rest(w)
    BY DEF Weighing
  <2>. QED
    BY <2>2, <2>3
<1>2. \A w \in {1, 2} : Weighing(w, start, d, cal)
                           = IF Weight(start, cal) = w THEN Rest(w) \cup {start} ELSE Rest(w)
  BY DEF Weighing
<1>3. \A w \in {1, 2} : Cardinality(Weighing(w, start, d, cal))
                           = Cardinality(Rest(w)) + IF Weight(start, cal) = w THEN 1 ELSE 0
  <2>. SUFFICES ASSUME NEW w \in {1, 2}
                PROVE  Cardinality(Weighing(w, start, d, cal))
                           = Cardinality(Rest(w)) + IF Weight(start, cal) = w THEN 1 ELSE 0
    OBVIOUS
  <2>1. Cardinality(Rest(w) \cup {start}) = Cardinality(Rest(w)) + 1
    <3>. HIDE DEF Rest
    <3>. QED
      BY <1>1, FS_AddElement
  <2>. HIDE DEF Rest
  <2>. QED
    BY <1>1, <1>2, <2>1
<1>4. Weight(start, cal) \in {0, 1, 2}
  BY WeightType
<1>. HIDE DEF Rest
<1>5. WorkDone(start + 1, d, cal) = 2 * Cardinality(Rest(2)) + Cardinality(Rest(1))
  BY DEF WorkDone, Rest
<1>. QED
  BY <1>1, <1>3, <1>4, <1>5 DEF WorkDone

\* Before the first day nothing is done.
LEMMA NoWork ==
    ASSUME NEW start \in Nat, NEW d \in Int, d < start, NEW cal
    PROVE  WorkDone(start, d, cal) = 0
<1>1. \A w : Weighing(w, start, d, cal) = {}
  BY DEF Weighing
<1>. QED
  BY <1>1, FS_EmptySet DEF WorkDone

\* A later day on which work is done adds to it.
LEMMA WorkGrows ==
    ASSUME NEW start \in Nat, NEW d \in Nat, NEW e \in Nat, d < e, start <= e, NEW cal,
           Weight(e, cal) = 2
    PROVE  WorkDone(start, e, cal) > WorkDone(start, d, cal)
<1>. DEFINE S(w, x) == Weighing(w, start, x, cal)
<1>1. \A w \in {1, 2} : S(w, d) \in SUBSET S(w, e)
  BY DEF Weighing
<1>2. \A w \in {1, 2}, x \in {d, e} : IsFiniteSet(S(w, x)) /\ Cardinality(S(w, x)) \in Nat
  BY WeighingFinite
<1>3. e \in S(2, e) /\ e \notin S(2, d)
  BY DEF Weighing
<1>. HIDE DEF S
<1>4. /\ Cardinality(S(1, d)) <= Cardinality(S(1, e))
      /\ Cardinality(S(2, d)) <= Cardinality(S(2, e))
      /\ Cardinality(S(2, d)) # Cardinality(S(2, e))
  BY <1>1, <1>2, <1>3, FS_Subset
<1>5. \A x \in {d, e} : WorkDone(start, x, cal) = 2 * Cardinality(S(2, x)) + Cardinality(S(1, x))
  BY DEF WorkDone, S
<1>. QED
  BY <1>2, <1>4, <1>5

\* Where two calendars agree the same work is done.
LEMMA SameWork ==
    ASSUME NEW start \in Nat, NEW d \in Int, NEW a, NEW b,
           \A e \in start..d : Weight(e, a) = Weight(e, b)
    PROVE  WorkDone(start, d, a) = WorkDone(start, d, b)
<1>1. \A w : Weighing(w, start, d, a) = Weighing(w, start, d, b)
  BY DEF Weighing
<1>. QED
  BY <1>1 DEF WorkDone

(***************************************************************************)
(* The first day on which enough is done                                   *)
(***************************************************************************)
IsFirst(e, start, r, cal) ==
    /\ e \in Nat /\ e >= start
    /\ WorkDone(start, e, cal) >= r
    /\ \A x \in start..(e - 1) : WorkDone(start, x, cal) < r

\* A calendar whose entries end somewhere.
Ends(cal) == \E last \in Nat : \A d \in Nat : d \in DOMAIN cal => d <= last

LEMMA FirstIsOne ==
    ASSUME NEW start \in Nat, NEW r \in Nat, NEW cal, NEW d, NEW e,
           IsFirst(d, start, r, cal), IsFirst(e, start, r, cal)
    PROVE  d = e
<1>1. WorkDone(start, d, cal) \in Nat /\ WorkDone(start, e, cal) \in Nat
  BY WorkType DEF IsFirst
<1>. QED
  BY <1>1 DEF IsFirst

\* After the last entry, every Monday has a whole day of work: any amount gets done.
LEMMA WorkIsUnbounded ==
    ASSUME NEW start \in Nat, NEW cal, Ends(cal), NEW r \in Nat
    PROVE  \E e \in Nat : e >= start /\ WorkDone(start, e, cal) >= r
<1>. DEFINE Never == {k \in Nat : \A e \in Nat : e >= start => WorkDone(start, e, cal) < k}
<1>1. \A e \in Nat : WorkDone(start, e, cal) \in Nat
  BY WorkType
<1>2. SUFFICES ASSUME Never # {} PROVE FALSE
  BY <1>1
<1>3. PICK k \in Never : \A j \in Never : k <= j
  BY <1>2, Least
<1>4. k # 0
  BY <1>1, <1>3
<1>5. PICK d \in Nat : d >= start /\ WorkDone(start, d, cal) >= k - 1
  <2>1. k - 1 \in Nat /\ k - 1 \notin Never
    BY <1>3, <1>4
  <2>. QED
    BY <1>1, <2>1
<1>6. PICK last \in Nat : \A x \in Nat : x \in DOMAIN cal => x <= last
  BY DEF Ends
<1>. DEFINE monday == 7 * (last + d + 1) + 1
<1>7. /\ monday \in Nat /\ monday > d /\ monday > last /\ monday >= start
      /\ monday % 7 = 1
  BY <1>5, <1>6
<1>. HIDE DEF monday
<1>8. Weight(monday, cal) = 2
  BY <1>6, <1>7 DEF Weight, Weekend
<1>9. WorkDone(start, monday, cal) > WorkDone(start, d, cal)
  BY <1>7, <1>8, WorkGrows
<1>10. k \in Nat /\ WorkDone(start, monday, cal) < k
  BY <1>3, <1>7
<1>. QED
  BY <1>1, <1>5, <1>7, <1>9, <1>10

LEMMA FirstExists ==
    ASSUME NEW start \in Nat, NEW cal, Ends(cal), NEW r \in Nat
    PROVE  \E e : IsFirst(e, start, r, cal)
<1>. DEFINE Enough == {e \in Nat : e >= start /\ WorkDone(start, e, cal) >= r}
<1>1. Enough # {}
  BY WorkIsUnbounded
<1>2. PICK e \in Enough : \A x \in Enough : e <= x
  BY <1>1, Least
<1>3. \A x \in Nat : WorkDone(start, x, cal) \in Nat
  BY WorkType
<1>4. ASSUME NEW x \in start..(e - 1)
      PROVE  WorkDone(start, x, cal) < r
  BY <1>2, <1>3
<1>. QED
  BY <1>2, <1>4 DEF IsFirst

\* A first day is the day itself, if that is work enough, or the first after it.
LEMMA FirstSteps ==
    ASSUME NEW start \in Nat, NEW r \in Nat, NEW cal
    PROVE  /\ r <= Weight(start, cal) => IsFirst(start, start, r, cal)
           /\ \A e : r > Weight(start, cal) /\ IsFirst(e, start + 1, r - Weight(start, cal), cal)
                       => e > start /\ IsFirst(e, start, r, cal)
<1>. DEFINE W == Weight(start, cal)
            Done(x) == WorkDone(start, x, cal)
            Later(x) == WorkDone(start + 1, x, cal)
<1>1. /\ W \in Nat /\ Done(start) = W
      /\ \A x \in Nat : Done(x) \in Nat /\ Later(x) \in Nat
      /\ \A x \in Nat : x >= start => Done(x) = W + Later(x)
  <2>1. \A x \in Nat : Done(x) \in Nat /\ Later(x) \in Nat
    BY WorkType
  <2>2. \A x \in Nat : x >= start => Done(x) = W + Later(x)
    BY WorkSplits
  <2>3. Later(start) = 0
    BY NoWork
  <2>4. W \in Nat
    BY WeightType
  <2>. HIDE DEF W, Done, Later
  <2>. QED
    BY <2>1, <2>2, <2>3, <2>4
<1>2. ASSUME r <= W
      PROVE  IsFirst(start, start, r, cal)
  <2>1. start..(start - 1) = {}
    OBVIOUS
  <2>2. Done(start) >= r
    <3>. HIDE DEF W, Done
    <3>. QED
      BY <1>1, <1>2
  <2>. QED
    BY <2>1, <2>2 DEF IsFirst
<1>3. ASSUME NEW e, r > W, IsFirst(e, start + 1, r - W, cal)
      PROVE  e > start /\ IsFirst(e, start, r, cal)
  <2>1. /\ e \in Nat /\ e >= start + 1 /\ Later(e) >= r - W
        /\ \A x \in (start + 1)..(e - 1) : Later(x) < r - W
    BY <1>3 DEF IsFirst
  <2>2. Done(e) >= r
    <3>. HIDE DEF W, Done, Later
    <3>. QED
      BY <1>1, <2>1
  <2>3. ASSUME NEW x \in start..(e - 1)
        PROVE  Done(x) < r
    <3>. HIDE DEF W, Done, Later
    <3>1. CASE x = start
      BY <1>1, <1>3, <3>1
    <3>2. CASE x # start
      <4>1. x \in (start + 1)..(e - 1) /\ x \in Nat /\ x >= start
        BY <2>1, <3>2
      <4>. QED
        BY <1>1, <2>1, <4>1
    <3>. QED
      BY <3>1, <3>2
  <2>. QED
    BY <2>1, <2>2, <2>3 DEF IsFirst
<1>. QED
  BY <1>2, <1>3

(***************************************************************************)
(* The loop                                                                *)
(***************************************************************************)
\* What the recursive function of Walk satisfies.
Loops(walk, lookup) ==
    walk = [p \in Nat \X Nat |->
               LET d == p[1]
                   left == p[2] - Weight(d, lookup)
               IN  IF left <= 0 THEN d ELSE walk[<<d + 1, left>>]]

\* There is such a function: the one that returns first days.
LEMMA LoopExists ==
    ASSUME NEW lookup, Ends(lookup)
    PROVE  \E walk : Loops(walk, lookup)
<1>. DEFINE First(d, r) == CHOOSE e : IsFirst(e, d, r, lookup)
            g == [p \in Nat \X Nat |-> First(p[1], p[2])]
<1>1. \A d \in Nat, r \in Nat : IsFirst(First(d, r), d, r, lookup)
  BY FirstExists
<1>2. ASSUME NEW d \in Nat, NEW r \in Nat
      PROVE  First(d, r) = IF r - Weight(d, lookup) <= 0 THEN d
                           ELSE g[<<d + 1, r - Weight(d, lookup)>>]
  <2>1. Weight(d, lookup) \in Nat
    BY WeightType
  <2>2. CASE r - Weight(d, lookup) <= 0
    <3>1. IsFirst(d, d, r, lookup)
      BY <2>1, <2>2, FirstSteps
    <3>. QED
      BY <1>1, <2>2, <3>1, FirstIsOne
  <2>3. CASE ~ (r - Weight(d, lookup) <= 0)
    <3>. DEFINE left == r - Weight(d, lookup)
    <3>1. d + 1 \in Nat /\ left \in Nat /\ r > Weight(d, lookup)
      BY <2>1, <2>3
    <3>2. IsFirst(First(d + 1, left), d, r, lookup)
      <4>1. IsFirst(First(d + 1, left), d + 1, left, lookup)
        BY <1>1, <3>1
      <4>. HIDE DEF First
      <4>. QED
        BY <3>1, <4>1, FirstSteps
    <3>3. First(d, r) = First(d + 1, left)
      BY <1>1, <3>2, FirstIsOne
    <3>4. g[<<d + 1, left>>] = First(d + 1, left)
      BY <3>1
    <3>. QED
      BY <2>3, <3>3, <3>4
  <2>. QED
    BY <2>2, <2>3
<1>3. Loops(g, lookup)
  <2>. HIDE DEF First
  <2>1. \A p \in Nat \X Nat : p[1] \in Nat /\ p[2] \in Nat /\ g[p] = First(p[1], p[2])
    OBVIOUS
  <2>2. \A p \in Nat \X Nat :
           First(p[1], p[2]) = LET d == p[1]
                                   left == p[2] - Weight(d, lookup)
                               IN  IF left <= 0 THEN d ELSE g[<<d + 1, left>>]
    <3>. HIDE DEF g
    <3>. QED
      BY <1>2, <2>1
  <2>. QED
    BY <2>2 DEF Loops
<1>. QED
  BY <1>3

\* The loop returns the first day on which enough is done. Otherwise there would be a
\* counterexample with the least number of days to go; it is not the last day, and the
\* next day, with what is left, would be another.
LEMMA WalkIsFirst ==
    ASSUME NEW lookup, Ends(lookup), NEW start \in Nat, NEW remaining \in Nat
    PROVE  IsFirst(Walk(start, remaining, lookup), start, remaining, lookup)
<1>. DEFINE walk == CHOOSE w : Loops(w, lookup)
<1>1. Walk(start, remaining, lookup) = walk[<<start, remaining>>]
  BY DEF Walk, Loops
<1>2. Loops(walk, lookup)
  BY LoopExists
<1>. HIDE DEF walk
<1>3. \A d \in Nat, r \in Nat :
         walk[<<d, r>>] = IF r - Weight(d, lookup) <= 0 THEN d
                          ELSE walk[<<d + 1, r - Weight(d, lookup)>>]
  BY <1>2 DEF Loops
<1>. DEFINE Wrong == {k \in Nat : \E d, r \in Nat :
                         IsFirst(d + k, d, r, lookup) /\ walk[<<d, r>>] # d + k}
<1>4. Wrong = {}
  <2>1. SUFFICES ASSUME Wrong # {} PROVE FALSE
    OBVIOUS
  <2>2. PICK k \in Wrong : \A j \in Wrong : k <= j
    BY <2>1, Least
  <2>3. PICK d \in Nat, r \in Nat : IsFirst(d + k, d, r, lookup) /\ walk[<<d, r>>] # d + k
    BY <2>2
  <2>4. Weight(d, lookup) \in Nat
    BY WeightType
  <2>5. CASE r - Weight(d, lookup) <= 0
    <3>1. IsFirst(d, d, r, lookup)
      BY <2>4, <2>5, FirstSteps
    <3>2. d + k = d
      BY <2>3, <3>1, FirstIsOne
    <3>. QED
      BY <1>3, <2>3, <2>5, <3>2
  <2>6. CASE ~ (r - Weight(d, lookup) <= 0)
    <3>. DEFINE left == r - Weight(d, lookup)
    <3>1. d + 1 \in Nat /\ left \in Nat /\ r > Weight(d, lookup)
      BY <2>4, <2>6
    <3>2. PICK e : IsFirst(e, d + 1, left, lookup)
      BY <3>1, FirstExists
    <3>3. e > d /\ IsFirst(e, d, r, lookup)
      BY <3>1, <3>2, FirstSteps
    <3>4. e = d + k
      BY <2>3, <3>3, FirstIsOne
    <3>5. k \in Nat /\ k - 1 \in Nat /\ (d + 1) + (k - 1) = e
      BY <2>2, <3>3, <3>4
    <3>6. walk[<<d + 1, left>>] # e
      BY <1>3, <2>3, <2>6, <3>4
    <3>7. k - 1 \in Wrong
      BY <3>1, <3>2, <3>5, <3>6
    <3>8. k <= k - 1
      <4>. HIDE DEF Wrong
      <4>. QED
        BY <2>2, <3>7
    <3>. QED
      BY <3>5, <3>8
  <2>. QED
    BY <2>5, <2>6
<1>5. PICK e : IsFirst(e, start, remaining, lookup)
  BY FirstExists
<1>6. walk[<<start, remaining>>] = e
  <2>1. e - start \in Nat /\ start + (e - start) = e
    BY <1>5 DEF IsFirst
  <2>2. e - start \notin Wrong
    BY <1>4
  <2>. QED
    BY <1>5, <2>1, <2>2
<1>. QED
  BY <1>1, <1>5, <1>6

(***************************************************************************)
(* Due days                                                                *)
(***************************************************************************)
\* What is read is the calendar as far as the span, and nothing beyond it.
LEMMA LookupWeight ==
    ASSUME NEW start \in Nat, NEW n \in Nat, NEW cal, NEW d \in Nat, d >= start,
           d <= start + Span(n) \/ d \notin DOMAIN cal
    PROVE  Weight(d, Lookup(start, n, cal)) = Weight(d, cal)
<1>1. Span(n) \in Nat
  BY DEF Span
<1>2. /\ DOMAIN Lookup(start, n, cal) = DOMAIN cal \cap start..(start + Span(n))
      /\ \A x \in DOMAIN Lookup(start, n, cal) : Lookup(start, n, cal)[x] = cal[x]
  BY DEF Lookup, Restrict
<1>3. d \in DOMAIN Lookup(start, n, cal) <=> d \in DOMAIN cal
  BY <1>1, <1>2
<1>. QED
  BY <1>2, <1>3 DEF Weight

LEMMA LookupEnds ==
    ASSUME NEW start \in Nat, NEW n \in Nat, NEW cal
    PROVE  Ends(Lookup(start, n, cal))
<1>1. start + Span(n) \in Nat
  BY DEF Span
<1>2. DOMAIN Lookup(start, n, cal) \subseteq start..(start + Span(n))
  BY DEF Lookup, Restrict
<1>3. \A d \in Nat : d \in DOMAIN Lookup(start, n, cal) => d <= start + Span(n)
  BY <1>1, <1>2
<1>. QED
  BY <1>1, <1>3 DEF Ends

\* The due day is the first day by whose end the business days have passed in the whole
\* calendar, if the span covers the entries (computeDueAt, addBusinessDays).
THEOREM DueDayIsNth ==
    ASSUME NEW start \in Nat, NEW n \in Nat, NEW cal, NEW days,
           DOMAIN cal \subseteq days, days \subseteq Nat, Covers(days, start, n)
    PROVE  /\ DueDay(start, n, cal) \in Nat
           /\ IsNthBusinessDay(DueDay(start, n, cal), start, n, cal)
<1>. DEFINE due == DueDay(start, n, cal)
            lookup == Lookup(start, n, cal)
            end == start + Span(n)
<1>1. end \in Nat /\ end >= start
  BY DEF Span
<1>2. CASE n = 0
  <2>1. due = start
    BY <1>2 DEF DueDay
  <2>2. WorkDone(start, start, cal) \in Nat
    BY WorkType
  <2>. QED
    BY <1>2, <2>1, <2>2 DEF IsNthBusinessDay
<1>3. CASE n # 0
  <2>1. IsFirst(due, start, 2 * n, lookup)
    <3>1. due = Walk(start, 2 * n, lookup)
      BY <1>3 DEF DueDay
    <3>. HIDE DEF lookup, due
    <3>. QED
      BY <3>1, LookupEnds, WalkIsFirst DEF lookup
  <2>. HIDE DEF due, lookup
  <2>2. due \in Nat /\ due >= start
    BY <2>1 DEF IsFirst
  <2>3. \A d \in start..due : Weight(d, lookup) = Weight(d, cal)
    <3>. SUFFICES ASSUME NEW d \in start..due
                  PROVE  d <= end \/ d \notin DOMAIN cal
      BY <1>1, <2>2, LookupWeight DEF lookup
    <3>1. CASE \A d_1 \in days : d_1 <= start + Span(n)
      BY <3>1
    <3>2. CASE Cardinality({x \in start..(start + Span(n)) : ~Weekend(x)} \ days) >= n
      <4>. DEFINE free == {x \in start..(start + Span(n)) : ~Weekend(x)} \ days
      <4>1. free \in SUBSET Weighing(2, start, end, lookup)
        <5>. SUFFICES ASSUME NEW x \in free
                      PROVE  x \in Weighing(2, start, end, lookup)
          OBVIOUS
        <5>1. x \in start..end /\ x \in Nat /\ x >= start /\ x \notin DOMAIN cal /\ ~Weekend(x)
          BY <1>1
        <5>2. Weight(x, lookup) = Weight(x, cal)
          BY <5>1, LookupWeight DEF lookup
        <5>3. Weight(x, cal) = 2
          BY <5>1 DEF Weight
        <5>. QED
          BY <5>1, <5>2, <5>3 DEF Weighing
      <4>2. /\ IsFiniteSet(Weighing(2, start, end, lookup))
            /\ Cardinality(Weighing(2, start, end, lookup)) \in Nat
            /\ Cardinality(Weighing(1, start, end, lookup)) \in Nat
        BY <1>1, WeighingFinite
      <4>3. Cardinality(free) <= Cardinality(Weighing(2, start, end, lookup))
        <5>. HIDE DEF free
        <5>. QED
          BY <4>1, <4>2, FS_Subset
      <4>4. Cardinality(free) \in Nat
        <5>. HIDE DEF free
        <5>. QED
          BY <4>1, <4>2, FS_Subset, FS_CardinalityType
      <4>5. WorkDone(start, end, lookup) >= 2 * n
        <5>1. Cardinality(free) >= n
          BY <3>2
        <5>. HIDE DEF free, end
        <5>. QED
          BY <4>2, <4>3, <4>4, <5>1 DEF WorkDone
      <4>6. WorkDone(start, end, lookup) \in Nat
        BY <1>1, WorkType
      <4>7. due <= end
        <5>1. SUFFICES ASSUME end <= due - 1 PROVE FALSE
          BY <1>1, <2>2
        <5>2. WorkDone(start, end, lookup) < 2 * n
          BY <1>1, <2>1, <2>2, <5>1 DEF IsFirst
        <5>. QED
          BY <4>5, <4>6, <5>2
      <4>. QED
        BY <1>1, <2>2, <4>7
    <3>. QED
      BY <3>1, <3>2 DEF Covers
  <2>4. WorkDone(start, due, lookup) = WorkDone(start, due, cal)
    BY <2>2, <2>3, SameWork
  <2>5. WorkDone(start, due - 1, lookup) = WorkDone(start, due - 1, cal)
    BY <2>2, <2>3, SameWork
  <2>6. WorkDone(start, due, lookup) >= 2 * n
    BY <2>1 DEF IsFirst
  <2>7. due > start => WorkDone(start, due - 1, lookup) < 2 * n
    BY <2>1, <2>2 DEF IsFirst
  <2>8. IsNthBusinessDay(due, start, n, cal)
    BY <2>4, <2>5, <2>6, <2>7 DEF IsNthBusinessDay
  <2>. QED
    BY <2>2, <2>8 DEF due
<1>. QED
  BY <1>2, <1>3

(***************************************************************************)
(* Tasks and runs                                                          *)
(***************************************************************************)
\* The entries are those of one of the first calendars or were made later.
EntriesKnown == \E c \in Calendars : DOMAIN calendar \subseteq EditDays \cup DOMAIN c

LEMMA DueAtIsRight ==
    ASSUME SlaTypeOK, EntriesKnown, NEW p \in Policies
    PROVE  /\ DueAt(p) \in Nat
           /\ p.unit = "BUSINESS_DAYS" => IsNthBusinessDay(DueAt(p), day, p.duration, calendar)
<1>1. day \in Nat /\ day \in 0..LastDay /\ p.duration \in Nat
      /\ p.unit \in {"BUSINESS_DAYS", "CALENDAR_HOURS"}
  BY ConstantsAssumption, PoliciesAssumption DEF SlaTypeOK
<1>2. CASE p.unit = "CALENDAR_HOURS"
  BY <1>1, <1>2 DEF DueAt
<1>3. CASE p.unit = "BUSINESS_DAYS"
  <2>1. PICK c \in Calendars : DOMAIN calendar \subseteq EditDays \cup DOMAIN c
    BY DEF EntriesKnown
  <2>2. Covers(EditDays \cup DOMAIN c, day, p.duration)
    BY <1>1, <1>3, SpanAssumption
  <2>3. EditDays \cup DOMAIN c \subseteq Nat
    BY ConstantsAssumption
  <2>4. DueAt(p) = DueDay(day, p.duration, calendar)
    BY <1>3 DEF DueAt
  <2>. QED
    BY <1>1, <2>1, <2>2, <2>3, <2>4, DueDayIsNth
<1>. QED
  BY <1>1, <1>2, <1>3

LEMMA SlaTypeStep ==
    ASSUME SlaTypeOK, EntriesKnown, [SlaNext]_slaVars
    PROVE  SlaTypeOK' /\ EntriesKnown'
<1>. USE DEF SlaTypeOK, EntriesKnown
<1>1. CASE UNCHANGED slaVars
  BY <1>1 DEF slaVars
<1>2. ASSUME NEW t \in Tasks, CreateTask(t)
      PROVE  SlaTypeOK' /\ EntriesKnown'
  <2>1. PICK p \in Policies : tasks' = [tasks EXCEPT ![t] =
          [status |-> "open", created |-> day, due |-> DueAt(p), policy |-> p]]
    BY <1>2 DEF CreateTask
  <2>2. DueAt(p) \in Nat
    BY DueAtIsRight
  <2>3. [status |-> "open", created |-> day, due |-> DueAt(p), policy |-> p] \in Task
    BY <2>2 DEF Task
  <2>. QED
    BY <1>2, <2>1, <2>3 DEF CreateTask
<1>3. ASSUME NEW t \in Tasks, CloseTask(t)
      PROVE  SlaTypeOK' /\ EntriesKnown'
  BY <1>3 DEF CloseTask, Task
<1>4. ASSUME NEW d \in EditDays, DeleteEntry(d)
      PROVE  SlaTypeOK' /\ EntriesKnown'
  <2>1. /\ DOMAIN calendar' \subseteq DOMAIN calendar
        /\ \A e \in DOMAIN calendar' : calendar'[e] = calendar[e]
    BY <1>4 DEF DeleteEntry, Restrict
  <2>2. \A e \in DOMAIN calendar' : e \in Nat /\ calendar'[e] \in EntryTypes
    BY <2>1
  <2>3. EntriesKnown'
    BY <2>1
  <2>4. /\ edits' \in 0..MaxEdits
        /\ UNCHANGED <<day, tasks, holders, told, runs, faults>>
    BY <1>4, ConstantsAssumption DEF DeleteEntry, EditCalendar
  <2>. QED
    BY <2>2, <2>3, <2>4
<1>5. ASSUME NEW d \in EditDays, NEW type \in EntryTypes, CreateEntry(d, type)
      PROVE  SlaTypeOK' /\ EntriesKnown'
  <2>1. /\ DOMAIN calendar' = DOMAIN calendar \cup {d}
        /\ \A e \in DOMAIN calendar' : calendar'[e] = IF e = d THEN type ELSE calendar[e]
    BY <1>5 DEF CreateEntry
  <2>. QED
    BY <1>5, <2>1, ConstantsAssumption DEF CreateEntry, EditCalendar
<1>6. CASE NextDay
  BY <1>6, ConstantsAssumption DEF NextDay
<1>7. ASSUME NEW u \in Users, SwitchUser(u)
      PROVE  SlaTypeOK' /\ EntriesKnown'
  BY <1>7 DEF SwitchUser
<1>8. ASSUME NEW r \in Runs, StartRun(r)
      PROVE  SlaTypeOK' /\ EntriesKnown'
  <2>1. Notices \in SUBSET (Tasks \X Kinds)
    BY DEF Notices, Open, Kinds
  <2>. QED
    BY <1>8, <2>1 DEF StartRun
<1>9. ASSUME NEW r \in Runs, NEW t \in Tasks, NEW kind \in Kinds, PassOver(r, t, kind)
      PROVE  SlaTypeOK' /\ EntriesKnown'
  BY <1>9 DEF PassOver
<1>10. ASSUME NEW r \in Runs, NEW t \in Tasks, NEW kind \in Kinds, Look(r, t, kind)
       PROVE  SlaTypeOK' /\ EntriesKnown'
  <2>1. Recipients(t) \subseteq Users
    BY ConstantsAssumption DEF Recipients
  <2>2. {<<t, kind, u>> : u \in Recipients(t)} \in SUBSET Events
    BY <2>1 DEF Events
  <2>. QED
    BY <1>10, <2>2 DEF Look
<1>11. ASSUME NEW r \in Runs, Tell(r)
       PROVE  SlaTypeOK' /\ EntriesKnown'
  BY <1>11 DEF Tell
<1>12. ASSUME NEW r \in Runs, Collide(r) \/ RunFails(r)
       PROVE  SlaTypeOK' /\ EntriesKnown'
  BY <1>12, ConstantsAssumption DEF Collide, RunFails, Abort, IdleRun
<1>. QED
  BY <1>1, <1>2, <1>3, <1>4, <1>5, <1>6, <1>7, <1>8, <1>9, <1>10, <1>11, <1>12
     DEF SlaNext, Serve

LEMMA SlaTypeInit == SlaInit => SlaTypeOK /\ EntriesKnown
<1>. SUFFICES ASSUME SlaInit PROVE SlaTypeOK /\ EntriesKnown
  OBVIOUS
<1>1. NoTask \in Task /\ 0 \in 0..LastDay /\ 0 \in 0..MaxEdits /\ 0 \in 0..MaxFaults
  BY ConstantsAssumption DEF NoTask, Task
<1>2. IdleRun \in [todo : SUBSET (Tasks \X Kinds), keys : SUBSET Events]
  BY DEF IdleRun
<1>. QED
  BY <1>1, <1>2, ConstantsAssumption DEF SlaInit, SlaTypeOK, EntriesKnown

\* Tasks, the calendar, the events and the runs have their types; a due date is a day.
THEOREM SlaTypes == SlaSpec => []SlaTypeOK
<1>. QED
  BY SlaTypeInit, SlaTypeStep, PTL DEF SlaSpec

\* A task is due on the first day by whose end the business days of its policy have
\* passed in the calendar of its creation, for every set of policies, calendars and
\* days of entries that the spans of the policies cover (calculateDueAt).
THEOREM DueDatesCount == SlaSpec => DueAfterBusinessDays
<1>. DEFINE Right(t) == tasks'[t] # tasks[t] /\ tasks'[t].status = "open"
                         /\ tasks'[t].policy.unit = "BUSINESS_DAYS" =>
          IsNthBusinessDay(tasks'[t].due, tasks'[t].created, tasks'[t].policy.duration, calendar)
<1>1. SlaTypeOK /\ EntriesKnown /\ [SlaNext]_slaVars => [\A t \in Tasks : Right(t)]_slaVars
  <2>. SUFFICES ASSUME SlaTypeOK, EntriesKnown, SlaNext, NEW t \in Tasks
                PROVE  Right(t)
    OBVIOUS
  <2>1. ASSUME NEW s \in Tasks, CreateTask(s)
        PROVE  Right(t)
    <3>1. PICK p \in Policies : tasks' = [tasks EXCEPT ![s] =
            [status |-> "open", created |-> day, due |-> DueAt(p), policy |-> p]]
      BY <2>1 DEF CreateTask
    <3>2. p.unit = "BUSINESS_DAYS" => IsNthBusinessDay(DueAt(p), day, p.duration, calendar)
      BY DueAtIsRight
    <3>3. CASE s = t
      <4>1. tasks'[t] = [status |-> "open", created |-> day, due |-> DueAt(p), policy |-> p]
        BY <3>1, <3>3 DEF SlaTypeOK
      <4>. QED
        BY <3>2, <4>1
    <3>4. CASE s # t
      BY <3>1, <3>4 DEF SlaTypeOK
    <3>. QED
      BY <3>3, <3>4
  <2>2. ASSUME NEW s \in Tasks, CloseTask(s)
        PROVE  Right(t)
    <3>1. CASE s = t
      <4>1. tasks'[t].status = "done"
        BY <2>2, <3>1 DEF CloseTask, SlaTypeOK, Task
      <4>. QED
        BY <4>1
    <3>2. CASE s # t
      BY <2>2, <3>2 DEF CloseTask, SlaTypeOK
    <3>. QED
      BY <3>1, <3>2
  <2>3. CASE UNCHANGED tasks
    BY <2>3
  <2>. QED
    BY <2>1, <2>2, <2>3 DEF SlaNext, Serve, DeleteEntry, CreateEntry, EditCalendar, NextDay,
       SwitchUser, StartRun, Tell, Collide, PassOver, Look, RunFails, Abort
<1>. QED
  BY <1>1, SlaTypeInit, SlaTypeStep, PTL DEF SlaSpec, DueAfterBusinessDays

================================================================================
