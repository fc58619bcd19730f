------------------------- MODULE QuietPeriodsProofs -------------------------
(***************************************************************************)
(* Theorems about QuietPeriods, for every day length, every change of the  *)
(* clock that is shorter than a day, any periods, payloads and moments,    *)
(* and every cap.                                                          *)
(***************************************************************************)
EXTENDS QuietPeriods, FiniteSetTheorems, WellFoundedInduction, TLAPS

-----------------------------------------------------------------------------
(* Numbers *)

\* A relation that orders the naturals is well-founded ...
LEMMA LessRelation ==
    \E R : IsWellFoundedOn(R, Nat) /\ \A x, y \in Nat : y < x => <<y, x>> \in R
<1> DEFINE R == OpToRel(<, Nat)
<1>1. \A x, y \in Nat : y < x => <<y, x>> \in R  BY Zenon DEF OpToRel
<1>2. IsWellFoundedOn(R, Nat)  BY NatLessThanWellFounded
<1> HIDE DEF R
<1> QED  BY <1>1, <1>2

\* ... so that a set of them has a least element, ...
LEMMA Least ==
    ASSUME NEW T \in SUBSET Nat, T # {}
    PROVE  \E x \in T : \A y \in T : x <= y
<1>1. PICK R : IsWellFoundedOn(R, Nat) /\ \A x, y \in Nat : y < x => <<y, x>> \in R
  BY LessRelation
<1>2. PICK x \in T : \A y \in T : ~(<<y, x>> \in R)  BY <1>1, WFMin
<1>3. ASSUME NEW y \in T PROVE x <= y
  <2>1. x \in Nat /\ y \in Nat /\ ~(y < x)  BY <1>1, <1>2
  <2> QED  BY <2>1
<1> QED  BY <1>3

\* ... and a finite set of integers a greatest: the one with the fewest above it.
LEMMA Greatest ==
    ASSUME NEW S, IsFiniteSet(S), S # {}, S \subseteq Int
    PROVE  \E x \in S : \A y \in S : x >= y
<1> DEFINE Above(x) == {y \in S : y > x}
           C == {Cardinality(Above(x)) : x \in S}
<1>1. \A x \in S : IsFiniteSet(Above(x)) /\ Cardinality(Above(x)) \in Nat
  BY FS_Subset, FS_CardinalityType
<1>2. C \in SUBSET Nat /\ C # {}  BY <1>1
<1>3. PICK n \in C : \A m \in C : n <= m
  <2> HIDE DEF C
  <2> QED  BY <1>2, Least
<1>4. PICK x \in S : n = Cardinality(Above(x))  OBVIOUS
<1>5. ASSUME NEW y \in S, y > x PROVE FALSE
  <2>1. x \in Int /\ y \in Int /\ \A z \in S : z \in Int  OBVIOUS
  <2>2. Above(y) \subseteq Above(x) /\ y \in Above(x) /\ y \notin Above(y)
    <3>1. y > x  BY <1>5
    <3>2. \A z \in S : z > y => z > x  BY <2>1, <3>1
    <3>3. ~(y > y)  BY <2>1
    <3> QED  BY <3>1, <3>2, <3>3
  <2>3. /\ Cardinality(Above(y)) <= Cardinality(Above(x))
        /\ Cardinality(Above(y)) = Cardinality(Above(x)) => Above(y) = Above(x)
    BY <1>1, <2>2, FS_Subset
  <2>4. Cardinality(Above(y)) \in C  OBVIOUS
  <2>5. n <= Cardinality(Above(y))  BY <1>3, <2>4
  <2> HIDE DEF Above
  <2> QED  BY <1>1, <1>4, <2>2, <2>3, <2>5
<1> QED  BY <1>5

\* Days and hours.
LEMMA DayAndTime ==
    ASSUME NEW l \in Int
    PROVE  /\ l \div Day \in Int /\ l % Day \in 0 .. Day - 1
           /\ (l \div Day) * Day \in Int
           /\ l = (l \div Day) * Day + (l % Day)
           /\ Midnight(l) = (l \div Day) * Day
BY TimeAssumption DEF Midnight

LEMMA Days ==
    ASSUME NEW a \in Int, NEW b \in Int
    PROVE  /\ a * Day \in Int
           /\ a < b => a * Day + Day <= b * Day
           /\ (a - 1) * Day = a * Day - Day
BY TimeAssumption

LEMMA DayBefore ==
    ASSUME NEW d \in Int
    PROVE  ((d % 7) - 1) % 7 = (d - 1) % 7
OBVIOUS

-----------------------------------------------------------------------------
(* The wall clock *)

\* What a clock change is.
Clock ==
    /\ turn.at \in Nat /\ turn.by \in Int /\ Shift \in Nat /\ Shift < Day
    /\ turn.by \in {-Shift, 0, Shift}

LEMMA ClockType == turn \in Turns => Clock
BY TimeAssumption DEF Clock

LEMMA LocalTypes ==
    ASSUME Clock, NEW t \in Int
    PROVE  Localtime(t) \in Int /\ BuildLocalDatetime(t) \in Int
BY DEF Clock, Localtime, BuildLocalDatetime

\* A stretch of the wall clock from a to b, the local time of s in it: from s to
\* the moment of b, only the change itself leaves the stretch.
LEMMA Stretch ==
    ASSUME Clock, NEW a \in Int, NEW b \in Int, NEW s \in Nat, NEW t \in Int,
           a <= Localtime(s), Localtime(s) < b, s <= t, t < BuildLocalDatetime(b)
    PROVE  NearTurn(t) \/ (a <= Localtime(t) /\ Localtime(t) < b)
<1>1. /\ turn.at \in Int /\ turn.by \in Int /\ Shift \in Nat
      /\ turn.by = -Shift \/ turn.by = 0 \/ turn.by = Shift
  BY DEF Clock
<1> QED  BY <1>1 DEF Localtime, BuildLocalDatetime, NearTurn

\* The moment of b comes after s, except where the clock is put back.
LEMMA StretchEnds ==
    ASSUME Clock, NEW b \in Int, NEW s \in Nat, Localtime(s) < b,
           ~(turn.by < 0 /\ NearTurn(s))
    PROVE  s < BuildLocalDatetime(b)
<1>1. /\ turn.at \in Int /\ turn.by \in Int /\ Shift \in Nat
      /\ turn.by = -Shift \/ turn.by = 0 \/ turn.by = Shift
  BY DEF Clock
<1> QED  BY <1>1 DEF Localtime, BuildLocalDatetime, NearTurn

-----------------------------------------------------------------------------
(* Rows *)

LEMMA PeriodFields ==
    ASSUME NEW q \in Period
    PROVE  /\ q.type \in {"ONCE", "RECURRING"} /\ q.is_active \in BOOLEAN
           /\ q.start_at \in Nat \cup {None} /\ q.end_at \in Nat \cup {None}
           /\ q.days \in SUBSET (0 .. 6)
           /\ q.start_time \in (0 .. Day - 1) \cup {None}
           /\ q.end_time \in (0 .. Day - 1) \cup {None}
BY DEF Period, Types, OptNat, Times

LEMMA OnceFields ==
    ASSUME NEW q \in Period, Validates(q), q.type = "ONCE"
    PROVE  q.start_at \in Nat /\ q.end_at \in Nat
BY PeriodFields DEF Validates

LEMMA RecurringFields ==
    ASSUME NEW q \in Period, Validates(q), q.type # "ONCE"
    PROVE  /\ q.type = "RECURRING"
           /\ q.start_time \in 0 .. Day - 1 /\ q.end_time \in 0 .. Day - 1
BY PeriodFields DEF Validates

\* The window of a recurring period that opens on day d.
Opens(q, d) == d * Day + q.start_time
Closes(q, d) == d * Day + q.end_time + (IF q.end_time <= q.start_time THEN Day ELSE 0)
InWindow(q, d, l) == d % 7 \in q.days /\ Opens(q, d) <= l /\ l < Closes(q, d)

LEMMA WindowTypes ==
    ASSUME NEW q \in Period, Validates(q), q.type # "ONCE", NEW d \in Int
    PROVE  /\ Opens(q, d) \in Int /\ Closes(q, d) \in Int
           /\ d * Day \in Int /\ d * Day <= Opens(q, d) /\ Closes(q, d) < d * Day + Day + Day
           /\ q.end_time \in Int /\ q.start_time \in Int /\ Day \in Int
<1>1. d * Day \in Int  BY Days
<1>2. /\ q.start_time \in Int /\ q.end_time \in Int /\ 0 <= q.start_time
      /\ q.end_time < Day /\ Day \in Int
  BY RecurringFields, TimeAssumption
<1> DEFINE m == d * Day
<1> HIDE DEF m
<1>3. m \in Int  BY <1>1 DEF m
<1>4. /\ m + q.start_time \in Int /\ m <= m + q.start_time
      /\ m + q.end_time + (IF q.end_time <= q.start_time THEN Day ELSE 0) \in Int
      /\ m + q.end_time + (IF q.end_time <= q.start_time THEN Day ELSE 0) < m + Day + Day
  BY <1>2, <1>3
<1> QED  BY <1>1, <1>2, <1>4 DEF m, Opens, Closes

\* Only the window of the day, or of the day before, has a moment of the day.
LEMMA WindowDays ==
    ASSUME NEW q \in Period, Validates(q), q.type # "ONCE", NEW d \in Int, NEW l \in Int,
           Opens(q, d) <= l, l < Closes(q, d)
    PROVE  d = l \div Day \/ d = (l \div Day) - 1
<1> DEFINE D == l \div Day
<1>1. D \in Int /\ D * Day \in Int /\ D * Day <= l /\ l < D * Day + Day
  BY DayAndTime, TimeAssumption
<1>2. /\ d * Day \in Int /\ d * Day <= Opens(q, d) /\ Closes(q, d) < d * Day + Day + Day
      /\ Opens(q, d) \in Int /\ Closes(q, d) \in Int /\ Day \in Int
  BY WindowTypes
<1>3. ~(D < d)
  <2>1. SUFFICES ASSUME D < d PROVE FALSE
    OBVIOUS
  <2>2. D * Day + Day <= d * Day  BY <1>1, <2>1, Days
  <2> QED  BY <1>1, <1>2, <2>2
<1>4. ~(d < D - 1)
  <2>1. SUFFICES ASSUME d < D - 1 PROVE FALSE
    OBVIOUS
  <2>2. D - 1 \in Int  BY <1>1
  <2>3. d * Day + Day <= (D - 1) * Day  BY <2>1, <2>2, Days
  <2>4. (D - 1) * Day = D * Day - Day  BY <1>1, Days
  <2> QED  BY <1>1, <1>2, <2>3, <2>4
<1> HIDE DEF D
<1> QED  BY <1>1, <1>3, <1>4 DEF D

\* Where the windows are, by the hours of the day.
LEMMA WindowToday ==
    ASSUME NEW q \in Period, Validates(q), q.type # "ONCE", NEW l \in Int
    PROVE  LET D == l \div Day IN
           /\ InWindow(q, D, l) <=> /\ D % 7 \in q.days /\ q.start_time <= l % Day
                                    /\ q.end_time > q.start_time => l % Day < q.end_time
           /\ InWindow(q, D - 1, l) <=> /\ (D - 1) % 7 \in q.days
                                        /\ q.end_time <= q.start_time /\ l % Day < q.end_time
           /\ q.end_time > q.start_time => Closes(q, D) = Midnight(l) + q.end_time
           /\ q.end_time <= q.start_time =>
                /\ Closes(q, D) = Midnight(l) + Day + q.end_time
                /\ Closes(q, D - 1) = Midnight(l) + q.end_time
<1> DEFINE D == l \div Day
           M == D * Day
           time == l % Day
<1>1. D \in Int /\ M \in Int /\ time \in 0 .. Day - 1 /\ l = M + time /\ Midnight(l) = M
  BY DayAndTime
<1>2. (D - 1) * Day = M - Day  BY <1>1, Days
<1>3. /\ q.start_time \in 0 .. Day - 1 /\ q.end_time \in 0 .. Day - 1 /\ Day \in Int
  BY RecurringFields, TimeAssumption
<1>4. /\ Opens(q, D) = M + q.start_time
      /\ Closes(q, D) = M + q.end_time + (IF q.end_time <= q.start_time THEN Day ELSE 0)
      /\ Opens(q, D - 1) = M - Day + q.start_time
      /\ Closes(q, D - 1) = M - Day + q.end_time
                              + (IF q.end_time <= q.start_time THEN Day ELSE 0)
  BY <1>2 DEF Opens, Closes
<1> HIDE DEF D, M, time
<1>5. /\ Opens(q, D) <= l <=> q.start_time <= time
      /\ l < Closes(q, D) <=> (q.end_time > q.start_time => time < q.end_time)
  BY <1>1, <1>3, <1>4
<1>6. Opens(q, D - 1) <= l /\ l < Closes(q, D - 1)
        <=> q.end_time <= q.start_time /\ time < q.end_time
  BY <1>1, <1>3, <1>4
<1>7. /\ q.end_time > q.start_time => Closes(q, D) = Midnight(l) + q.end_time
      /\ q.end_time <= q.start_time =>
           /\ Closes(q, D) = Midnight(l) + Day + q.end_time
           /\ Closes(q, D - 1) = Midnight(l) + q.end_time
  BY <1>1, <1>3, <1>4
<1> QED  BY <1>5, <1>6, <1>7 DEF InWindow, D, time

-----------------------------------------------------------------------------
(* get_quiet_period_end_for_period *)

\* What it answers for a recurring period that is active: the moment of the end
\* of a window that is open, or None when there is none.
LEMMA RecurringEnd ==
    ASSUME Clock, NEW q \in Period, Validates(q), q.type # "ONCE", q.is_active,
           NEW at \in Nat
    PROVE  LET e == GetQuietPeriodEndForPeriod(q, at)
               D == Localtime(at) \div Day
           IN  \/ \E d \in {D, D - 1} :
                    InWindow(q, d, Localtime(at)) /\ e = BuildLocalDatetime(Closes(q, d))
               \/ /\ e = None /\ ~InWindow(q, D, Localtime(at))
                  /\ ~InWindow(q, D - 1, Localtime(at))
<1> DEFINE l == Localtime(at)
           D == l \div Day
           time == l % Day
           e == GetQuietPeriodEndForPeriod(q, at)
<1>1. l \in Int /\ D \in Int  BY LocalTypes, DayAndTime
<1>2. /\ q.type = "RECURRING"
      /\ q.start_time \in Int /\ q.end_time \in Int
  BY RecurringFields
<1>3. Weekday(l) = D % 7 /\ (Weekday(l) - 1) % 7 = (D - 1) % 7
  BY <1>1, DayBefore DEF Weekday
<1>4. /\ InWindow(q, D, l) <=> /\ D % 7 \in q.days /\ q.start_time <= time
                               /\ q.end_time > q.start_time => time < q.end_time
      /\ InWindow(q, D - 1, l) <=> /\ (D - 1) % 7 \in q.days
                                   /\ q.end_time <= q.start_time /\ time < q.end_time
      /\ q.end_time > q.start_time => Closes(q, D) = Midnight(l) + q.end_time
      /\ q.end_time <= q.start_time =>
           /\ Closes(q, D) = Midnight(l) + Day + q.end_time
           /\ Closes(q, D - 1) = Midnight(l) + q.end_time
  BY <1>1, WindowToday
<1>5. e = IF q.end_time > q.start_time
          THEN IF Weekday(l) \in q.days /\ q.start_time <= time /\ time < q.end_time
               THEN BuildLocalDatetime(Midnight(l) + q.end_time) ELSE None
          ELSE IF Weekday(l) \in q.days /\ time >= q.start_time
               THEN BuildLocalDatetime(Midnight(l) + Day + q.end_time)
               ELSE IF (Weekday(l) - 1) % 7 \in q.days /\ time < q.end_time
               THEN BuildLocalDatetime(Midnight(l) + q.end_time)
               ELSE None
  BY <1>2 DEF GetQuietPeriodEndForPeriod
<1>6. time \in Int  BY <1>1, DayAndTime
<1> SUFFICES \/ \E d \in {D, D - 1} : InWindow(q, d, l) /\ e = BuildLocalDatetime(Closes(q, d))
             \/ e = None /\ ~InWindow(q, D, l) /\ ~InWindow(q, D - 1, l)
  OBVIOUS
<1> HIDE DEF l, D, time, e
<1>7. CASE q.end_time > q.start_time
  <2>1. ~(q.end_time <= q.start_time)  BY <1>2, <1>7
  <2> QED  BY <1>3, <1>4, <1>5, <1>7, <2>1
<1>8. CASE ~(q.end_time > q.start_time)
  <2>1. q.end_time <= q.start_time  BY <1>2, <1>8
  <2>2. time >= q.start_time <=> q.start_time <= time  BY <1>2, <1>6
  <2> QED  BY <1>3, <1>4, <1>5, <1>8, <2>1, <2>2
<1> QED  BY <1>7, <1>8

\* The reference, by windows.
LEMMA QuietByWindow ==
    ASSUME NEW q \in Period, Validates(q), q.type # "ONCE", NEW t, Localtime(t) \in Int
    PROVE  Quiet(q, t) <=> q.is_active
                           /\ \E d \in -1 .. Localtime(t) \div Day : InWindow(q, d, Localtime(t))
<1> DEFINE l == Localtime(t)
<1>1. l \div Day \in Int  BY DayAndTime
<1>2. \A d \in -1 .. l \div Day :
        LET last == d * Day + q.end_time + (IF q.end_time <= q.start_time THEN Day ELSE 0)
        IN  (d % 7 \in q.days /\ l \in d * Day + q.start_time .. last - 1)
              <=> InWindow(q, d, l)
  <2> SUFFICES ASSUME NEW d \in -1 .. l \div Day
               PROVE  l \in Opens(q, d) .. Closes(q, d) - 1
                        <=> Opens(q, d) <= l /\ l < Closes(q, d)
    BY DEF InWindow, Opens, Closes
  <2>1. Opens(q, d) \in Int /\ Closes(q, d) \in Int  BY WindowTypes
  <2> QED  BY <2>1
<1> QED  BY <1>2 DEF Quiet

\* Its answer is a number, or None.
LEMMA EndType ==
    ASSUME Clock, NEW q \in Period, Validates(q), NEW at \in Nat
    PROVE  GetQuietPeriodEndForPeriod(q, at) \in Int \cup {None}
<1>1. CASE ~q.is_active  BY <1>1 DEF GetQuietPeriodEndForPeriod
<1>2. CASE q.is_active /\ q.type = "ONCE"
  BY <1>2, OnceFields DEF GetQuietPeriodEndForPeriod
<1>3. CASE q.is_active /\ q.type # "ONCE"
  <2>1. Localtime(at) \in Int  BY LocalTypes
  <2>2. Localtime(at) \div Day \in Int /\ (Localtime(at) \div Day) - 1 \in Int
    BY <2>1, DayAndTime
  <2>3. \A d \in {Localtime(at) \div Day, (Localtime(at) \div Day) - 1} :
          BuildLocalDatetime(Closes(q, d)) \in Int
    BY <1>3, <2>2, WindowTypes, LocalTypes
  <2> QED  BY <1>3, <2>3, RecurringEnd
<1> QED  BY <1>1, <1>2, <1>3

\* Every moment it skips is quiet.
LEMMA EndCovers ==
    ASSUME Clock, NEW q \in Period, Validates(q), NEW at \in Nat,
           NEW e \in Int, e = GetQuietPeriodEndForPeriod(q, at), NEW t \in at .. e - 1
    PROVE  Quiet(q, t) \/ NearTurn(t)
<1>0. e # None /\ t \in Nat /\ at <= t /\ t < e  BY MarkersAssumption
<1>1. q.is_active  BY <1>0 DEF GetQuietPeriodEndForPeriod
<1>2. CASE q.type = "ONCE"
  <2>1. e = IF q.start_at <= at /\ at < q.end_at THEN q.end_at ELSE None
    BY <1>1, <1>2 DEF GetQuietPeriodEndForPeriod
  <2>2. q.start_at \in Nat /\ q.end_at \in Nat  BY <1>2, OnceFields
  <2>3. t \in q.start_at .. q.end_at - 1  BY <1>0, <2>1, <2>2
  <2> QED  BY <1>1, <1>2, <2>3 DEF Quiet
<1>3. CASE q.type # "ONCE"
  <2> DEFINE l == Localtime(at)
             k == Localtime(t)
  <2>0. l \in Int /\ k \in Int  BY <1>0, LocalTypes
  <2>1. l \div Day \in Int /\ (l \div Day) - 1 \in Int /\ k \div Day \in Int
    BY <2>0, DayAndTime
  <2>2. PICK d \in {l \div Day, (l \div Day) - 1} :
          InWindow(q, d, l) /\ e = BuildLocalDatetime(Closes(q, d))
    BY <1>0, <1>1, <1>3, RecurringEnd
  <2>3. /\ d \in Int /\ Opens(q, d) \in Int /\ Closes(q, d) \in Int
        /\ d * Day \in Int /\ d * Day <= Opens(q, d)
        /\ Closes(q, d) < d * Day + Day + Day
    BY <1>3, <2>1, <2>2, WindowTypes
  <2>4. NearTurn(t) \/ (Opens(q, d) <= k /\ k < Closes(q, d))
    BY <1>0, <2>2, <2>3, Stretch DEF InWindow
  <2>5. SUFFICES ASSUME Opens(q, d) <= k, k < Closes(q, d) PROVE Quiet(q, t)
    BY <2>4
  <2>6. InWindow(q, d, k)  BY <2>2, <2>5 DEF InWindow
  <2>7. d <= k \div Day
    <3>1. d = k \div Day \/ d = (k \div Day) - 1
      BY <1>3, <2>0, <2>3, <2>5, WindowDays
    <3> QED  BY <2>1, <3>1
  <2>8. -1 <= d
    <3>1. SUFFICES ASSUME d < -1 PROVE FALSE
      BY <2>3
    <3>2. d * Day + Day <= (-1) * Day  BY <2>3, <3>1, Days
    <3>3. (-1) * Day = -Day /\ Day \in Nat /\ Shift < Day  BY TimeAssumption
    <3>4. Closes(q, d) < 0  BY <2>3, <3>2, <3>3
    <3>5. BuildLocalDatetime(Closes(q, d)) < 0
      <4>1. l < 0  BY <2>0, <2>2, <2>3, <3>4 DEF InWindow
      <4>2. turn.by < 0  BY <4>1 DEF Clock, Localtime
      <4> QED  BY <2>3, <3>4, <4>2 DEF Clock, BuildLocalDatetime
    <3> QED  BY <1>0, <2>2, <3>5
  <2>9. d \in -1 .. k \div Day  BY <2>1, <2>3, <2>7, <2>8
  <2> QED  BY <1>1, <1>3, <2>0, <2>6, <2>9, QuietByWindow
<1> QED  BY <1>2, <1>3

\* Where it answers None, the moment is free.
LEMMA NoEndIsFree ==
    ASSUME Clock, NEW q \in Period, Validates(q), NEW at \in Nat,
           GetQuietPeriodEndForPeriod(q, at) = None
    PROVE  ~Quiet(q, at)
<1>1. CASE ~q.is_active  BY <1>1 DEF Quiet
<1>2. CASE q.is_active /\ q.type = "ONCE"
  <2>1. q.start_at \in Nat /\ q.end_at \in Nat /\ None \notin Nat
    BY <1>2, OnceFields, MarkersAssumption
  <2>2. ~(q.start_at <= at /\ at < q.end_at)
    BY <1>2, <2>1 DEF GetQuietPeriodEndForPeriod
  <2> QED  BY <1>2, <2>1, <2>2 DEF Quiet
<1>3. CASE q.is_active /\ q.type # "ONCE"
  <2> DEFINE l == Localtime(at)
             D == l \div Day
  <2>1. l \in Int /\ D \in Int /\ D - 1 \in Int  BY LocalTypes, DayAndTime
  <2>2. \A d \in {D, D - 1} : BuildLocalDatetime(Closes(q, d)) # None
    BY <1>3, <2>1, WindowTypes, LocalTypes, MarkersAssumption
  <2>3. ~InWindow(q, D, l) /\ ~InWindow(q, D - 1, l)
    BY <1>3, <2>2, RecurringEnd
  <2>4. ASSUME NEW d \in -1 .. D, InWindow(q, d, l) PROVE FALSE
    <3>1. d = D \/ d = D - 1
      BY <1>3, <2>1, <2>4, WindowDays DEF InWindow
    <3> QED  BY <2>3, <2>4, <3>1
  <2> QED  BY <1>3, <2>1, <2>4, QuietByWindow
<1> QED  BY <1>1, <1>2, <1>3

\* Its answer is later, except where the clock is put back.
LEMMA EndIsLater ==
    ASSUME Clock, NEW q \in Period, Validates(q), NEW at \in Nat,
           NEW e \in Int, e = GetQuietPeriodEndForPeriod(q, at),
           ~(turn.by < 0 /\ NearTurn(at))
    PROVE  at < e
<1>0. e # None  BY MarkersAssumption
<1>1. q.is_active  BY <1>0 DEF GetQuietPeriodEndForPeriod
<1>2. CASE q.type = "ONCE"
  <2>1. e = IF q.start_at <= at /\ at < q.end_at THEN q.end_at ELSE None
    BY <1>1, <1>2 DEF GetQuietPeriodEndForPeriod
  <2> QED  BY <1>0, <2>1
<1>3. CASE q.type # "ONCE"
  <2> DEFINE l == Localtime(at)
  <2>1. l \div Day \in Int /\ (l \div Day) - 1 \in Int  BY LocalTypes, DayAndTime
  <2>2. PICK d \in {l \div Day, (l \div Day) - 1} :
          InWindow(q, d, l) /\ e = BuildLocalDatetime(Closes(q, d))
    BY <1>0, <1>1, <1>3, RecurringEnd
  <2>3. d \in Int /\ Closes(q, d) \in Int  BY <1>3, <2>1, <2>2, WindowTypes
  <2> QED  BY <2>2, <2>3, StretchEnds DEF InWindow
<1> QED  BY <1>2, <1>3

-----------------------------------------------------------------------------
(* get_quiet_period_end_from_iterable *)

ValidRows(rows) == \A i \in Ids : rows[i] # None => Validates(rows[i])

LEMMA StoredRows ==
    ASSUME NEW rows \in Rows
    PROVE  /\ Stored(rows) \subseteq Period
           /\ ValidRows(rows) <=> \A q \in Stored(rows) : Validates(q)
BY DEF Stored, Rows, ValidRows

\* The latest of the answers for the rows, or None.
LEMMA LatestEnd ==
    ASSUME Clock, NEW rows \in Rows, ValidRows(rows), NEW at \in Nat
    PROVE  LET e == GetQuietPeriodEnd(rows, at)
           IN  \/ /\ e = None
                  /\ \A q \in Stored(rows) : GetQuietPeriodEndForPeriod(q, at) = None
               \/ /\ e \in Int
                  /\ \E q \in Stored(rows) : GetQuietPeriodEndForPeriod(q, at) = e
                  /\ \A q \in Stored(rows) : LET f == GetQuietPeriodEndForPeriod(q, at)
                                             IN  f = None \/ (f \in Int /\ f <= e)
<1> DEFINE F(q) == GetQuietPeriodEndForPeriod(q, at)
           ends == {F(q) : q \in Stored(rows)} \ {None}
           e == GetQuietPeriodEnd(rows, at)
<1>1. \A q \in Stored(rows) : F(q) \in Int \cup {None}
  BY StoredRows, EndType
<1>2. IsFiniteSet(ends)
  <2> DEFINE g == [i \in Ids |-> F(rows[i])]
             T == {F(rows[i]) : i \in Ids}
  <2>1. g \in Surjection(Ids, T)  BY DEF Surjection
  <2>2. IsFiniteSet(T)
    <3> HIDE DEF g, T
    <3> QED  BY <2>1, InputsAssumption, FS_Surjection
  <2>3. ends \subseteq T  BY DEF Stored
  <2> HIDE DEF ends, T
  <2> QED  BY <2>2, <2>3, FS_Subset
<1>3. ends \subseteq Int  BY <1>1
<1>4. e = IF ends = {} THEN None ELSE CHOOSE x \in ends : \A f \in ends : x >= f
  BY DEF GetQuietPeriodEnd
<1>5. \A q \in Stored(rows) : F(q) = None \/ F(q) \in ends  OBVIOUS
<1>6. \A x \in ends : \E q \in Stored(rows) : F(q) = x  OBVIOUS
<1> SUFFICES \/ e = None /\ \A q \in Stored(rows) : F(q) = None
             \/ /\ e \in Int
                /\ \E q \in Stored(rows) : F(q) = e
                /\ \A q \in Stored(rows) : F(q) = None \/ (F(q) \in Int /\ F(q) <= e)
  OBVIOUS
<1> HIDE DEF F, ends, e
<1>7. CASE ends = {}  BY <1>4, <1>5, <1>7
<1>8. CASE ends # {}
  <2>1. e \in ends /\ \A f \in ends : e >= f
    BY <1>2, <1>3, <1>4, <1>8, Greatest
  <2>2. \A f \in ends : f \in Int /\ e \in Int /\ f <= e  BY <1>3, <2>1
  <2> QED  BY <1>5, <1>6, <2>1, <2>2
<1> QED  BY <1>7, <1>8

-----------------------------------------------------------------------------
(* What the API stores *)

\* A field of the payload, or of the row.
Given(x, y) == IF x = Absent THEN y ELSE x
Written(row, p) == [f \in Fields |-> IF p[f] = Absent THEN row[f] ELSE p[f]]

LEMMA WrittenFields ==
    ASSUME NEW row, NEW p
    PROVE  /\ Written(row, p).type = Given(p.type, row.type)
           /\ Written(row, p).start_at = Given(p.start_at, row.start_at)
           /\ Written(row, p).end_at = Given(p.end_at, row.end_at)
           /\ Written(row, p).days = Given(p.days, row.days)
           /\ Written(row, p).start_time = Given(p.start_time, row.start_time)
           /\ Written(row, p).end_time = Given(p.end_time, row.end_time)
           /\ Written(row, p).is_active = Given(p.is_active, row.is_active)
BY DEF Written, Fields, Given

LEMMA WrittenType ==
    ASSUME NEW row \in Period, NEW p \in Payload
    PROVE  Written(row, p) \in Period
<1> DEFINE w == Written(row, p)
<1>1. w.type \in Types  BY WrittenFields DEF Given, Period, Payload
<1>2. w.start_at \in OptNat  BY WrittenFields DEF Given, Period, Payload
<1>3. w.end_at \in OptNat  BY WrittenFields DEF Given, Period, Payload
<1>4. w.days \in SUBSET (0 .. 6)  BY WrittenFields DEF Given, Period, Payload
<1>5. w.start_time \in Times \cup {None}  BY WrittenFields DEF Given, Period, Payload
<1>6. w.end_time \in Times \cup {None}  BY WrittenFields DEF Given, Period, Payload
<1>7. w.is_active \in BOOLEAN  BY WrittenFields DEF Given, Period, Payload
<1>8. /\ DOMAIN w = {"type", "start_at", "end_at", "days", "start_time", "end_time",
                     "is_active"}
      /\ w = [f \in DOMAIN w |-> w[f]]
  BY DEF Written, Fields
<1> HIDE DEF w
<1>9. w = [type |-> w.type, start_at |-> w.start_at, end_at |-> w.end_at, days |-> w.days,
           start_time |-> w.start_time, end_time |-> w.end_time, is_active |-> w.is_active]
  BY <1>8
<1>10. w \in Period  BY <1>1, <1>2, <1>3, <1>4, <1>5, <1>6, <1>7, <1>9 DEF Period
<1> QED  BY <1>10 DEF w

\* The fields that validate looks at.
LEMMA MergedFields ==
    ASSUME NEW row, NEW p
    PROVE  LET m == Merged(row, p)
               same == Given(p.type, row.type) = row.type
           IN  /\ m.type = Given(p.type, row.type)
               /\ m.start_at = Given(p.start_at, IF same THEN row.start_at ELSE None)
               /\ m.end_at = Given(p.end_at, IF same THEN row.end_at ELSE None)
               /\ m.days = Given(p.days, IF same THEN row.days ELSE {})
               /\ m.start_time = Given(p.start_time, IF same THEN row.start_time ELSE None)
               /\ m.end_time = Given(p.end_time, IF same THEN row.end_time ELSE None)
BY DEF Merged, Fields, Given

\* What is validated is what is written: the fields that validate took from the
\* row, update takes from it too, and those it took for empty are cleared.
LEMMA NormalizedIsValid ==
    ASSUME NEW row \in Period, NEW p \in Payload, Validates(Merged(row, p))
    PROVE  Normalized(row, p) \in Period /\ Validates(Normalized(row, p))
<1> DEFINE w == Written(row, p)
           m == Merged(row, p)
           n == Normalized(row, p)
           same == Given(p.type, row.type) = row.type
<1>1. w \in Period  BY WrittenType
<1>2. n = IF w.type = "ONCE"
          THEN [w EXCEPT !.days = {}, !.start_time = None, !.end_time = None]
          ELSE [w EXCEPT !.start_at = None, !.end_at = None]
  BY DEF Normalized, Written
<1>3. /\ w.type = Given(p.type, row.type)
      /\ w.start_at = Given(p.start_at, row.start_at)
      /\ w.end_at = Given(p.end_at, row.end_at)
      /\ w.days = Given(p.days, row.days)
      /\ w.start_time = Given(p.start_time, row.start_time)
      /\ w.end_time = Given(p.end_time, row.end_time)
  BY WrittenFields
<1>4. /\ m.type = Given(p.type, row.type)
      /\ m.start_at = Given(p.start_at, IF same THEN row.start_at ELSE None)
      /\ m.end_at = Given(p.end_at, IF same THEN row.end_at ELSE None)
      /\ m.days = Given(p.days, IF same THEN row.days ELSE {})
      /\ m.start_time = Given(p.start_time, IF same THEN row.start_time ELSE None)
      /\ m.end_time = Given(p.end_time, IF same THEN row.end_time ELSE None)
  BY MergedFields
<1>5. Validates(m)  OBVIOUS
<1> HIDE DEF w, m, n, same
<1>6. CASE w.type = "ONCE"
  <2>1. n = [w EXCEPT !.days = {}, !.start_time = None, !.end_time = None]  BY <1>2, <1>6
  <2>2. /\ n \in Period /\ n.type = w.type /\ n.start_at = w.start_at /\ n.end_at = w.end_at
        /\ n.days = {} /\ n.start_time = None /\ n.end_time = None
    BY <1>1, <2>1 DEF Period
  <2>3. /\ m.start_at # None /\ m.end_at # None /\ m.end_at > m.start_at
    BY <1>3, <1>4, <1>5, <1>6 DEF Validates
  <2>4. w.start_at = m.start_at /\ w.end_at = m.end_at  BY <1>3, <1>4, <2>3 DEF Given
  <2>5. Validates(n)  BY <1>6, <2>2, <2>3, <2>4 DEF Validates
  <2> QED  BY <2>2, <2>5 DEF n
<1>7. CASE w.type # "ONCE"
  <2>1. n = [w EXCEPT !.start_at = None, !.end_at = None]  BY <1>2, <1>7
  <2>2. /\ n \in Period /\ n.type = w.type /\ n.start_at = None /\ n.end_at = None
        /\ n.days = w.days /\ n.start_time = w.start_time /\ n.end_time = w.end_time
    BY <1>1, <2>1 DEF Period, OptNat
  <2>3. /\ m.days # {} /\ m.start_time # None /\ m.end_time # None
        /\ m.start_time # m.end_time
    BY <1>3, <1>4, <1>5, <1>7 DEF Validates
  <2>4. w.days = m.days /\ w.start_time = m.start_time /\ w.end_time = m.end_time
    BY <1>3, <1>4, <2>3 DEF Given
  <2>5. Validates(n)  BY <1>7, <2>2, <2>3, <2>4 DEF Validates
  <2> QED  BY <2>2, <2>5 DEF n
<1> QED  BY <1>6, <1>7

-----------------------------------------------------------------------------
(* The invariant *)

\* A PATCH under way has validated what it will write.
PatchesValid ==
    \A r \in Requests : patch[r] # None =>
        /\ Normalized(patch[r].row, patch[r].payload) \in Period
        /\ Validates(Normalized(patch[r].row, patch[r].payload))

\* What a computation has looked at is valid, too.
CallValid ==
    call # None => /\ ValidRows(call.last)
                   /\ call.prefetched # None => ValidRows(call.prefetched)

StoreInv == TypeOK /\ ValidRows(periods) /\ PatchesValid /\ CallValid

LEMMA BlankType == Blank \in Period
<1>1. TRUE \in BOOLEAN /\ {} \in SUBSET (0 .. 6)  OBVIOUS
<1> QED  BY <1>1 DEF Blank, Period, Types, OptNat

LEMMA EditStep ==
    ASSUME TypeOK, ValidRows(periods), NEW i \in Ids, NEW row, Edit(i, row),
           row = None \/ (row \in Period /\ Validates(row))
    PROVE  edits' \in 0 .. MaxEdits /\ periods' \in Rows /\ ValidRows(periods')
<1>1. edits' \in 0 .. MaxEdits  BY BoundsAssumption DEF TypeOK, Edit
<1>2. periods \in Rows /\ periods' = [periods EXCEPT ![i] = row]  BY DEF TypeOK, Edit
<1>3. periods' \in Rows  BY <1>2 DEF Rows
<1>4. \A j \in Ids : periods'[j] = IF j = i THEN row ELSE periods[j]  BY <1>2 DEF Rows
<1> QED  BY <1>1, <1>3, <1>4 DEF ValidRows

LEMMA StoreInit == Init => StoreInv
<1> SUFFICES ASSUME Init PROVE StoreInv
  OBVIOUS
<1>1. 0 \in 0 .. MaxEdits  BY BoundsAssumption
<1>2. TypeOK  BY <1>1 DEF Init, TypeOK, Rows
<1>3. \A i \in Ids : periods[i] = None  BY DEF Init
<1>4. \A r \in Requests : patch[r] = None  BY DEF Init
<1> QED  BY <1>2, <1>3, <1>4 DEF Init, StoreInv, ValidRows, PatchesValid, CallValid

LEMMA BeginType ==
    ASSUME TypeOK, NEW at \in Moments, NEW prefetched \in BOOLEAN, Begin(at, prefetched)
    PROVE  /\ call' \in Call /\ call'.at = at /\ call'.effective = at
           /\ call'.last = periods /\ call'.prefetched \in {None, periods}
           /\ call'.seen = {} /\ ~call'.done /\ call'.shifts = 0
           /\ UNCHANGED <<turn, periods, patch, edits>>
<1> DEFINE new == [at |-> at, effective |-> at, shifts |-> 0,
                   prefetched |-> IF prefetched THEN periods ELSE None,
                   seen |-> {}, last |-> periods, done |-> FALSE]
<1>1. call' = new /\ UNCHANGED <<turn, periods, patch, edits>>  BY DEF Begin
<1>2. at \in Nat /\ 0 \in 0 .. Cap /\ FALSE \in BOOLEAN  BY TimeAssumption, BoundsAssumption
<1>3. periods \in Rows /\ (IF prefetched THEN periods ELSE None) \in {None, periods}
  BY DEF TypeOK
<1>4. new \in Call  BY <1>2, <1>3 DEF Call
<1>5. /\ new.at = at /\ new.effective = at /\ new.last = periods
      /\ new.prefetched = IF prefetched THEN periods ELSE None
      /\ new.seen = {} /\ ~new.done /\ new.shifts = 0
  OBVIOUS
<1> HIDE DEF new
<1> QED  BY <1>1, <1>3, <1>4, <1>5

\* The three ends of a turn of the loop.
LEMMA IterateShape ==
    ASSUME StoreInv, Iterate
    PROVE  \E rows \in Rows : LET e == GetQuietPeriodEnd(rows, call.effective) IN
             /\ ValidRows(rows)
             /\ call \in Call /\ call' \in Call
             /\ call'.at = call.at /\ call'.prefetched = call.prefetched
             /\ UNCHANGED <<turn, periods, patch, edits>>
             /\ \/ /\ call.shifts = Cap /\ call'.done
                   /\ call'.effective = call.effective /\ call'.shifts = call.shifts
                   /\ call'.seen = call.seen /\ call'.last = call.last
                \/ /\ e = None \/ e <= call.effective
                   /\ call'.done /\ call'.last = rows
                   /\ call'.effective = call.effective /\ call'.shifts = call.shifts
                   /\ call'.seen = call.seen \cup Stored(rows)
                \/ /\ e # None /\ ~(e <= call.effective) /\ e \in Int
                   /\ ~call'.done /\ call'.last = rows /\ call'.effective = e
                   /\ call'.seen = call.seen \cup Stored(rows)
<1> DEFINE rows == IF call.prefetched = None THEN periods ELSE call.prefetched
           e == GetQuietPeriodEnd(rows, call.effective)
<1>1. TypeOK /\ call # None /\ ~call.done  BY DEF StoreInv, Iterate
<1>2. call \in Call /\ periods \in Rows /\ Clock  BY <1>1, ClockType DEF TypeOK
<1>3. /\ call.effective \in Nat /\ call.shifts \in 0 .. Cap /\ call.seen \in SUBSET Period
      /\ call.prefetched \in Rows \cup {None} /\ call.last \in Rows
  BY <1>2 DEF Call
<1>4. rows \in Rows /\ ValidRows(rows)
  BY <1>1, <1>2, <1>3 DEF StoreInv, CallValid
<1>5. /\ UNCHANGED <<turn, periods, patch, edits>>
      /\ call' = IF call.shifts = Cap THEN [call EXCEPT !.done = TRUE]
                 ELSE IF e = None \/ e <= call.effective
                 THEN [call EXCEPT !.done = TRUE, !.last = rows,
                                   !.seen = call.seen \cup Stored(rows)]
                 ELSE [call EXCEPT !.effective = e, !.shifts = call.shifts + 1,
                                   !.last = rows, !.seen = call.seen \cup Stored(rows)]
  BY DEF Iterate
<1> HIDE DEF rows
<1>6. e = None \/ e \in Int
  BY <1>2, <1>3, <1>4, LatestEnd
<1> HIDE DEF e
<1>7. call.seen \cup Stored(rows) \in SUBSET Period  BY <1>3, <1>4, StoredRows
<1>8. TRUE \in BOOLEAN  OBVIOUS
<1> SUFFICES /\ call' \in Call
             /\ call'.at = call.at /\ call'.prefetched = call.prefetched
             /\ \/ /\ call.shifts = Cap /\ call'.done
                   /\ call'.effective = call.effective /\ call'.shifts = call.shifts
                   /\ call'.seen = call.seen /\ call'.last = call.last
                \/ /\ e = None \/ e <= call.effective
                   /\ call'.done /\ call'.last = rows
                   /\ call'.effective = call.effective /\ call'.shifts = call.shifts
                   /\ call'.seen = call.seen \cup Stored(rows)
                \/ /\ e # None /\ ~(e <= call.effective) /\ e \in Int
                   /\ ~call'.done /\ call'.last = rows /\ call'.effective = e
                   /\ call'.seen = call.seen \cup Stored(rows)
  BY <1>2, <1>4, <1>5 DEF e
<1>9. CASE call.shifts = Cap
  <2>1. call' = [call EXCEPT !.done = TRUE]  BY <1>5, <1>9
  <2>2. /\ call' \in Call /\ call'.done /\ call'.at = call.at
        /\ call'.prefetched = call.prefetched
        /\ call'.effective = call.effective /\ call'.shifts = call.shifts
        /\ call'.seen = call.seen /\ call'.last = call.last
    BY <1>2, <1>8, <2>1 DEF Call
  <2> QED  BY <1>9, <2>2
<1>10. CASE call.shifts # Cap /\ (e = None \/ e <= call.effective)
  <2>1. call' = [call EXCEPT !.done = TRUE, !.last = rows,
                             !.seen = call.seen \cup Stored(rows)]
    BY <1>5, <1>10
  <2>2. /\ call' \in Call /\ call'.done /\ call'.at = call.at
        /\ call'.prefetched = call.prefetched
        /\ call'.effective = call.effective /\ call'.shifts = call.shifts
        /\ call'.seen = call.seen \cup Stored(rows) /\ call'.last = rows
    BY <1>2, <1>4, <1>7, <1>8, <2>1 DEF Call
  <2> QED  BY <1>10, <2>2
<1>11. CASE call.shifts # Cap /\ e # None /\ ~(e <= call.effective)
  <2>1. call' = [call EXCEPT !.effective = e, !.shifts = call.shifts + 1,
                             !.last = rows, !.seen = call.seen \cup Stored(rows)]
    BY <1>5, <1>11
  <2>2. e \in Nat /\ call.shifts + 1 \in 0 .. Cap
    BY <1>3, <1>6, <1>11, BoundsAssumption
  <2>3. /\ call' \in Call /\ call'.done = call.done /\ call'.at = call.at
        /\ call'.prefetched = call.prefetched /\ call'.effective = e
        /\ call'.seen = call.seen \cup Stored(rows) /\ call'.last = rows
    BY <1>2, <1>4, <1>7, <2>1, <2>2 DEF Call
  <2> QED  BY <1>1, <1>6, <1>11, <2>3
<1> QED  BY <1>9, <1>10, <1>11

LEMMA StoreStep == StoreInv /\ [Next]_vars => StoreInv'
<1> SUFFICES ASSUME StoreInv, [Next]_vars PROVE StoreInv'
  OBVIOUS
<1>0. TypeOK /\ ValidRows(periods) /\ PatchesValid /\ CallValid  BY DEF StoreInv
<1>1. CASE UNCHANGED vars
  BY <1>1 DEF vars, StoreInv, TypeOK, ValidRows, PatchesValid, CallValid
<1>2. ASSUME NEW at \in Moments, NEW prefetched \in BOOLEAN, Begin(at, prefetched)
      PROVE  StoreInv'
  <2>1. /\ call' \in Call /\ call'.last = periods /\ call'.prefetched \in {None, periods}
        /\ UNCHANGED <<turn, periods, patch, edits>>
    BY <1>0, <1>2, BeginType
  <2>2. TypeOK'  BY <1>0, <2>1 DEF TypeOK
  <2>3. CallValid'
    <3>1. ValidRows(periods)  BY <1>0
    <3>2. call'.prefetched # None => call'.prefetched = periods  BY <2>1
    <3> QED  BY <2>1, <3>1, <3>2 DEF CallValid, ValidRows
  <2> QED  BY <1>0, <2>1, <2>2, <2>3 DEF StoreInv, ValidRows, PatchesValid
<1>3. CASE Iterate
  <2>1. PICK rows \in Rows :
          /\ ValidRows(rows) /\ call' \in Call /\ call'.prefetched = call.prefetched
          /\ call'.last = call.last \/ call'.last = rows
          /\ UNCHANGED <<turn, periods, patch, edits>>
    BY <1>3, IterateShape
  <2>2. TypeOK'  BY <1>0, <2>1 DEF TypeOK
  <2>3. call # None  BY <1>3 DEF Iterate
  <2>4. CallValid'  BY <1>0, <2>1, <2>3 DEF CallValid, ValidRows
  <2> QED  BY <1>0, <2>1, <2>2, <2>4 DEF StoreInv, ValidRows, PatchesValid
<1>4. ASSUME NEW i \in Ids, NEW p \in Payloads, Create(i, p) PROVE StoreInv'
  <2>1. p \in Payload  BY InputsAssumption
  <2>2. Normalized(Blank, p) \in Period /\ Validates(Normalized(Blank, p))
    BY <1>4, <2>1, BlankType, NormalizedIsValid DEF Create
  <2>3. edits' \in 0 .. MaxEdits /\ periods' \in Rows /\ ValidRows(periods')
    BY <1>0, <1>4, <2>2, EditStep DEF Create
  <2>4. UNCHANGED <<turn, patch, call>>  BY <1>4 DEF Create
  <2>5. TypeOK'  BY <1>0, <2>3, <2>4 DEF TypeOK
  <2> QED  BY <1>0, <2>3, <2>4, <2>5 DEF StoreInv, ValidRows, PatchesValid, CallValid
<1>5. ASSUME NEW r \in Requests, NEW i \in Ids, NEW p \in Payloads, PatchRead(r, i, p)
      PROVE  StoreInv'
  <2> DEFINE new == [id |-> i, row |-> periods[i], payload |-> p]
  <2>1. /\ periods[i] # None /\ Validates(Merged(periods[i], p))
        /\ patch' = [patch EXCEPT ![r] = new]
        /\ UNCHANGED <<turn, periods, edits, call>>
    BY <1>5 DEF PatchRead
  <2>2. periods[i] \in Period /\ p \in Payload
    BY <1>0, <2>1, InputsAssumption DEF TypeOK, Rows
  <2>3. /\ Normalized(periods[i], p) \in Period /\ Validates(Normalized(periods[i], p))
    BY <2>1, <2>2, NormalizedIsValid
  <2>4. new \in Patch /\ new.row = periods[i] /\ new.payload = p  BY <2>2 DEF Patch
  <2> HIDE DEF new
  <2>5. /\ patch' \in [Requests -> Patch \cup {None}] /\ patch'[r] = new
        /\ \A q \in Requests \ {r} : patch'[q] = patch[q]
    BY <1>0, <2>1, <2>4 DEF TypeOK
  <2>6. TypeOK'  BY <1>0, <2>1, <2>5 DEF TypeOK
  <2>7. PatchesValid'
    <3>1. ASSUME NEW q \in Requests, patch'[q] # None
          PROVE  /\ Normalized(patch'[q].row, patch'[q].payload) \in Period
                 /\ Validates(Normalized(patch'[q].row, patch'[q].payload))
      <4>1. CASE q = r  BY <2>3, <2>4, <2>5, <4>1
      <4>2. CASE q # r
        <5>1. patch'[q] = patch[q]  BY <2>5, <4>2
        <5> QED  BY <1>0, <3>1, <5>1 DEF PatchesValid
      <4> QED  BY <4>1, <4>2
    <3> QED  BY <3>1 DEF PatchesValid, Normalized, Validates
  <2> QED  BY <1>0, <2>1, <2>6, <2>7 DEF StoreInv, ValidRows, CallValid
<1>6. ASSUME NEW r \in Requests, PatchSave(r) PROVE StoreInv'
  <2>1. /\ patch[r] # None /\ patch' = [patch EXCEPT ![r] = None]
        /\ Edit(patch[r].id, Normalized(patch[r].row, patch[r].payload))
        /\ UNCHANGED <<turn, call>>
    BY <1>6 DEF PatchSave
  <2>2. patch[r].id \in Ids  BY <1>0, <2>1 DEF TypeOK, Patch
  <2>3. /\ Normalized(patch[r].row, patch[r].payload) \in Period
        /\ Validates(Normalized(patch[r].row, patch[r].payload))
    BY <1>0, <2>1 DEF PatchesValid
  <2>4. edits' \in 0 .. MaxEdits /\ periods' \in Rows /\ ValidRows(periods')
    BY <1>0, <2>1, <2>2, <2>3, EditStep
  <2>5. /\ patch' \in [Requests -> Patch \cup {None}] /\ patch'[r] = None
        /\ \A q \in Requests \ {r} : patch'[q] = patch[q]
    BY <1>0, <2>1 DEF TypeOK
  <2>6. TypeOK'  BY <1>0, <2>1, <2>4, <2>5 DEF TypeOK
  <2>7. PatchesValid'
    <3>1. ASSUME NEW q \in Requests, patch'[q] # None
          PROVE  /\ Normalized(patch'[q].row, patch'[q].payload) \in Period
                 /\ Validates(Normalized(patch'[q].row, patch'[q].payload))
      <4>1. patch'[q] = patch[q]  BY <2>5, <3>1
      <4> QED  BY <1>0, <3>1, <4>1 DEF PatchesValid
    <3> QED  BY <3>1 DEF PatchesValid, Normalized, Validates
  <2> QED  BY <1>0, <2>1, <2>4, <2>6, <2>7 DEF StoreInv, ValidRows, CallValid
<1>7. ASSUME NEW i \in Ids, Delete(i) PROVE StoreInv'
  <2>1. edits' \in 0 .. MaxEdits /\ periods' \in Rows /\ ValidRows(periods')
    BY <1>0, <1>7, EditStep DEF Delete
  <2>2. UNCHANGED <<turn, patch, call>>  BY <1>7 DEF Delete
  <2>3. TypeOK'  BY <1>0, <2>1, <2>2 DEF TypeOK
  <2> QED  BY <1>0, <2>1, <2>2, <2>3 DEF StoreInv, ValidRows, PatchesValid, CallValid
<1> QED  BY <1>1, <1>2, <1>3, <1>4, <1>5, <1>6, <1>7 DEF Next

\* Whatever is created, patched or deleted, and in whatever order the PATCHes
\* read and save, the state is of its type, and a row, a PATCH under way and
\* what a computation has read are valid.
THEOREM StoreCorrect == Spec => []StoreInv
<1>1. Init => StoreInv  BY StoreInit
<1>2. StoreInv /\ [Next]_vars => StoreInv'  BY StoreStep
<1> QED  BY <1>1, <1>2, PTL DEF Spec

\* Every row that is stored is one a POST could have made, although
\* QuietPeriodWriteMixin validates a row that another PATCH may have replaced by
\* the time it saves.
THEOREM StoredCorrect == Spec => []StoredIsValid
<1>1. StoreInv => StoredIsValid
  BY StoredRows DEF StoreInv, TypeOK, StoredIsValid
<1> QED  BY <1>1, StoreCorrect, PTL

-----------------------------------------------------------------------------
(* compute_effective_scheduled_for *)

\* The clock change is chosen once.
LEMMA SameClock ==
    ASSUME Next
    PROVE  turn' = turn
BY DEF Next, Begin, Iterate, Create, PatchRead, PatchSave, Delete

\* What the property says of a computation, under the clock change of the state.
Skips(c) ==
    \A t \in c.at .. c.effective - 1 : (\E q \in c.seen : Quiet(q, t)) \/ NearTurn(t)
Answers(c) ==
    c.done /\ c.shifts < Cap =>
        \/ \A q \in Stored(c.last) : ~Quiet(q, c.effective)
        \/ turn.by < 0 /\ NearTurn(c.effective)

LEMMA SameMeaning ==
    ASSUME turn' = turn, call' # None => Skips(call') /\ Answers(call')
    PROVE  EffectiveIsFirstFree'
BY DEF EffectiveIsFirstFree, Skips, Answers, Quiet, NearTurn, Localtime, Stored

LEMMA FirstFreeStep ==
    StoreInv /\ EffectiveIsFirstFree /\ [Next]_vars => EffectiveIsFirstFree'
<1> SUFFICES ASSUME StoreInv, EffectiveIsFirstFree, [Next]_vars
             PROVE  EffectiveIsFirstFree'
  OBVIOUS
<1>0. call # None => Skips(call) /\ Answers(call)
  BY DEF EffectiveIsFirstFree, Skips, Answers
<1>1. turn' = turn  BY SameClock DEF vars
<1> SUFFICES call' # None => Skips(call') /\ Answers(call')
  BY <1>1, SameMeaning
<1>2. CASE call' = call  BY <1>0, <1>2
<1>3. ASSUME NEW at \in Moments, NEW prefetched \in BOOLEAN, Begin(at, prefetched)
      PROVE  Skips(call') /\ Answers(call')
  <2>1. call'.at = at /\ call'.effective = at /\ ~call'.done
    BY <1>3, BeginType DEF StoreInv
  <2>2. at \in Nat  BY TimeAssumption
  <2>3. at .. at - 1 = {}  BY <2>2
  <2> QED  BY <2>1, <2>3 DEF Skips, Answers
<1>4. ASSUME Iterate PROVE Skips(call') /\ Answers(call')
  <2>1. call # None  BY <1>4 DEF Iterate
  <2>2. Skips(call) /\ Answers(call) /\ Clock
    BY <1>0, <2>1, ClockType DEF StoreInv, TypeOK
  <2>3. PICK rows \in Rows : LET e == GetQuietPeriodEnd(rows, call.effective) IN
             /\ ValidRows(rows)
             /\ call \in Call /\ call' \in Call
             /\ call'.at = call.at
             /\ \/ /\ call.shifts = Cap /\ call'.done
                   /\ call'.effective = call.effective /\ call'.shifts = call.shifts
                   /\ call'.seen = call.seen /\ call'.last = call.last
                \/ /\ e = None \/ e <= call.effective
                   /\ call'.done /\ call'.last = rows
                   /\ call'.effective = call.effective /\ call'.shifts = call.shifts
                   /\ call'.seen = call.seen \cup Stored(rows)
                \/ /\ e # None /\ ~(e <= call.effective) /\ e \in Int
                   /\ ~call'.done /\ call'.last = rows /\ call'.effective = e
                   /\ call'.seen = call.seen \cup Stored(rows)
    BY <1>4, IterateShape
  <2> DEFINE s == call.effective
             e == GetQuietPeriodEnd(rows, s)
             F(q) == GetQuietPeriodEndForPeriod(q, s)
  <2>4. s \in Nat /\ call.at \in Nat  BY <2>3, TimeAssumption DEF Call
  <2>5. \/ e = None /\ \A q \in Stored(rows) : F(q) = None
        \/ /\ e \in Int
           /\ \E q \in Stored(rows) : F(q) = e
           /\ \A q \in Stored(rows) : F(q) = None \/ (F(q) \in Int /\ F(q) <= e)
    BY <2>2, <2>3, <2>4, LatestEnd
  <2>6. \A q \in Stored(rows) : q \in Period /\ Validates(q)
    BY <2>3, StoredRows
  <2>7. CASE call.shifts = Cap /\ call'.effective = s /\ call'.shifts = call.shifts
             /\ call'.seen = call.seen
    <3>1. ~(call'.shifts < Cap)  BY <2>7, BoundsAssumption
    <3> QED  BY <2>2, <2>3, <2>7, <3>1 DEF Skips, Answers
  <2>8. CASE /\ e = None \/ e <= s
             /\ call'.last = rows /\ call'.effective = s
             /\ call'.seen = call.seen \cup Stored(rows)
    <3>1. Skips(call')  BY <2>2, <2>3, <2>8 DEF Skips
    <3>2. ASSUME ~(turn.by < 0 /\ NearTurn(s)), NEW q \in Stored(rows)
          PROVE  ~Quiet(q, s)
      <4>1. q \in Period /\ Validates(q)  BY <2>6
      <4>2. F(q) = None
        <5>1. SUFFICES ASSUME F(q) # None PROVE FALSE
          OBVIOUS
        <5>2. F(q) \in Int /\ e \in Int /\ F(q) <= e  BY <2>5, <5>1
        <5>3. s < F(q)  BY <2>2, <2>4, <3>2, <4>1, <5>2, EndIsLater
        <5>4. e # None  BY <5>2, MarkersAssumption
        <5>5. e <= s  BY <2>8, <5>4
        <5> HIDE DEF s, e, F
        <5> QED  BY <2>4, <5>2, <5>3, <5>5
      <4> QED  BY <2>2, <2>4, <4>1, <4>2, NoEndIsFree
    <3> QED  BY <2>8, <3>1, <3>2 DEF Answers
  <2>9. CASE /\ e # None /\ ~(e <= s) /\ e \in Int
             /\ ~call'.done /\ call'.effective = e
             /\ call'.seen = call.seen \cup Stored(rows)
    <3>1. PICK q \in Stored(rows) : F(q) = e  BY <2>5, <2>9
    <3>2. ASSUME NEW t \in call.at .. e - 1
          PROVE  (\E p \in call'.seen : Quiet(p, t)) \/ NearTurn(t)
      <4>1. CASE t \in call.at .. s - 1  BY <2>2, <2>9, <4>1 DEF Skips
      <4>2. CASE t \in s .. e - 1
        <5>1. Quiet(q, t) \/ NearTurn(t)
          BY <2>2, <2>4, <2>6, <2>9, <3>1, <4>2, EndCovers
        <5> QED  BY <2>9, <5>1
      <4>3. t \in call.at .. s - 1 \/ t \in s .. e - 1
        <5> HIDE DEF e, s
        <5> QED  BY <2>4, <2>9
      <4> QED  BY <4>1, <4>2, <4>3
    <3>3. Skips(call')  BY <2>3, <2>9, <3>2 DEF Skips
    <3> QED  BY <2>9, <3>3 DEF Answers
  <2> QED  BY <2>3, <2>7, <2>8, <2>9
<1>5. Next => \/ call' = call \/ Iterate
              \/ \E at \in Moments, prefetched \in BOOLEAN : Begin(at, prefetched)
  BY DEF Next, Create, PatchRead, PatchSave, Delete
<1> QED  BY <1>2, <1>3, <1>4, <1>5 DEF vars

\* compute_effective_scheduled_for answers the first free moment: it puts a
\* notification off only over moments that are quiet by some row it was shown,
\* and stops at one that no row it looked at last makes quiet, except at its cap
\* and where the clock is put back.
THEOREM FirstFreeCorrect == Spec => []EffectiveIsFirstFree
<1>1. Init => EffectiveIsFirstFree  BY DEF Init, EffectiveIsFirstFree
<1>2. StoreInv /\ EffectiveIsFirstFree /\ [Next]_vars => EffectiveIsFirstFree'
  BY FirstFreeStep
<1> QED  BY <1>1, <1>2, StoreCorrect, PTL DEF Spec
=============================================================================
