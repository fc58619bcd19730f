---------------------------- MODULE QuietPeriods ----------------------------
(***************************************************************************)
(* Quiet periods: the API that stores them (QuietPeriodWriteMixin behind   *)
(* the views of applications and devices) and the computation of the       *)
(* moment a notification will really go out (notifications/scheduling.py). *)
(*                                                                         *)
(* A moment is a number of ticks; the wall clock of settings.TIME_ZONE     *)
(* agrees with it until the moment `turn', where it is put back or forward *)
(* by Shift ticks.  Day 0 is a Monday.                                     *)
(*                                                                         *)
(* A PATCH reads the row, validates what it was given together with what   *)
(* the row holds, and writes the whole row; the computation queries the    *)
(* periods again for every shift: both can meet edits half-way.            *)
(***************************************************************************)
EXTENDS Integers, FiniteSets

CONSTANTS
    Ids,            \* rows of quiet periods of one application
    Requests,       \* PATCH requests that run at the same time
    Payloads,       \* what a client may send
    Moments,        \* the dates notifications are scheduled for
    Day, Shift,     \* ticks of a day, and of a clock change
    Turns,          \* clock changes: [at |-> moment, by |-> ticks]
    Cap,            \* MAX_QUIET_PERIOD_SHIFT_ITERATIONS
    MaxEdits,       \* bound: writes to the quiet periods
    Absent,         \* a field the payload does not have
    None

Times == 0 .. Day - 1
Types == {"ONCE", "RECURRING"}
OptNat == Nat \cup {None}

Period == [type : Types, start_at : OptNat, end_at : OptNat,
           days : SUBSET (0 .. 6), start_time : Times \cup {None},
           end_time : Times \cup {None}, is_active : BOOLEAN]
Payload == [type : Types \cup {Absent}, start_at : OptNat \cup {Absent},
            end_at : OptNat \cup {Absent}, days : (SUBSET (0 .. 6)) \cup {Absent},
            start_time : Times \cup {None, Absent},
            end_time : Times \cup {None, Absent}, is_active : BOOLEAN \cup {Absent}]
Fields == {"type", "start_at", "end_at", "days", "start_time", "end_time",
           "is_active"}

ASSUME TimeAssumption ==
    /\ Day \in Nat \ {0}
    /\ Shift \in 0 .. Day - 1
    /\ Moments \subseteq Nat
    /\ Turns \subseteq [at : Nat, by : {-Shift, 0, Shift}]
ASSUME BoundsAssumption == Cap \in Nat \ {0} /\ MaxEdits \in Nat
ASSUME MarkersAssumption == None \notin Int /\ Absent # None
ASSUME InputsAssumption == IsFiniteSet(Ids) /\ Payloads \subseteq Payload

VARIABLES
    turn,       \* the clock change of this behaviour
    periods,    \* per id: the row, or None
    patch,      \* per request: the row it read and its payload, or None
    edits,      \* writes so far
    call        \* the computation under way, or finished, or None

vars == <<turn, periods, patch, edits, call>>

Rows == [Ids -> Period \cup {None}]
Patch == [id : Ids, row : Period, payload : Payloads]
Call == [at : Moments, effective : Nat, shifts : 0 .. Cap,
         prefetched : Rows \cup {None}, seen : SUBSET Period, last : Rows,
         done : BOOLEAN]

TypeOK ==
    /\ turn \in Turns
    /\ periods \in Rows
    /\ patch \in [Requests -> Patch \cup {None}]
    /\ edits \in 0 .. MaxEdits
    /\ call \in Call \cup {None}

Init ==
    /\ turn \in Turns
    /\ periods = [i \in Ids |-> None]
    /\ patch = [r \in Requests |-> None]
    /\ edits = 0
    /\ call = None

-----------------------------------------------------------------------------
(* The wall clock *)

\* timezone.localtime
Localtime(t) == IF t >= turn.at THEN t + turn.by ELSE t

\* _build_local_datetime: make_aware takes the first of two moments with the
\* same local time (fold = 0), and the old offset for a local time that is
\* skipped.
BuildLocalDatetime(l) ==
    IF turn.by <= 0
    THEN IF l < turn.at THEN l ELSE l - turn.by
    ELSE IF l < turn.at + turn.by THEN l ELSE l - turn.by

Weekday(l) == (l \div Day) % 7
Midnight(l) == l - (l % Day)

-----------------------------------------------------------------------------
(* notifications/scheduling.py *)

\* Mutant: the hours after midnight are looked up under their own weekday.
GetQuietPeriodEndForPeriodSameDay(q, at) ==
    LET l == Localtime(at)
        time == l % Day
    IN  CASE ~q.is_active -> None
          [] q.is_active /\ q.type = "ONCE" ->
               IF q.start_at <= at /\ at < q.end_at THEN q.end_at ELSE None
          [] q.is_active /\ q.type = "RECURRING" /\ q.end_time > q.start_time ->
               IF Weekday(l) \in q.days /\ q.start_time <= time /\ time < q.end_time
               THEN BuildLocalDatetime(Midnight(l) + q.end_time) ELSE None
          [] OTHER ->
               IF Weekday(l) \in q.days /\ time >= q.start_time
               THEN BuildLocalDatetime(Midnight(l) + Day + q.end_time)
               ELSE IF Weekday(l) \in q.days /\ time < q.end_time
               THEN BuildLocalDatetime(Midnight(l) + q.end_time)
               ELSE None

\* get_quiet_period_end_for_period: a window whose end is not after its start
\* belongs to the day it starts on and ends on the next.
GetQuietPeriodEndForPeriod(q, at) ==
    LET l == Localtime(at)
        time == l % Day
    IN  CASE ~q.is_active -> None
          [] q.is_active /\ q.type = "ONCE" ->
               IF q.start_at <= at /\ at < q.end_at THEN q.end_at ELSE None
          [] q.is_active /\ q.type = "RECURRING" /\ q.end_time > q.start_time ->
               IF Weekday(l) \in q.days /\ q.start_time <= time /\ time < q.end_time
               THEN BuildLocalDatetime(Midnight(l) + q.end_time) ELSE None
          [] OTHER ->
               IF Weekday(l) \in q.days /\ time >= q.start_time
               THEN BuildLocalDatetime(Midnight(l) + Day + q.end_time)
               ELSE IF (Weekday(l) - 1) % 7 \in q.days /\ time < q.end_time
               THEN BuildLocalDatetime(Midnight(l) + q.end_time)
               ELSE None

Stored(rows) == {rows[i] : i \in Ids} \ {None}

\* get_quiet_period_end_from_iterable
GetQuietPeriodEnd(rows, at) ==
    LET ends == {GetQuietPeriodEndForPeriod(q, at) : q \in Stored(rows)} \ {None}
    IN  IF ends = {} THEN None ELSE CHOOSE e \in ends : \A f \in ends : e >= f

\* compute_effective_scheduled_for is called, with prefetched rows or without.
Begin(at, prefetched) ==
    /\ call = None
    /\ call' = [at |-> at, effective |-> at, shifts |-> 0,
                prefetched |-> IF prefetched THEN periods ELSE None,
                seen |-> {}, last |-> periods, done |-> FALSE]
    /\ UNCHANGED <<turn, periods, patch, edits>>

\* One turn of its loop.  `seen' keeps the rows it was shown, `last' the ones
\* of its last query.
Iterate ==
    /\ call # None
    /\ ~call.done
    /\ LET rows == IF call.prefetched = None THEN periods ELSE call.prefetched
           e == GetQuietPeriodEnd(rows, call.effective)
       IN  IF call.shifts = Cap
           THEN call' = [call EXCEPT !.done = TRUE]
           ELSE IF e = None \/ e <= call.effective
           THEN call' = [call EXCEPT !.done = TRUE, !.last = rows,
                                     !.seen = @ \cup Stored(rows)]
           ELSE call' = [call EXCEPT !.effective = e, !.shifts = @ + 1,
                                     !.last = rows, !.seen = @ \cup Stored(rows)]
    /\ UNCHANGED <<turn, periods, patch, edits>>

-----------------------------------------------------------------------------
(* The API *)

\* What a row and a payload make together; a change of type forgets the dates
\* and times of the row.
Merged(row, p) ==
    LET type == IF p.type = Absent THEN row.type ELSE p.type
        kept(f) == IF type = row.type \/ f \in {"type", "is_active"} THEN row[f]
                   ELSE IF f = "days" THEN {} ELSE None
    IN  [f \in Fields |-> IF p[f] = Absent THEN kept(f) ELSE p[f]]

\* QuietPeriodWriteMixin.validate
Validates(m) ==
    IF m.type = "ONCE"
    THEN /\ m.start_at # None /\ m.end_at # None
         /\ m.end_at > m.start_at
         /\ m.days = {} /\ m.start_time = None /\ m.end_time = None
    ELSE /\ m.days # {}
         /\ m.start_time # None /\ m.end_time # None
         /\ m.start_time # m.end_time
         /\ m.start_at = None /\ m.end_at = None

\* _normalize_payload, then update: the fields of the other type are cleared,
\* the others are the payload's or the row's.
Normalized(row, p) ==
    LET w == [f \in Fields |-> IF p[f] = Absent THEN row[f] ELSE p[f]]
    IN  IF w.type = "ONCE"
        THEN [w EXCEPT !.days = {}, !.start_time = None, !.end_time = None]
        ELSE [w EXCEPT !.start_at = None, !.end_at = None]

\* The row a creation starts from: the defaults of the model.
Blank == [type |-> "ONCE", start_at |-> None, end_at |-> None, days |-> {},
          start_time |-> None, end_time |-> None, is_active |-> TRUE]

Edit(i, row) ==
    /\ edits < MaxEdits
    /\ edits' = edits + 1
    /\ periods' = [periods EXCEPT ![i] = row]

\* POST: an id is never given twice, so not while a PATCH may bring it back.
Create(i, p) ==
    /\ periods[i] = None
    /\ \A r \in Requests : patch[r] # None => patch[r].id # i
    /\ Validates(Merged(Blank, p))
    /\ Edit(i, Normalized(Blank, p))
    /\ UNCHANGED <<turn, patch, call>>

\* PATCH reads the row and validates ...
PatchRead(r, i, p) ==
    /\ patch[r] = None
    /\ edits < MaxEdits
    /\ periods[i] # None
    /\ Validates(Merged(periods[i], p))
    /\ patch' = [patch EXCEPT ![r] = [id |-> i, row |-> periods[i], payload |-> p]]
    /\ UNCHANGED <<turn, periods, edits, call>>

\* Mutant: only the fields of the payload are written, with the cleared ones.
PatchSaveGivenFields(r) ==
    /\ patch[r] # None
    /\ periods[patch[r].id] # None
    /\ LET w == Normalized(patch[r].row, patch[r].payload)
           i == patch[r].id
       IN  Edit(i, [f \in Fields |-> IF w[f] = patch[r].row[f]
                                     THEN periods[i][f] ELSE w[f]])
    /\ patch' = [patch EXCEPT ![r] = None]
    /\ UNCHANGED <<turn, call>>

\* ... and saves every field, which also brings back a row deleted meanwhile.
PatchSave(r) ==
    /\ patch[r] # None
    /\ Edit(patch[r].id, Normalized(patch[r].row, patch[r].payload))
    /\ patch' = [patch EXCEPT ![r] = None]
    /\ UNCHANGED <<turn, call>>

\* DELETE
Delete(i) ==
    /\ periods[i] # None
    /\ Edit(i, None)
    /\ UNCHANGED <<turn, patch, call>>

Next ==
    \/ \E at \in Moments, prefetched \in BOOLEAN : Begin(at, prefetched)
    \/ Iterate
    \/ \E i \in Ids, p \in Payloads : Create(i, p)
    \/ \E r \in Requests, i \in Ids, p \in Payloads : PatchRead(r, i, p)
    \/ \E r \in Requests : PatchSave(r)
    \/ \E i \in Ids : Delete(i)

Spec == Init /\ [][Next]_vars

-----------------------------------------------------------------------------
(* What a quiet period means *)

\* The reference: the windows of a period as sets of moments by the wall clock,
\* one for each day of its days, and a once-only period as its interval.
Quiet(q, t) ==
    /\ q.is_active
    /\ IF q.type = "ONCE"
       THEN t \in q.start_at .. q.end_at - 1
       ELSE \E d \in -1 .. Localtime(t) \div Day :
              LET last == d * Day + q.end_time
                          + (IF q.end_time <= q.start_time THEN Day ELSE 0)
              IN  /\ d % 7 \in q.days
                  /\ Localtime(t) \in d * Day + q.start_time .. last - 1

\* A moment whose windows the change of the clock may move.
NearTurn(t) == turn.by # 0 /\ t \in turn.at - Shift .. turn.at + Shift

-----------------------------------------------------------------------------
(* Properties *)

\* Whatever PATCHes follow one another, change the type of a row, or overtake
\* one another, every row that is stored is one a POST could have made: the
\* computation meets no half-converted period.
StoredIsValid == \A q \in Stored(periods) : Validates(q)

\* The effective date is the first free moment.  The computation only puts a
\* notification off over moments that are quiet by some row it was shown,
\* however the rows change meanwhile; and its answer is not quiet by the rows it
\* looked at last, unless it ran into its cap.  Only where the clock is put back
\* may it answer a moment that is quiet by the wall clock.
EffectiveIsFirstFree ==
    call # None =>
        /\ \A t \in call.at .. call.effective - 1 :
               (\E q \in call.seen : Quiet(q, t)) \/ NearTurn(t)
        /\ call.done /\ call.shifts < Cap =>
               \/ \A q \in Stored(call.last) : ~Quiet(q, call.effective)
               \/ turn.by < 0 /\ NearTurn(call.effective)

=============================================================================
