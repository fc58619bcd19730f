--------------------------- MODULE MCQuietPeriods ---------------------------
EXTENDS QuietPeriods, TLC

CONSTANTS i1, i2, r1, r2

Empty == [f \in Fields |-> Absent]

\* Once-only windows that touch, windows of a day and over midnight, a change of
\* type with and without the fields it needs, and a switch.
MCPayloads ==
    { [Empty EXCEPT !.start_at = 6, !.end_at = 9],
      [Empty EXCEPT !.type = "ONCE", !.start_at = 9, !.end_at = 13],
      [Empty EXCEPT !.type = "RECURRING", !.days = {0, 1, 2}, !.start_time = 1,
                    !.end_time = 3],
      [Empty EXCEPT !.type = "RECURRING", !.days = {1, 6}, !.start_time = 3,
                    !.end_time = 1],
      [Empty EXCEPT !.type = "ONCE"],
      [Empty EXCEPT !.end_time = 1],
      [Empty EXCEPT !.is_active = FALSE] }

\* The clock is steady, or changes in the middle of a night of the windows.
MCTurns == { [at |-> 0, by |-> 0], [at |-> 10, by |-> -2], [at |-> 8, by |-> 2] }

\* Inside, at the edges of, and between the windows, and a Sunday night.
MCMoments == {4, 5, 7, 8, 11, 27}

MCSymmetry == Permutations({i1, i2}) \cup Permutations({r1, r2})
=============================================================================
