-------------------------- MODULE MCInboundMailbox --------------------------
EXTENDS InboundMailbox

CONSTANTS p1, p2

Plain == [to |-> "app", from |-> "owner", user |-> TRUE, authentic |-> TRUE,
          robot |-> FALSE, dated |-> FALSE, mid |-> -1, body |-> 1,
          raises |-> FALSE]

\* The same mail twice, one with other content under the same Message-ID, one
\* with a date, one of each refusal, and one that cannot be processed.
MCKinds ==
    { Plain,
      [Plain EXCEPT !.body = 2, !.from = "listed"],
      [Plain EXCEPT !.mid = 0, !.dated = TRUE],
      [Plain EXCEPT !.from = "stranger", !.user = FALSE],
      [Plain EXCEPT !.from = "blocked", !.robot = TRUE],
      [Plain EXCEPT !.authentic = FALSE],
      [Plain EXCEPT !.to = "nobody"],
      [Plain EXCEPT !.to = "elsewhere"],
      [Plain EXCEPT !.raises = TRUE] }
=============================================================================
