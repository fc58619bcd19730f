------------------------- MODULE MCIdempotentCreate -------------------------
EXTENDS IdempotentCreate, TLC

CONSTANTS r1, r2, r3, k1

O(e, k, b, w) == [endpoint |-> e, key |-> k, body |-> b, when |-> w]

\* One key under contention: both endpoints, payloads that agree and payloads
\* that differ, one that is rendered and one that is dated, and bulk-send.
MCOps ==
    { O("create", k1, "text", "absent"), O("create", k1, "template", "date"),
      O("send", k1, "text", "absent"),
      O("send", "missing", "text", "absent"), O("bulk", k1, "text", "absent") }

\* A draft, and a bulk-send that queues it.
MCBulk == { O("create", k1, "text", "absent"), O("bulk", k1, "text", "absent") }

MCSymmetry == Permutations(Requests)
=============================================================================
