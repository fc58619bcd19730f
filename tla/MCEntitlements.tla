--------------------------- MODULE MCEntitlements ---------------------------
EXTENDS Entitlements, TLC

CONSTANTS h1, h2, c1, c2

P(paid, quota, end, grace) ==
    [paid |-> paid, quota |-> quota, end |-> end, grace |-> grace]

\* A plan for one application that ends after day 0, with a grace of a day and
\* without: on day 1 the first still gives access and the second does not.
MCPayloads == { P(TRUE, 1, 0, 1), P(TRUE, 1, 0, None) }

MCSymmetry == Permutations(Handlers) \cup Permutations(Creators)
=============================================================================
