----------------------------- MODULE PutIfAbsent -----------------------------
(***************************************************************************)
(* What an idempotency key promises its clients: a register per key that   *)
(* the first request fills, in one indivisible step, with the fingerprint  *)
(* of its payload.  Every later request with that key is told whether its  *)
(* own fingerprint is the one in the register, until the register is       *)
(* emptied again.                                                          *)
(***************************************************************************)
CONSTANTS Requests, Keys, Prints, None

VARIABLES
    asked,       \* per request: its key and fingerprint, or None
    register,    \* per key: the fingerprint it stands for, or None
    verdict      \* per request: what it was told, or None

vars == <<asked, register, verdict>>

Init ==
    /\ asked = [r \in Requests |-> None]
    /\ register = [k \in Keys |-> None]
    /\ verdict = [r \in Requests |-> None]

\* A request comes in.
Ask(r, k, p) ==
    /\ asked[r] = None
    /\ asked' = [asked EXCEPT ![r] = [key |-> k, print |-> p]]
    /\ UNCHANGED <<register, verdict>>

\* A request takes effect.
Decide(r) ==
    /\ asked[r] # None
    /\ verdict[r] = None
    /\ LET k == asked[r].key
           p == asked[r].print
       IN  IF register[k] = None
           THEN /\ register' = [register EXCEPT ![k] = p]
                /\ verdict' = [verdict EXCEPT ![r] = "created"]
           ELSE /\ verdict' = [verdict EXCEPT ![r] =
                       IF register[k] = p THEN "existing" ELSE "conflict"]
                /\ UNCHANGED register
    /\ UNCHANGED asked

\* The rows behind some keys are deleted for good.
Empty(K) ==
    /\ \A k \in K : register[k] # None
    /\ register' = [k \in Keys |-> IF k \in K THEN None ELSE register[k]]
    /\ UNCHANGED <<asked, verdict>>

Next ==
    \/ \E r \in Requests, k \in Keys, p \in Prints : Ask(r, k, p)
    \/ \E r \in Requests : Decide(r)
    \/ \E K \in SUBSET Keys : Empty(K)

Spec == Init /\ [][Next]_vars
=============================================================================
