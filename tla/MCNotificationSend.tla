------------------------ MODULE MCNotificationSend ------------------------
(* Instances of NotificationSend for TLC. *)
EXTENDS NotificationSend, TLC

\* Backoff for two and for three attempts: the second wait is the longer one.
MCBackoff2 == <<1>>
MCBackoff3 == <<1, 2>>

MCSymmetry == Permutations(Workers) \cup Permutations(Requests)

=============================================================================
