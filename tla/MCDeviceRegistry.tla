------------------------- MODULE MCDeviceRegistry -------------------------
(* Instances of DeviceRegistry for TLC. *)
EXTENDS DeviceRegistry, TLC

MCSymmetry == Permutations(Requests) \cup Permutations(Users) \cup Permutations(Tokens)

=============================================================================
