----------------------------- MODULE MCSubServer -----------------------------
(* Instances of SubServer for TLC.                                         *)
EXTENDS SubServer, TLC

CONSTANTS c1, c2, c3

OneClient    == {c1}
TwoClients   == {c1, c2}
Symmetric    == Permutations(Clients)

Answered == {"answered"}
AllKinds == {"answered", "silent", "twice", "long"}
=============================================================================
