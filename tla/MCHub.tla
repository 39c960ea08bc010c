-------------------------------- MODULE MCHub --------------------------------
(***************************************************************************)
(* Instances of Hub for TLC.                                               *)
(***************************************************************************)
EXTENDS Hub, TLC

CONSTANTS k1, k2, k3, c1, c2

\* Two clients, one of which reconnects while its old connection lingers.
TwoClients == k1 :> c1 @@ k2 :> c1 @@ k3 :> c2

\* Two clients with one connection each.
OneEach == k1 :> c1 @@ k3 :> c2

\* The two connections of one client exchanged.
SymmetryReconnect == Permutations({k1, k2})

==============================================================================
