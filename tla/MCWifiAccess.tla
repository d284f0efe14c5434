----------------------------- MODULE MCWifiAccess -----------------------------
(***************************************************************************)
(* A small instance of WifiAccess for TLC.  Stations are interchangeable,  *)
(* and so are the leases; the properties do not tell them apart.           *)
(***************************************************************************)
EXTENDS WifiAccess, TLC

CONSTANTS s1, s2, l1, l2

TwoStations == {s1, s2}
TwoLeases == {l1, l2}
Interchangeable == Permutations(TwoStations) \cup Permutations(TwoLeases)

=============================================================================
