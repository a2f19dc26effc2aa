----------------------------- MODULE MCWifiStore -----------------------------
(* WifiStore for TLC: interchangeable networks and passwords.              *)
EXTENDS WifiStore, TLC

Symmetry == Permutations(Ssid) \cup Permutations(Password)
=============================================================================
