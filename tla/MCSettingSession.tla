-------------------------- MODULE MCSettingSession --------------------------
(* SettingSession on small instances.                                      *)
EXTENDS SettingSession, TLC

CONSTANTS w1, r1, r2

\* Every route is on the one wall.
OneWall == [r \in Routes |-> w1]

Alike == Permutations(Clients) \cup Permutations(Routes)
=============================================================================
