------------------------------ MODULE MCUpdater ------------------------------
(* Updater instantiated for TLC.                                             *)
EXTENDS Updater

CONSTANTS p1, p2, n1, n2, i1

TwoPaths == {p1, p2}
TwoNames == {n1, n2}
OneInstance == {i1}
ApartOrMerged == {[p \in TwoPaths |-> IF p = p1 THEN n1 ELSE n2], [p \in TwoPaths |-> n1]}
UpToTwo == [p \in TwoPaths |-> IF p = p1 THEN {1} ELSE {0, 1, 2}]
=============================================================================
