-------------------------- MODULE MCConcurrentTask --------------------------
(* ConcurrentTask instantiated for TLC.                                      *)
EXTENDS ConcurrentTask

CONSTANTS t1, t2, t3

Three == {t1, t2, t3}
AllButFirst == {t2, t3}
=============================================================================
