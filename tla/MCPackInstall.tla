---------------------------- MODULE MCPackInstall ----------------------------
(* PackInstall instantiated for TLC.                                         *)
EXTENDS PackInstall

CONSTANTS config, options
ModsMC == 1..2
OverridesMC == {config, options}
=============================================================================
