----------------------------- MODULE MCAuthFlow -----------------------------
(* Accounts of every type, new and loaded, with several sign-ins in a row.   *)
EXTENDS AuthFlow

AllTypes == {"MSA", "Mojang", "Authlib", "Offline"}
=============================================================================
