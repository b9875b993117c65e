---------------------------- MODULE MCAccountList ----------------------------
(* An online account and an offline one, a second sign-in for the profile of *)
(* the first, and one launch.                                                *)
EXTENDS AccountList

CONSTANTS acc, again, offline, game

AccountsMC == {acc, again, offline}
LoadedMC == <<acc, offline>>
InternalIdMC == [x \in AccountsMC |-> x]
ProfileMC == [x \in AccountsMC |-> IF x = offline THEN "other" ELSE "same"]
=============================================================================
