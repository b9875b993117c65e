---------------------------- MODULE MCInstanceList ----------------------------
(* InstanceList instantiated for TLC: names are tried in the order pack,     *)
(* pack(1); a restored pack may become pack1.                                *)
EXTENDS InstanceList

CONSTANTS pack, pack_1, pack1, t1, t2, t3
IdsMC == {pack, pack_1, pack1}
FreshMC == <<pack, pack_1>>
RestoredMC == [i \in IdsMC |-> IF i = pack THEN <<pack, pack1>> ELSE <<i>>]
ThingsMC == {t1, t2, t3}
\* One of each kind of the placements of t1, t2 and t3.
BeforeMC == {[t \in ThingsMC |-> IF t = t1 THEN i ELSE IF t = t2 THEN j ELSE "unborn"] :
                i \in {"unborn", pack, pack_1}, j \in {"unborn", pack1}}
=============================================================================
