---------------------------- MODULE MCGameUpdate ----------------------------
(* GameUpdate instantiated for TLC: each Minecraft needs its LWJGL, Forge 1    *)
(* needs Minecraft 1, Forge 2 needs LWJGL 2 and would like Minecraft 2.      *)
EXTENDS GameUpdate, TLC

CONSTANTS forge, mc, lwjgl

OrderMC == <<forge, lwjgl, mc>>   \* net.minecraftforge, org.lwjgl, net.minecraft
Two == {1, 2}
Exactly(u, v) == [uid |-> u, equals |-> v, suggests |-> 0]
Prefer(u, v) == [uid |-> u, equals |-> 0, suggests |-> v]
InfoMC == (mc    :> [v \in Two |-> [requires |-> {Exactly(lwjgl, v)}, volatile |-> FALSE]])
       @@ (lwjgl :> [v \in Two |-> [requires |-> {}, volatile |-> TRUE]])
       @@ (forge :> [v \in Two |-> [requires |-> IF v = 1 THEN {Exactly(mc, 1)}
                                                 ELSE {Exactly(lwjgl, 2), Prefer(mc, 2)},
                                    volatile |-> FALSE]])
ServedMC == ToSet(OrderMC) \X Two
HardCodedMC == [u \in ToSet(OrderMC) |-> 0]
DiskMC == {<<mc, 1>>}
Saved(u, v, dep) == [NewComponent(u, v, dep, u = mc).row EXCEPT !.cachedVersion = v]
JustMinecraft == <<Saved(mc, 1, FALSE)>>
ForgeAlone == <<Saved(lwjgl, 1, TRUE), Saved(forge, 2, FALSE)>>
FirstMC == {JustMinecraft, ForgeAlone}
StuckMC == {forge}
=============================================================================
