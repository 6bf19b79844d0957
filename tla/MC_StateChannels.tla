-------------------------- MODULE MC_StateChannels --------------------------
EXTENDS StateChannels

CONSTANTS c1, c2, c3, c4, r1, r2, g, x, y, coin

Plain == [kind |-> "balances", routers |-> {}, chain |-> x, gateway |-> None,
        channel |-> <<r1, x>>, asset |-> coin]
MCAsks ==
    {[Plain EXCEPT !.kind = k] : k \in {"initialize", "deposit", "withdraw", "balances", "mint"}}
    \cup {[Plain EXCEPT !.kind = "create", !.routers = R] : R \in {{r1}, {r1, r2}}}
    \cup {[Plain EXCEPT !.kind = "create", !.routers = {r1, r2}, !.gateway = g]}
MCEarlier == {{}, {<<r1, x>>, <<r2, y>>}}
MCAllows == {<<r1, g>>}
=============================================================================
