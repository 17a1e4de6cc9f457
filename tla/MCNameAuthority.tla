---------------------------- MODULE MCNameAuthority ----------------------------
(***************************************************************************)
(* NameAuthority for TLC: every hostname of up to three labels out of      *)
(* five, two of which are spellings of one and two of which hold a "*".    *)
(***************************************************************************)
EXTENDS NameAuthority

CONSTANTS c1, c2

AllLabels == {"x", "X", "*", "w*", ""}
Lower == [l \in AllLabels |-> IF l = "X" THEN "x" ELSE l]
AllNames == UNION {[1..n -> AllLabels] : n \in 1..3}

Reg(d, c, s) == [domains |-> d, class |-> c, sync |-> s]
Both == {"ingresses", "gateways"}

(* "*.X" and "x."; "x.x", "*.x.x" and "*.w*"; "x" and "*.."; "x.x.x" and "". *)
Registrations ==
    {Reg({<<"*", "X">>, <<"x", "">>}, c1, Both),
     Reg({<<"x", "x">>, <<"*", "x", "x">>, <<"*", "w*">>}, c2, Both),
     Reg({<<"x">>, <<"*", "", "">>}, NoClassName, {"gateways"}),
     Reg({<<"x", "x", "x">>, <<"">>}, c1, {"ingresses"})}

(* A route that inherits or names "x.x.x" and "w*"; the tenant rewrites that one. *)
Written ==
    [ingress |-> {[rules |-> {<<"x", "X", "">>, <<"x">>, <<"">>},
                   tls   |-> {<<"x", "x">>, <<"x", "x", "x">>}]},
     gateway |-> {[listeners |-> {<<"x", "x">>, <<"*", "x", "x">>, <<"">>}]},
     route   |-> {[hostnames |-> {}], [hostnames |-> {<<"x", "x", "x">>, <<"w*">>}]}]
================================================================================
