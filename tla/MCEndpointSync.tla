---------------------------- MODULE MCEndpointSync ----------------------------
(***************************************************************************)
(* EndpointSync for TLC.  The passing runs check its properties; the       *)
(* definition below, and LimitNeverTearsDown where reads may fail, is what *)
(* a comment or the README of the sources says of a pass, and what TLC     *)
(* refutes of the code.                                                    *)
(***************************************************************************)
EXTENDS EndpointSync

CONSTANTS s1, r1, g1

OneBackend == [r \in {r1} |-> {s1}]

AllSynced == {{}}
ServicesMayStop == {{}, Services}
EachMayStop == {{}, Services, Routers, Gateways}

(* pass.go:87-89: what was pinned and has no host state is released.           *)
UnwantedReleased == \A o \in Objects : obj[o] = "deleting" ~> obj[o] # "deleting"
==============================================================================
