----------------------------- MODULE MCEaInfra -----------------------------
(* A small instance of EaInfra: a function whose repository refers to the  *)
(* gateway and the network of another one, where the gateway looks the     *)
(* network up by its name and the network names the gateway.               *)
EXTENDS EaInfra, TLC

CONSTANTS app, core, fn, apim, vnet, n1, n2

HomeOf == (fn :> app) @@ (apim :> core) @@ (vnet :> core)
LookUps == {<<fn, apim>>, <<fn, vnet>>, <<apim, vnet>>}
References == LookUps \union {<<vnet, apim>>}
MatchOf == (fn :> {n1, n2}) @@ (apim :> {}) @@ (vnet :> {})
=============================================================================
