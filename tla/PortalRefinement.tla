-------------------------- MODULE PortalRefinement --------------------------
(***************************************************************************)
(* The Portal seen gateway by gateway. A gateway's lifecycle and height    *)
(* are those of the light client that serves it: the first configured     *)
(* client of its vendor, once initialized for it.                          *)
(***************************************************************************)
EXTENDS Portal

\* instance i is the one match_light_client_by_vendor returns for its vendor
Primary(i) == \A j \in 1..(i - 1) : LightClientsCfg[j] # LightClientsCfg[i]

\* in the client states L, instance i serves gateway g
Serves(L, i, g) == Primary(i) /\ L[i].initialized /\ L[i].chain = g
Served(L, g) == \E i \in Instances : Serves(L, i, g)
ServedBy(L, g) == CHOOSE i \in Instances : Serves(L, i, g)

\* the lifecycle and height a client state s gives the gateway it serves
SetupOfState(s) ==
  IF s.initialized THEN IF s.operational THEN "On" ELSE "Off" ELSE "Unset"
HeightOfState(s) == IF s.initialized THEN s.height ELSE 0

SetupOf(L, g) == IF Served(L, g) THEN SetupOfState(L[ServedBy(L, g)]) ELSE "Unset"
HeightOf(L, g) == IF Served(L, g) THEN HeightOfState(L[ServedBy(L, g)]) ELSE 0

GatewaySetup == [g \in Gateways |-> SetupOf(lc, g)]
GatewayHeight == [g \in Gateways |-> HeightOf(lc, g)]

\* the last call without its result, and the result of a successful query
\* or verification
LastCall ==
  IF ret = None THEN None
  ELSE [op |-> ret.op, gw |-> ret.gw, ok |-> ret.ok, arg |-> ret.arg]

LastResult ==
  IF ret # None /\ ret.ok /\ ret.op \in {"Query", "Verify", "VerifyAndRecode"}
  THEN ret.out ELSE None

G == INSTANCE PortalGateways
       WITH setup <- GatewaySetup, height <- GatewayHeight,
            call <- LastCall, result <- LastResult

\* the results a call of op may return
OutsOf(op, ok) == IF ok THEN OkOut(op) ELSE Errors

\* Option::None is no call record (a model value in every run).
ASSUME NoneIsNoCall ==
  \A op \in Ops, g \in Gateways, ok \in BOOLEAN, a \in Codecs \cup {None} :
    \A out \in OutsOf(op, ok) : None # Ret(op, g, ok, out, a)

\* No two gateways are registered under one vendor.
VendorsUnshared ==
  \A g, h \in Gateways : GatewayVendorOf[g] = GatewayVendorOf[h] => g = h

\* The Portal implements the per-gateway promise of spec 4.2 and 8: every
\* call addressed to a gateway (submit_headers, initialize, turn_on/off,
\* the queries and the verify_* calls) either fails and changes no
\* gateway, or acts on that gateway alone, and a proof is only accepted
\* from the gateway's own chain up to the height its client finalized.
ImplementsPortalGateways == G!GSpec
=============================================================================
