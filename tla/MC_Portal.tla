------------------------------ MODULE MC_Portal ------------------------------
(* Three gateways of three vendors; T::LightClients configures Rococo,      *)
(* Ethereum and a second, shadowed, Rococo client, and no Kusama client.   *)
EXTENDS PortalRefinement, TLC

CONSTANTS g1, g2, g3

MCGateways == {g1, g2, g3}
MCGatewayVendorOf == (g1 :> "Rococo") @@ (g2 :> "Ethereum") @@ (g3 :> "Kusama")
MCNativeCodec == (g1 :> "Scale") @@ (g2 :> "Rlp") @@ (g3 :> "Scale")
MCLightClientsCfg == <<"Rococo", "Ethereum", "Rococo">>

(* Two gateways registered under the same vendor, Rococo, served by the    *)
(* single configured Rococo client, as spec section 3 allows ("many chain  *)
(* identifiers may map to the same vendor").                               *)
MCSharedVendorOf == (g1 :> "Rococo") @@ (g2 :> "Rococo") @@ (g3 :> "Ethereum")
MCSharedNativeCodec == (g1 :> "Scale") @@ (g2 :> "Scale") @@ (g3 :> "Rlp")
MCSharedCfg == <<"Rococo">>
=============================================================================
