------------------------------- MODULE Portal -------------------------------
(***************************************************************************)
(* The verification Portal of pallets/portal (src/pallets/portal/src/lib.rs)*)
(* together with the two collaborators it consumes:                        *)
(*   - the XDNS chain directory, which maps a gateway id to its vendor;    *)
(*   - the light clients configured in T::LightClients, a list of          *)
(*     (vendor, capability) pairs; entry i of the list is instance i.      *)
(* Every Portal call resolves the vendor, picks the FIRST configured light *)
(* client of that vendor and forwards the call, propagating its error.     *)
(* The light clients and XDNS are not in this repository: their           *)
(* behaviour (the Lc* operators and the Xdns* actions) is the contract the *)
(* spec states for them, kept as weak as that contract allows.             *)
(***************************************************************************)
EXTENDS Naturals, Sequences

CONSTANTS
  Gateways,         \* the 4-byte chain ids (model values)
  GatewayVendorOf,  \* the vendor a gateway is registered with in XDNS
  NativeCodec,      \* the codec a gateway's chain really encodes payloads in
  LightClientsCfg,  \* T::LightClients::get(): the configured vendors, in order
  MaxHeight,        \* bound on the height a light client reaches
  None,             \* Option::None
  Garbage           \* a logical value that is not the one that was proven

\* GatewayVendor and Codec of t3rn_primitives / t3rn_abi
Vendors == {"Rococo", "Kusama", "Polkadot", "Ethereum"}
Codecs == {"Scale", "Rlp"}

ASSUME ConstantsAssumption ==
  /\ MaxHeight \in Nat
  /\ GatewayVendorOf \in [Gateways -> Vendors]
  /\ NativeCodec \in [Gateways -> Codecs]
  /\ LightClientsCfg \in Seq(Vendors)
  /\ None \notin Nat

Instances == DOMAIN LightClientsCfg
Heights == 0..MaxHeight
Origins == {"Signed", "Root"}
Descriptors == {"Conformant", "Nonconformant"}
\* a proof built from block h of gateway src
Proofs == [src : Gateways, h : Heights]
\* a payload: the logical value carried and the codec of its bytes
Payloads == [val : (Gateways \X Heights) \cup {Garbage}, codec : Codecs]
Errors == {"GatewayVendorNotFound", "UnimplementedGatewayVendor",
           "BadOrigin", "CapabilityError", "SFXRecodeError"}
Ops == {"SubmitHeaders", "Query", "Verify", "VerifyAndRecode",
        "Initialize", "TurnOn", "TurnOff", "XdnsRegister", "XdnsPurge"}

\* the state of one light client instance
LcStates == [initialized : BOOLEAN, operational : BOOLEAN,
             chain : Gateways \cup {None}, height : Heights]
LcInit == [initialized |-> FALSE, operational |-> FALSE,
           chain |-> None, height |-> 0]

VARIABLES
  xdns,  \* gateway -> vendor recorded by XDNS, or None
  lc,    \* instance -> its light client state
  ret    \* the last call: its operation, gateway and returned value
vars == <<xdns, lc, ret>>

(***************************************************************************)
(* Light client capability (spec section 6), one state per instance.       *)
(* Each operator returns the instance's next state, whether the call       *)
(* succeeded and what it returned.                                         *)
(***************************************************************************)
LcOk(s, out) == [st |-> s, ok |-> TRUE, out |-> out]
LcErr(s) == [st |-> s, ok |-> FALSE, out |-> "CapabilityError"]

LcInitialize(s, origin, g) ==
  IF origin = "Root" /\ ~s.initialized
  THEN LcOk([initialized |-> TRUE, operational |-> TRUE,
             chain |-> g, height |-> 0], "Ok")
  ELSE LcErr(s)

LcSetOperational(s, origin, on) ==
  IF origin = "Root" /\ s.initialized
  THEN LcOk([s EXCEPT !.operational = on], on)
  ELSE LcErr(s)

\* headers of chain src are accepted only by a client following src
LcSubmitHeaders(s, src) ==
  IF s.initialized /\ s.operational /\ s.chain = src /\ s.height < MaxHeight
  THEN LcOk([s EXCEPT !.height = @ + 1], "Ok")
  ELSE LcErr(s)

LcQuery(s) == LcOk(s, IF s.initialized THEN s.height ELSE None)

\* mutant: a proof above the finalized height is accepted
LcAcceptsUnfinalized(s, g, p, target) ==
  /\ s.initialized /\ s.operational
  /\ g = s.chain /\ p.src = s.chain
  /\ target \in {None, p.h}

\* the proof must come from the chain the client follows, which must be g,
\* from a finalized block, and from the target height when one is given
LcAccepts(s, g, p, target) ==
  /\ s.initialized /\ s.operational
  /\ g = s.chain /\ p.src = s.chain /\ p.h <= s.height
  /\ target \in {None, p.h}

\* the verified bytes: block h's payload of chain src in its own encoding
Proven(p) == [val |-> <<p.src, p.h>>, codec |-> NativeCodec[p.src]]

LcVerify(s, g, p, target) ==
  IF LcAccepts(s, g, p, target) THEN LcOk(s, Proven(p)) ELSE LcErr(s)

\* recode_bytes_with_descriptor, reading payload pl as codec inC and writing
\* it in codec outC: it may fail (a non-conformant descriptor always fails,
\* bytes misread under the wrong codec may), and RecodeResults are the
\* payloads it may return
RecodeMayFail(pl, d, inC) == d = "Nonconformant" \/ inC # pl.codec
RecodeResults(pl, d, inC, outC) ==
  IF d = "Nonconformant" THEN {}
  ELSE IF inC = pl.codec THEN {[pl EXCEPT !.codec = outC]}
  ELSE {[val |-> Garbage, codec |-> outC]}

(***************************************************************************)
(* Routing (lib.rs)                                                        *)
(***************************************************************************)
\* mutant: the Ethereum arm of the codec table is lost
MatchVendorWithCodecNoRlp(v) == "Scale"

\* match_vendor_with_codec
MatchVendorWithCodec(v) == IF v = "Ethereum" THEN "Rlp" ELSE "Scale"

\* mutant: the configured list is collected into a map, so the LAST entry
\* of a vendor wins
MatchLightClientByVendorLastMatch(v) ==
  CHOOSE i \in Instances :
    /\ LightClientsCfg[i] = v
    /\ \A j \in (i + 1)..Len(LightClientsCfg) : LightClientsCfg[j] # v

\* match_light_client_by_vendor: the first configured instance of vendor v,
\* which exists iff HasLightClient(v)
HasLightClient(v) == \E i \in Instances : LightClientsCfg[i] = v
MatchLightClientByVendor(v) ==
  CHOOSE i \in Instances :
    /\ LightClientsCfg[i] = v
    /\ \A j \in 1..(i - 1) : LightClientsCfg[j] # v

\* A vendor that T::LightClients lists has a first entry in the list (true of
\* every finite list; stated so that the proofs need no induction).
ASSUME FirstEntryAssumption ==
  \A v \in Vendors :
    HasLightClient(v) =>
      \E i \in Instances : /\ LightClientsCfg[i] = v
                          /\ \A j \in 1..(i - 1) : LightClientsCfg[j] # v

\* match_light_client_by_gateway_id: it succeeds iff RouteOk(g), with the
\* instance Route(g), and fails with RouteError(g) otherwise
RouteOk(g) == xdns[g] # None /\ HasLightClient(xdns[g])
Route(g) == MatchLightClientByVendor(xdns[g])
RouteError(g) ==
  IF xdns[g] = None THEN "GatewayVendorNotFound" ELSE "UnimplementedGatewayVendor"

Ret(op, g, ok, out, arg) == [op |-> op, gw |-> g, ok |-> ok, out |-> out, arg |-> arg]

\* resolve the light client of g and forward the call to it; c is what the
\* capability call returns on lc[Route(g)], used only when routing succeeds
Dispatch(op, g, c) ==
  IF ~RouteOk(g)
  THEN /\ ret' = Ret(op, g, FALSE, RouteError(g), None)
       /\ UNCHANGED lc
  ELSE /\ lc' = [lc EXCEPT ![Route(g)] = c.st]
       /\ ret' = Ret(op, g, c.ok, c.out, None)

(***************************************************************************)
(* Portal calls                                                            *)
(***************************************************************************)
\* the submit_headers extrinsic; the header bytes are those of chain src
SubmitHeaders(origin, g, src) ==
  /\ IF origin # "Signed"
     THEN /\ ret' = Ret("SubmitHeaders", g, FALSE, "BadOrigin", None)
          /\ UNCHANGED lc
     ELSE Dispatch("SubmitHeaders", g, LcSubmitHeaders(lc[Route(g)], src))
  /\ UNCHANGED xdns

\* get_latest_finalized_header ... read_epoch_offset: the seven read-only
\* queries route identically and differ only in which figure of the client
\* they return, abstracted to its finalized height
Query(g) ==
  /\ Dispatch("Query", g, LcQuery(lc[Route(g)]))
  /\ UNCHANGED xdns

\* verify_event_inclusion, verify_state_inclusion, verify_tx_inclusion, which
\* route identically
Verify(g, p, target) ==
  /\ Dispatch("Verify", g, LcVerify(lc[Route(g)], g, p, target))
  /\ UNCHANGED xdns

\* verify_*_inclusion_and_recode: verify, then recode from the codec of the
\* vendor XDNS records for g into outC; the verified bytes are dropped when
\* recoding fails
VerifyAndRecode(g, p, target, d, outC) ==
  /\ IF ~RouteOk(g)
     THEN ret' = Ret("VerifyAndRecode", g, FALSE, RouteError(g), outC)
     ELSE LET v == LcVerify(lc[Route(g)], g, p, target) IN
          IF ~v.ok
          THEN ret' = Ret("VerifyAndRecode", g, FALSE, v.out, outC)
          ELSE LET inC == MatchVendorWithCodec(xdns[g]) IN
               \/ /\ RecodeMayFail(v.out, d, inC)
                  /\ ret' = Ret("VerifyAndRecode", g, FALSE, "SFXRecodeError", outC)
               \/ \E r \in RecodeResults(v.out, d, inC, outC) :
                    ret' = Ret("VerifyAndRecode", g, TRUE, r, outC)
  /\ UNCHANGED <<xdns, lc>>

Initialize(origin, g) ==
  /\ Dispatch("Initialize", g, LcInitialize(lc[Route(g)], origin, g))
  /\ UNCHANGED xdns

TurnOn(origin, g) ==
  /\ Dispatch("TurnOn", g, LcSetOperational(lc[Route(g)], origin, TRUE))
  /\ UNCHANGED xdns

TurnOff(origin, g) ==
  /\ Dispatch("TurnOff", g, LcSetOperational(lc[Route(g)], origin, FALSE))
  /\ UNCHANGED xdns

(***************************************************************************)
(* XDNS (environment): gateways are registered with their vendor and purged*)
(***************************************************************************)
XdnsRegister(g) ==
  /\ xdns[g] = None
  /\ xdns' = [xdns EXCEPT ![g] = GatewayVendorOf[g]]
  /\ ret' = Ret("XdnsRegister", g, TRUE, "Ok", None)
  /\ UNCHANGED lc

XdnsPurge(g) ==
  /\ xdns[g] # None
  /\ xdns' = [xdns EXCEPT ![g] = None]
  /\ ret' = Ret("XdnsPurge", g, TRUE, "Ok", None)
  /\ UNCHANGED lc

Init ==
  /\ xdns = [g \in Gateways |-> None]
  /\ lc = [i \in Instances |-> LcInit]
  /\ ret = None

Next ==
  \/ \E o \in Origins, g, src \in Gateways : SubmitHeaders(o, g, src)
  \/ \E g \in Gateways : Query(g)
  \/ \E g \in Gateways, p \in Proofs, t \in Heights \cup {None} :
       \/ Verify(g, p, t)
       \/ \E d \in Descriptors, c \in Codecs : VerifyAndRecode(g, p, t, d, c)
  \/ \E o \in Origins, g \in Gateways :
       Initialize(o, g) \/ TurnOn(o, g) \/ TurnOff(o, g)
  \/ \E g \in Gateways : XdnsRegister(g) \/ XdnsPurge(g)

Spec == Init /\ [][Next]_vars

(***************************************************************************)
(* Properties                                                              *)
(***************************************************************************)
\* what a successful call of each operation returns
OkOut(op) ==
  CASE op \in {"TurnOn", "TurnOff"} -> BOOLEAN
    [] op = "Query" -> Heights \cup {None}
    [] op \in {"Verify", "VerifyAndRecode"} -> Payloads
    [] OTHER -> {"Ok"}

RetOK(r) ==
  /\ DOMAIN r = {"op", "gw", "ok", "out", "arg"}
  /\ r.op \in Ops /\ r.gw \in Gateways /\ r.ok \in BOOLEAN
  /\ r.arg \in Codecs \cup {None}
  /\ IF r.ok THEN r.out \in OkOut(r.op) ELSE r.out \in Errors

\* Type invariant.
TypeOK ==
  /\ xdns \in [Gateways -> Vendors \cup {None}]
  /\ lc \in [Instances -> LcStates]
  /\ ret = None \/ RetOK(ret)

\* A configured light client that an earlier entry of T::LightClients of the
\* same vendor shadows is never reached by match_light_client_by_vendor, so
\* it stays in its initial state whatever the callers do.
ShadowedClientsUntouched ==
  \A i \in Instances :
    (\E j \in 1..(i - 1) : LightClientsCfg[j] = LightClientsCfg[i])
      => lc[i] = LcInit

\* A light client only ever follows a chain whose XDNS vendor is its own:
\* initialize for gateway g is routed to a client of g's vendor, whatever
\* XDNS registrations and purges happened around it.
ClientFollowsItsVendor ==
  \A i \in Instances :
    lc[i].initialized => /\ lc[i].chain \in Gateways
                         /\ GatewayVendorOf[lc[i].chain] = LightClientsCfg[i]

\* The routing invariant the theorems prove.
RoutingSound == ShadowedClientsUntouched /\ ClientFollowsItsVendor

\* XDNS only ever records a gateway's own vendor.
XdnsSound == \A g \in Gateways : xdns[g] \in {None, GatewayVendorOf[g]}

\* RoutingSound strengthened to an inductive invariant.
RoutingInv == TypeOK /\ XdnsSound /\ RoutingSound

\* The hard-coded vendor -> codec table of match_vendor_with_codec names the
\* codec each gateway's chain really uses (the table's ToDo: "this should
\* come from XDNS").
CodecTableAgrees ==
  \A g \in Gateways : NativeCodec[g] = MatchVendorWithCodec(GatewayVendorOf[g])

\* A successful verify_*_inclusion_and_recode for gateway g returns a value
\* proven from g's own chain (never bytes misread under a wrong source
\* codec), re-encoded in the codec the caller asked for.
RecodeFaithful ==
  (ret # None /\ ret.op = "VerifyAndRecode" /\ ret.ok)
    => /\ ret.out.val \in {<<ret.gw, h>> : h \in Heights}
       /\ ret.out.codec = ret.arg

\* Every step that changes a light client is a call for a gateway whose XDNS
\* vendor is that client's vendor, and the client is the first configured
\* for it; a call whose routing fails touches no client.
ClientTouchedOnlyByItsGateway ==
  [][\A i \in Instances :
       lc'[i] # lc[i] =>
         /\ xdns[ret'.gw] = LightClientsCfg[i]
         /\ \A j \in 1..(i - 1) : LightClientsCfg[j] # LightClientsCfg[i]]_vars

\* Gateway g accepts proofs: its client is reachable, set up for g and on.
Verifiable(g) ==
  /\ RouteOk(g)
  /\ lc[Route(g)].initialized /\ lc[Route(g)].operational
  /\ lc[Route(g)].chain = g

\* Spec 4.2: turn_on/turn_off "express per-gateway enable/disable". So a
\* gateway stops accepting proofs only through a call addressed to it.
GatewayLifecycleIsolation ==
  [][\A g \in Gateways : Verifiable(g) /\ ~Verifiable(g)' => ret'.gw = g]_vars

\* Spec 1: header submission is dispatched to the "per-chain light-client"
\* of the chain named by the call. So a successful submit_headers for
\* gateway g only advances a client that follows g.
HeadersAdvanceAddressedGateway ==
  [][ret'.op = "SubmitHeaders" /\ ret'.ok =>
       \A i \in Instances : lc'[i].height # lc[i].height => lc[i].chain = ret'.gw]_vars
=============================================================================
