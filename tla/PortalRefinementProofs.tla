----------------------- MODULE PortalRefinementProofs -----------------------
(***************************************************************************)
(* Proof that the Portal implements its per-gateway specification          *)
(* PortalGateways under the mapping of PortalRefinement, for every         *)
(* configuration of T::LightClients, every set of gateways and every       *)
(* height bound, provided no two gateways share a vendor and the codec    *)
(* table of match_vendor_with_codec is right.                              *)
(***************************************************************************)
EXTENDS PortalRefinement, PortalProofs, SequenceTheorems

LEMMA InstancesFacts == Instances = 1..Len(LightClientsCfg)
BY ConstantsAssumption, LenProperties DEF Instances

\* two primary instances of one vendor are the same instance
LEMMA PrimaryUnique ==
  ASSUME NEW i \in Instances, NEW j \in Instances, Primary(i), Primary(j),
         LightClientsCfg[i] = LightClientsCfg[j]
  PROVE  i = j
<1>1. i \in Nat /\ j \in Nat /\ i >= 1 /\ j >= 1
  BY InstancesFacts
<1>2. ~(i < j)
  BY <1>1 DEF Primary
<1>3. ~(j < i)
  BY <1>1 DEF Primary
<1>4. QED
  BY <1>1, <1>2, <1>3

\* every client state of L is well typed and follows its instance's vendor
Follows(L) ==
  /\ L \in [Instances -> LcStates]
  /\ \A i \in Instances : FollowsVendor(L[i], i)

LEMMA FollowsNow ==
  ASSUME RoutingInv
  PROVE  Follows(lc)
BY DEF RoutingInv, TypeOK, RoutingSound, ClientFollowsItsVendor, Follows, FollowsVendor

\* an initialized client of g's vendor follows g when vendors are unshared
LEMMA ChainOfVendor ==
  ASSUME VendorsUnshared, NEW L, Follows(L), NEW r \in Instances,
         NEW g \in Gateways, LightClientsCfg[r] = GatewayVendorOf[g],
         L[r].initialized
  PROVE  L[r].chain = g
BY DEF Follows, FollowsVendor, VendorsUnshared

LEMMA ServesUnique ==
  ASSUME NEW L, Follows(L), NEW g, NEW i \in Instances, NEW j \in Instances,
         Serves(L, i, g), Serves(L, j, g)
  PROVE  i = j
<1>1. LightClientsCfg[i] = LightClientsCfg[j]
  BY DEF Follows, FollowsVendor, Serves
<1>2. QED
  BY <1>1, PrimaryUnique DEF Serves

LEMMA ServedByIs ==
  ASSUME NEW L, Follows(L), NEW g, NEW i \in Instances, Serves(L, i, g)
  PROVE  Served(L, g) /\ ServedBy(L, g) = i
<1>1. Served(L, g)
  BY DEF Served
<1>2. ServedBy(L, g) \in Instances /\ Serves(L, ServedBy(L, g), g)
  BY <1>1 DEF Served, ServedBy
<1>3. QED
  BY <1>1, <1>2, ServesUnique

\* what the mapping shows of a gateway whose routing succeeds: the state of
\* its routed client
LEMMA ViewAtRouted ==
  ASSUME VendorsUnshared, TypeOK, XdnsSound, NEW L, Follows(L),
         NEW g \in Gateways, RouteOk(g)
  PROVE  /\ SetupOf(L, g) = SetupOfState(L[Route(g)])
         /\ HeightOf(L, g) = HeightOfState(L[Route(g)])
<1> DEFINE r == Route(g)
<1>1. /\ r \in Instances
      /\ LightClientsCfg[r] = GatewayVendorOf[g]
      /\ Primary(r)
  BY RouteFacts DEF TypeOK, XdnsSound, RouteOk, Primary
<1>2. CASE L[r].initialized
  <2>1. L[r].chain = g
    BY <1>1, <1>2, ChainOfVendor
  <2>2. Served(L, g) /\ ServedBy(L, g) = r
    BY <1>1, <1>2, <2>1, ServedByIs DEF Serves
  <2>3. QED
    BY <2>2 DEF SetupOf, HeightOf
<1>3. CASE ~L[r].initialized
  <2>1. ~Served(L, g)
    <3> SUFFICES ASSUME NEW i \in Instances, Serves(L, i, g) PROVE FALSE
      BY DEF Served
    <3>1. LightClientsCfg[i] = LightClientsCfg[r]
      BY <1>1 DEF Follows, FollowsVendor, Serves
    <3>2. i = r
      BY <1>1, <3>1, PrimaryUnique DEF Serves
    <3>3. QED
      BY <1>3, <3>2 DEF Serves
  <2>2. QED
    BY <1>3, <2>1 DEF SetupOf, HeightOf, SetupOfState, HeightOfState
<1>4. QED
  BY <1>2, <1>3

\* changing only instance r, which follows g before and after, leaves the
\* view of every other gateway as it was
LEMMA ViewElsewhere ==
  ASSUME Follows(lc), Follows(lc'), NEW r \in Instances, NEW g,
         \A i \in Instances \ {r} : lc'[i] = lc[i],
         lc[r].initialized => lc[r].chain = g,
         lc'[r].initialized => lc'[r].chain = g,
         NEW h, h # g
  PROVE  SetupOf(lc', h) = SetupOf(lc, h) /\ HeightOf(lc', h) = HeightOf(lc, h)
<1>1. \A i \in Instances : Serves(lc', i, h) <=> Serves(lc, i, h)
  BY DEF Serves
<1>2. CASE Served(lc, h)
  <2>1. PICK i \in Instances : Serves(lc, i, h)
    BY <1>2 DEF Served
  <2>2. Serves(lc', i, h) /\ i # r
    BY <1>1, <2>1 DEF Serves
  <2>3. ServedBy(lc, h) = i /\ ServedBy(lc', h) = i /\ Served(lc', h)
    BY <2>1, <2>2, ServedByIs
  <2>4. QED
    BY <1>2, <2>2, <2>3 DEF SetupOf, HeightOf
<1>3. CASE ~Served(lc, h)
  BY <1>1, <1>3 DEF Served, SetupOf, HeightOf
<1>4. QED
  BY <1>2, <1>3

\* a routed call that replaces g's client state by st shows, through the
\* mapping, as a change of gateway g alone
LEMMA RoutedView ==
  ASSUME VendorsUnshared, RoutingInv, RoutingInv', NEW g \in Gateways, RouteOk(g),
         xdns' = xdns, NEW st, lc' = [lc EXCEPT ![Route(g)] = st]
  PROVE  /\ GatewaySetup' = [GatewaySetup EXCEPT ![g] = SetupOfState(st)]
         /\ GatewayHeight' = [GatewayHeight EXCEPT ![g] = HeightOfState(st)]
         /\ GatewaySetup[g] = SetupOfState(lc[Route(g)])
         /\ GatewayHeight[g] = HeightOfState(lc[Route(g)])
<1> DEFINE r == Route(g)
<1>1. /\ r \in Instances
      /\ LightClientsCfg[r] = GatewayVendorOf[g]
  BY RouteFacts DEF RoutingInv, TypeOK, XdnsSound, RouteOk
<1>2. Follows(lc) /\ Follows(lc')
  BY DEF RoutingInv, TypeOK, RoutingSound, ClientFollowsItsVendor, Follows, FollowsVendor
<1>3. lc'[r] = st /\ \A i \in Instances \ {r} : lc'[i] = lc[i]
  BY <1>1 DEF RoutingInv, TypeOK
<1>4. /\ SetupOf(lc', g) = SetupOfState(st)
      /\ HeightOf(lc', g) = HeightOfState(st)
      /\ SetupOf(lc, g) = SetupOfState(lc[r])
      /\ HeightOf(lc, g) = HeightOfState(lc[r])
  BY <1>2, <1>3, ViewAtRouted DEF RoutingInv
<1>5. /\ lc[r].initialized => lc[r].chain = g
      /\ lc'[r].initialized => lc'[r].chain = g
  BY <1>1, <1>2, ChainOfVendor
<1>6. \A h \in Gateways \ {g} :
        SetupOf(lc', h) = SetupOf(lc, h) /\ HeightOf(lc', h) = HeightOf(lc, h)
  <2> SUFFICES ASSUME NEW h \in Gateways \ {g}
               PROVE  SetupOf(lc', h) = SetupOf(lc, h) /\ HeightOf(lc', h) = HeightOf(lc, h)
    OBVIOUS
  <2>1. h # g
    OBVIOUS
  <2>2. QED
    BY <1>1, <1>2, <1>3, <1>5, <2>1, ViewElsewhere
<1>7. QED
  BY <1>4, <1>6 DEF GatewaySetup, GatewayHeight

\* a failed call that changes no client is a refusal of its gateway
LEMMA RefuseStep ==
  ASSUME NEW op \in Ops, NEW g \in Gateways, NEW out \in Errors,
         NEW a \in Codecs \cup {None}, ret' = Ret(op, g, FALSE, out, a), lc' = lc
  PROVE  G!Refuse(g)
<1>1. ret' # None
  <2>1. out \in OutsOf(op, FALSE)
    BY DEF OutsOf
  <2>2. QED
    BY <2>1, NoneIsNoCall
<1>2. LastCall' \in [op : G!Ops, gw : {g}, ok : {FALSE}, arg : G!Codecs \cup {None}]
  BY <1>1 DEF LastCall, Ret, G!Ops, G!Codecs, Ops, Codecs
<1>3. LastResult' = None
  BY <1>1 DEF LastResult, Ret
<1>4. UNCHANGED <<GatewaySetup, GatewayHeight>>
  BY DEF GatewaySetup, GatewayHeight
<1>5. QED
  BY <1>2, <1>3, <1>4 DEF G!Refuse

\* a successful call is answered with its result when it is a query or a
\* verification
LEMMA AnswerStep ==
  ASSUME NEW op \in Ops, NEW g \in Gateways, NEW out \in OkOut(op),
         NEW a \in Codecs \cup {None}, ret' = Ret(op, g, TRUE, out, a)
  PROVE  G!Answers(op, g, a,
           IF op \in {"Query", "Verify", "VerifyAndRecode"} THEN out ELSE None)
<1>1. ret' # None
  <2>1. out \in OutsOf(op, TRUE)
    BY DEF OutsOf
  <2>2. QED
    BY <2>1, NoneIsNoCall
<1>2. QED
  BY <1>1 DEF G!Answers, G!Call, LastCall, LastResult, Ret

\* the mapping shows the routed client of g as g's lifecycle and height
LEMMA ViewNow ==
  ASSUME VendorsUnshared, RoutingInv, NEW g \in Gateways, RouteOk(g)
  PROVE  /\ GatewaySetup[g] = SetupOfState(lc[Route(g)])
         /\ GatewayHeight[g] = HeightOfState(lc[Route(g)])
         /\ lc[Route(g)] \in LcStates
<1>1. lc[Route(g)] \in LcStates
  BY RoutedClientFollows
<1>2. QED
  BY <1>1, FollowsNow, ViewAtRouted DEF RoutingInv, GatewaySetup, GatewayHeight

\* a capability call that fails gives the client back unchanged
LEMMA RoutedRefuse ==
  ASSUME RoutingInv, NEW op \in Ops, NEW g \in Gateways, RouteOk(g), NEW c,
         c.st = lc[Route(g)], c.ok = FALSE, c.out \in Errors,
         lc' = [lc EXCEPT ![Route(g)] = c.st], ret' = Ret(op, g, c.ok, c.out, None)
  PROVE  G!Refuse(g)
<1>1. lc' = lc
  BY RouteFacts DEF RoutingInv, TypeOK
<1>2. QED
  BY <1>1, RefuseStep

\* a call whose routing fails is refused
LEMMA UnroutedRefuse ==
  ASSUME TypeOK, NEW op \in Ops, NEW g \in Gateways, ~RouteOk(g),
         NEW a \in Codecs \cup {None},
         ret' = Ret(op, g, FALSE, RouteError(g), a), lc' = lc
  PROVE  G!Refuse(g)
BY RouteErrorType, RefuseStep

(***************************************************************************)
(* Each Portal call maps to a step of its gateway                          *)
(***************************************************************************)
\* the invariant and hypotheses every step below rests on
StepContext == VendorsUnshared /\ RoutingInv /\ RoutingInv'

LEMMA SubmitHeadersMaps ==
  ASSUME StepContext, NEW o \in Origins, NEW g \in Gateways, NEW src \in Gateways,
         SubmitHeaders(o, g, src)
  PROVE  G!Refuse(g) \/ G!Advance(g)
<1>1. CASE o # "Signed"
  BY <1>1, RefuseStep DEF SubmitHeaders, Ops, Errors
<1>2. CASE o = "Signed" /\ ~RouteOk(g)
  BY <1>2, UnroutedRefuse DEF SubmitHeaders, Dispatch, Ops, StepContext, RoutingInv
<1>3. CASE o = "Signed" /\ RouteOk(g)
  <2> DEFINE s == lc[Route(g)]
             c == LcSubmitHeaders(s, src)
  <2>1. /\ lc' = [lc EXCEPT ![Route(g)] = c.st]
        /\ ret' = Ret("SubmitHeaders", g, c.ok, c.out, None)
        /\ xdns' = xdns
    BY <1>3 DEF SubmitHeaders, Dispatch
  <2>2. s \in LcStates /\ GatewaySetup[g] = SetupOfState(s)
        /\ GatewayHeight[g] = HeightOfState(s)
    BY <1>3, ViewNow DEF StepContext
  <2>3. CASE c.ok
    <3>1. /\ s.initialized /\ s.operational /\ s.height < MaxHeight
          /\ c.st = [s EXCEPT !.height = @ + 1] /\ c.out = "Ok"
      BY <2>3 DEF LcSubmitHeaders, LcOk, LcErr
    <3>2. /\ GatewaySetup' = [GatewaySetup EXCEPT ![g] = SetupOfState(c.st)]
          /\ GatewayHeight' = [GatewayHeight EXCEPT ![g] = HeightOfState(c.st)]
      BY <1>3, <2>1, RoutedView DEF StepContext
    <3>3. /\ GatewaySetup[g] = "On" /\ GatewayHeight[g] < MaxHeight
          /\ GatewaySetup' = GatewaySetup
          /\ GatewayHeight' = [GatewayHeight EXCEPT ![g] = @ + 1]
      <4>1. GatewaySetup[g] = "On" /\ SetupOfState(c.st) = "On"
        BY <2>2, <3>1 DEF SetupOfState, LcStates
      <4>2. GatewayHeight[g] = s.height /\ HeightOfState(c.st) = s.height + 1
        BY <2>2, <3>1 DEF HeightOfState, LcStates
      <4>3. s.height \in Nat /\ MaxHeight \in Nat
        BY <2>2, ConstantsAssumption DEF LcStates, Heights
      <4>4. GatewaySetup = [h \in Gateways |-> SetupOf(lc, h)]
        BY DEF GatewaySetup
      <4>5. QED
        BY <3>1, <3>2, <4>1, <4>2, <4>3, <4>4
    <3>4. G!Answers("SubmitHeaders", g, None, None)
      BY <2>1, <2>3, <3>1, AnswerStep DEF OkOut, Ops
    <3>5. QED
      BY <3>3, <3>4 DEF G!Advance
  <2>4. CASE ~c.ok
    <3>1. c.st = s /\ c.ok = FALSE /\ c.out \in Errors
      BY <2>4 DEF LcSubmitHeaders, LcOk, LcErr, Errors
    <3>2. QED
      BY <1>3, <2>1, <3>1, RoutedRefuse DEF StepContext, Ops
  <2>5. QED
    BY <2>3, <2>4
<1>4. QED
  BY <1>1, <1>2, <1>3

LEMMA QueryMaps ==
  ASSUME StepContext, NEW g \in Gateways, Query(g)
  PROVE  G!Refuse(g) \/ G!Read(g)
<1>1. CASE ~RouteOk(g)
  BY <1>1, UnroutedRefuse DEF Query, Dispatch, Ops, StepContext, RoutingInv
<1>2. CASE RouteOk(g)
  <2> DEFINE s == lc[Route(g)]
             out == IF s.initialized THEN s.height ELSE None
  <2>1. lc' = lc /\ ret' = Ret("Query", g, TRUE, out, None)
    BY <1>2, RouteFacts DEF Query, Dispatch, LcQuery, LcOk, StepContext, RoutingInv, TypeOK
  <2>2. s \in LcStates /\ GatewaySetup[g] = SetupOfState(s)
        /\ GatewayHeight[g] = HeightOfState(s)
    BY <1>2, ViewNow DEF StepContext
  <2>3. out \in OkOut("Query")
    BY <2>2 DEF OkOut, LcStates
  <2>4. G!Answers("Query", g, None, out)
    BY <2>1, <2>3, AnswerStep DEF Ops
  <2>5. out = IF GatewaySetup[g] = "Unset" THEN None ELSE GatewayHeight[g]
    BY <2>2 DEF SetupOfState, HeightOfState
  <2>6. UNCHANGED <<GatewaySetup, GatewayHeight>>
    BY <2>1 DEF GatewaySetup, GatewayHeight
  <2>7. QED
    BY <2>4, <2>5, <2>6 DEF G!Read
<1>3. QED
  BY <1>1, <1>2

\* an accepted proof is one of g's own chain at a height g has finalized,
\* and g is on
LEMMA AcceptedProof ==
  ASSUME StepContext, NEW g \in Gateways, RouteOk(g), NEW p \in Proofs, NEW t,
         LcAccepts(lc[Route(g)], g, p, t)
  PROVE  /\ GatewaySetup[g] = "On"
         /\ p.src = g /\ p.h \in 0..GatewayHeight[g]
         /\ Proven(p) = [val |-> <<g, p.h>>, codec |-> NativeCodec[g]]
         /\ NativeCodec[g] \in Codecs
<1>1. lc[Route(g)] \in LcStates /\ GatewaySetup[g] = SetupOfState(lc[Route(g)])
      /\ GatewayHeight[g] = HeightOfState(lc[Route(g)])
  BY ViewNow DEF StepContext
<1>2. NativeCodec[g] \in Codecs
  BY ConstantsAssumption
<1>3. QED
  BY <1>1, <1>2 DEF LcAccepts, SetupOfState, HeightOfState, Proven, Proofs, LcStates, Heights

LEMMA VerifyMaps ==
  ASSUME StepContext, NEW g \in Gateways, NEW p \in Proofs,
         NEW t \in Heights \cup {None}, Verify(g, p, t)
  PROVE  G!Refuse(g) \/ G!Prove(g)
<1>1. CASE ~RouteOk(g)
  BY <1>1, UnroutedRefuse DEF Verify, Dispatch, Ops, StepContext, RoutingInv
<1>2. CASE RouteOk(g)
  <2> DEFINE s == lc[Route(g)]
             c == LcVerify(s, g, p, t)
  <2>1. /\ lc' = [lc EXCEPT ![Route(g)] = c.st]
        /\ ret' = Ret("Verify", g, c.ok, c.out, None)
    BY <1>2 DEF Verify, Dispatch
  <2>2. CASE c.ok
    <3>1. LcAccepts(s, g, p, t) /\ c.out = Proven(p) /\ c.st = s
      BY <2>2, LcVerifyOk DEF LcVerify, LcOk
    <3>2. lc' = lc
      BY <1>2, <2>1, <3>1, RouteFacts DEF StepContext, RoutingInv, TypeOK
    <3>3. /\ GatewaySetup[g] = "On"
          /\ p.h \in 0..GatewayHeight[g]
          /\ Proven(p) = [val |-> <<g, p.h>>, codec |-> NativeCodec[g]]
          /\ NativeCodec[g] \in Codecs
      BY <1>2, <3>1, AcceptedProof
    <3>4. Proven(p) \in OkOut("Verify")
      BY ProvenType DEF OkOut
    <3>5. G!Answers("Verify", g, None, [val |-> <<g, p.h>>, codec |-> NativeCodec[g]])
      BY <2>1, <2>2, <3>1, <3>3, <3>4, AnswerStep DEF Ops
    <3>6. UNCHANGED <<GatewaySetup, GatewayHeight>>
      BY <3>2 DEF GatewaySetup, GatewayHeight
    <3>7. QED
      BY <3>3, <3>5, <3>6 DEF G!Prove, G!Codecs, Codecs
  <2>3. CASE ~c.ok
    <3>1. c.st = s /\ c.ok = FALSE /\ c.out \in Errors
      BY <2>3 DEF LcVerify, LcOk, LcErr, Errors
    <3>2. QED
      BY <1>2, <2>1, <3>1, RoutedRefuse DEF StepContext, Ops
  <2>4. QED
    BY <2>2, <2>3
<1>3. QED
  BY <1>1, <1>2

LEMMA VerifyAndRecodeMaps ==
  ASSUME StepContext, CodecTableAgrees, NEW g \in Gateways, NEW p \in Proofs,
         NEW t \in Heights \cup {None}, NEW d \in Descriptors, NEW outC \in Codecs,
         VerifyAndRecode(g, p, t, d, outC)
  PROVE  G!Refuse(g) \/ G!Prove(g)
<1> DEFINE op == "VerifyAndRecode"
<1>0. lc' = lc /\ op \in Ops
  BY DEF VerifyAndRecode, Ops
<1>1. CASE ~RouteOk(g)
  BY <1>0, <1>1, UnroutedRefuse DEF VerifyAndRecode, StepContext, RoutingInv
<1>2. CASE RouteOk(g)
  <2> DEFINE s == lc[Route(g)]
             v == LcVerify(s, g, p, t)
             inC == MatchVendorWithCodec(xdns[g])
  <2>1. CASE ~v.ok
    <3>1. v.out \in Errors
      BY <2>1 DEF LcVerify, LcOk, LcErr, Errors
    <3>2. QED
      BY <1>0, <1>2, <2>1, <3>1, RefuseStep DEF VerifyAndRecode
  <2>2. CASE v.ok
    <3>1. LcAccepts(s, g, p, t) /\ v.out = Proven(p)
      BY <2>2, LcVerifyOk
    <3>2. /\ GatewaySetup[g] = "On"
          /\ p.src = g /\ p.h \in 0..GatewayHeight[g]
          /\ Proven(p) = [val |-> <<g, p.h>>, codec |-> NativeCodec[g]]
      BY <1>2, <3>1, AcceptedProof
    <3>3. inC = Proven(p).codec
      BY <1>2, <3>2 DEF CodecTableAgrees, RouteOk, StepContext, RoutingInv, XdnsSound
    <3>4. \/ ret' = Ret(op, g, FALSE, "SFXRecodeError", outC)
          \/ \E r \in RecodeResults(Proven(p), d, inC, outC) : ret' = Ret(op, g, TRUE, r, outC)
      BY <1>2, <2>2, <3>1 DEF VerifyAndRecode
    <3>5. CASE ret' = Ret(op, g, FALSE, "SFXRecodeError", outC)
      BY <1>0, <3>5, RefuseStep DEF Errors
    <3>6. ASSUME NEW r \in RecodeResults(Proven(p), d, inC, outC),
                 ret' = Ret(op, g, TRUE, r, outC)
          PROVE  G!Prove(g)
      <4>1. r = [val |-> <<g, p.h>>, codec |-> outC]
        BY <3>2, <3>3, <3>6, RecodeKeepsValue
      <4>2. r \in OkOut(op)
        BY <3>6, ProvenType, RecodeResultsType DEF OkOut
      <4>3. G!Answers(op, g, outC, r)
        BY <1>0, <3>6, <4>2, AnswerStep
      <4>4. UNCHANGED <<GatewaySetup, GatewayHeight>>
        BY <1>0 DEF GatewaySetup, GatewayHeight
      <4>5. QED
        BY <3>2, <4>1, <4>3, <4>4 DEF G!Prove, G!Codecs, Codecs
    <3>7. QED
      BY <3>4, <3>5, <3>6
  <2>3. QED
    BY <2>1, <2>2
<1>3. QED
  BY <1>1, <1>2

LEMMA InitializeMaps ==
  ASSUME StepContext, NEW o \in Origins, NEW g \in Gateways, Initialize(o, g)
  PROVE  G!Refuse(g) \/ G!SetUp(g)
<1>1. CASE ~RouteOk(g)
  BY <1>1, UnroutedRefuse DEF Initialize, Dispatch, Ops, StepContext, RoutingInv
<1>2. CASE RouteOk(g)
  <2> DEFINE s == lc[Route(g)]
             c == LcInitialize(s, o, g)
  <2>1. /\ lc' = [lc EXCEPT ![Route(g)] = c.st]
        /\ ret' = Ret("Initialize", g, c.ok, c.out, None)
        /\ xdns' = xdns
    BY <1>2 DEF Initialize, Dispatch
  <2>2. s \in LcStates /\ GatewaySetup[g] = SetupOfState(s)
    BY <1>2, ViewNow DEF StepContext
  <2>3. CASE c.ok
    <3>1. /\ ~s.initialized /\ c.out = "Ok"
          /\ c.st = [initialized |-> TRUE, operational |-> TRUE,
                     chain |-> g, height |-> 0]
      BY <2>3 DEF LcInitialize, LcOk, LcErr
    <3>2. /\ GatewaySetup' = [GatewaySetup EXCEPT ![g] = SetupOfState(c.st)]
          /\ GatewayHeight' = [GatewayHeight EXCEPT ![g] = HeightOfState(c.st)]
      BY <1>2, <2>1, RoutedView DEF StepContext
    <3>3. /\ GatewaySetup[g] = "Unset"
          /\ GatewaySetup' = [GatewaySetup EXCEPT ![g] = "On"]
          /\ GatewayHeight' = [GatewayHeight EXCEPT ![g] = 0]
      BY <2>2, <3>1, <3>2 DEF SetupOfState, HeightOfState
    <3>4. G!Answers("Initialize", g, None, None)
      BY <2>1, <2>3, <3>1, AnswerStep DEF OkOut, Ops
    <3>5. QED
      BY <3>3, <3>4 DEF G!SetUp
  <2>4. CASE ~c.ok
    <3>1. c.st = s /\ c.ok = FALSE /\ c.out \in Errors
      BY <2>4 DEF LcInitialize, LcOk, LcErr, Errors
    <3>2. QED
      BY <1>2, <2>1, <3>1, RoutedRefuse DEF StepContext, Ops
  <2>5. QED
    BY <2>3, <2>4
<1>3. QED
  BY <1>1, <1>2

LEMMA SetOperationalMaps ==
  ASSUME StepContext, NEW o \in Origins, NEW g \in Gateways, NEW on \in BOOLEAN,
         NEW op \in Ops, op = IF on THEN "TurnOn" ELSE "TurnOff",
         Dispatch(op, g, LcSetOperational(lc[Route(g)], o, on)), xdns' = xdns
  PROVE  G!Refuse(g) \/ G!Toggle(g, on)
<1>1. CASE ~RouteOk(g)
  BY <1>1, UnroutedRefuse DEF Dispatch, StepContext, RoutingInv
<1>2. CASE RouteOk(g)
  <2> DEFINE s == lc[Route(g)]
             c == LcSetOperational(s, o, on)
  <2>1. /\ lc' = [lc EXCEPT ![Route(g)] = c.st]
        /\ ret' = Ret(op, g, c.ok, c.out, None)
    BY <1>2 DEF Dispatch
  <2>2. s \in LcStates /\ GatewaySetup[g] = SetupOfState(s)
        /\ GatewayHeight[g] = HeightOfState(s)
    BY <1>2, ViewNow DEF StepContext
  <2>3. CASE c.ok
    <3>1. /\ s.initialized /\ c.out = on
          /\ c.st = [s EXCEPT !.operational = on]
      BY <2>3 DEF LcSetOperational, LcOk, LcErr
    <3>2. /\ GatewaySetup' = [GatewaySetup EXCEPT ![g] = SetupOfState(c.st)]
          /\ GatewayHeight' = [GatewayHeight EXCEPT ![g] = HeightOfState(c.st)]
      BY <1>2, <2>1, RoutedView DEF StepContext
    <3>3. /\ GatewaySetup[g] # "Unset"
          /\ GatewaySetup' = [GatewaySetup EXCEPT ![g] = IF on THEN "On" ELSE "Off"]
          /\ GatewayHeight' = GatewayHeight
      <4>1. GatewaySetup[g] # "Unset"
        BY <2>2, <3>1 DEF SetupOfState
      <4>2. SetupOfState(c.st) = IF on THEN "On" ELSE "Off"
        BY <2>2, <3>1 DEF SetupOfState, LcStates
      <4>3. HeightOfState(c.st) = GatewayHeight[g]
        BY <2>2, <3>1 DEF HeightOfState, LcStates
      <4>4. GatewayHeight = [h \in Gateways |-> HeightOf(lc, h)]
        BY DEF GatewayHeight
      <4>5. QED
        BY <3>2, <4>1, <4>2, <4>3, <4>4
    <3>4. c.out \in OkOut(op)
      BY <3>1 DEF OkOut
    <3>5. G!Answers(op, g, None, None)
      BY <2>1, <2>3, <3>4, AnswerStep
    <3>6. QED
      BY <3>3, <3>5 DEF G!Toggle
  <2>4. CASE ~c.ok
    <3>1. c.st = s /\ c.ok = FALSE /\ c.out \in Errors
      BY <2>4 DEF LcSetOperational, LcOk, LcErr, Errors
    <3>2. QED
      BY <1>2, <2>1, <3>1, RoutedRefuse DEF StepContext
  <2>5. QED
    BY <2>3, <2>4
<1>3. QED
  BY <1>1, <1>2

LEMMA XdnsMaps ==
  ASSUME NEW g \in Gateways, XdnsRegister(g) \/ XdnsPurge(g)
  PROVE  G!Directory(g)
<1>1. PICK op \in {"XdnsRegister", "XdnsPurge"} : ret' = Ret(op, g, TRUE, "Ok", None)
  BY DEF XdnsRegister, XdnsPurge
<1>2. G!Answers(op, g, None, None)
  BY <1>1, AnswerStep DEF OkOut, Ops
<1>3. UNCHANGED <<GatewaySetup, GatewayHeight>>
  BY DEF XdnsRegister, XdnsPurge, GatewaySetup, GatewayHeight
<1>4. QED
  BY <1>2, <1>3 DEF G!Directory

(***************************************************************************)
(* The refinement                                                          *)
(***************************************************************************)
LEMMA RefinementInit == Init => G!GInit
<1> SUFFICES ASSUME Init PROVE G!GInit
  OBVIOUS
<1>1. \A g \in Gateways : ~Served(lc, g)
  BY DEF Init, Served, Serves, LcInit
<1>2. QED
  BY <1>1 DEF G!GInit, GatewaySetup, GatewayHeight, SetupOf, HeightOf,
         LastCall, LastResult, Init

LEMMA RefinementStep ==
  ASSUME VendorsUnshared, CodecTableAgrees
  PROVE  RoutingInv /\ RoutingInv' /\ [Next]_vars => [G!GNext]_G!gvars
<1> SUFFICES ASSUME RoutingInv, RoutingInv', [Next]_vars PROVE [G!GNext]_G!gvars
  OBVIOUS
<1>0. StepContext
  BY DEF StepContext
<1>1. ASSUME NEW g \in Gateways,
             G!Refuse(g) \/ G!Directory(g) \/ G!SetUp(g) \/ G!Advance(g)
             \/ G!Read(g) \/ G!Prove(g) \/ \E on \in BOOLEAN : G!Toggle(g, on)
      PROVE  G!GNext
  BY <1>1 DEF G!GNext
<1>2. ASSUME NEW o \in Origins, NEW g \in Gateways, NEW src \in Gateways,
             SubmitHeaders(o, g, src)
      PROVE  G!GNext
  BY <1>0, <1>1, <1>2, SubmitHeadersMaps
<1>3. ASSUME NEW g \in Gateways, Query(g) PROVE G!GNext
  BY <1>0, <1>1, <1>3, QueryMaps
<1>4. ASSUME NEW g \in Gateways, NEW p \in Proofs, NEW t \in Heights \cup {None},
             Verify(g, p, t)
      PROVE  G!GNext
  BY <1>0, <1>1, <1>4, VerifyMaps
<1>5. ASSUME NEW g \in Gateways, NEW p \in Proofs, NEW t \in Heights \cup {None},
             NEW d \in Descriptors, NEW c \in Codecs, VerifyAndRecode(g, p, t, d, c)
      PROVE  G!GNext
  BY <1>0, <1>1, <1>5, VerifyAndRecodeMaps
<1>6. ASSUME NEW o \in Origins, NEW g \in Gateways, Initialize(o, g) PROVE G!GNext
  BY <1>0, <1>1, <1>6, InitializeMaps
<1>7. ASSUME NEW o \in Origins, NEW g \in Gateways, TurnOn(o, g) PROVE G!GNext
  <2>1. G!Refuse(g) \/ G!Toggle(g, TRUE)
    BY <1>0, <1>7, SetOperationalMaps DEF TurnOn, Ops
  <2>2. QED
    BY <1>1, <2>1
<1>8. ASSUME NEW o \in Origins, NEW g \in Gateways, TurnOff(o, g) PROVE G!GNext
  <2>1. G!Refuse(g) \/ G!Toggle(g, FALSE)
    BY <1>0, <1>8, SetOperationalMaps DEF TurnOff, Ops
  <2>2. QED
    BY <1>1, <2>1
<1>9. ASSUME NEW g \in Gateways, XdnsRegister(g) \/ XdnsPurge(g) PROVE G!GNext
  BY <1>1, <1>9, XdnsMaps
<1>10. CASE UNCHANGED vars
  BY <1>10 DEF vars, G!gvars, GatewaySetup, GatewayHeight, LastCall, LastResult
<1>11. QED
  BY <1>2, <1>3, <1>4, <1>5, <1>6, <1>7, <1>8, <1>9, <1>10 DEF Next

\* When no two gateways share a vendor and match_vendor_with_codec's table is
\* right, the Portal implements its per-gateway specification for every
\* configuration of T::LightClients and every height bound: each call
\* (submit_headers, initialize, turn_on/off, the queries, the verify_* calls
\* and XDNS changes) either fails and changes no gateway or acts on its own
\* gateway alone, and an accepted proof is of the gateway's own chain at a
\* height its client has finalized.
THEOREM PortalImplementsGateways ==
  ASSUME VendorsUnshared, CodecTableAgrees
  PROVE  Spec => ImplementsPortalGateways
<1>1. Init => G!GInit
  BY RefinementInit
<1>2. RoutingInv /\ RoutingInv' /\ [Next]_vars => [G!GNext]_G!gvars
  BY RefinementStep
<1>3. Spec => []RoutingInv
  BY RoutingInvariant
<1>4. QED
  BY <1>1, <1>2, <1>3, PTL DEF Spec, ImplementsPortalGateways, G!GSpec

(***************************************************************************)
(* With unshared vendors, calls for one gateway leave the others alone     *)
(***************************************************************************)
\* the step formula of GatewayLifecycleIsolation
IsolationStep ==
  \A g \in Gateways : Verifiable(g) /\ ~Verifiable(g)' => ret'.gw = g

\* a gateway whose XDNS record and routed client are untouched stays
\* verifiable
LEMMA KeepVerifiable ==
  ASSUME NEW g \in Gateways, Verifiable(g), xdns'[g] = xdns[g],
         lc'[Route(g)] = lc[Route(g)]
  PROVE  Verifiable(g)'
<1>1. Route(g)' = Route(g)
  BY DEF Route, MatchLightClientByVendor
<1>2. RouteOk(g)'
  BY DEF RouteOk, HasLightClient, Verifiable
<1>3. QED
  BY <1>1, <1>2 DEF Verifiable

\* two gateways of different vendors are routed to different clients
LEMMA DistinctRoutes ==
  ASSUME VendorsUnshared, RoutingInv, NEW g \in Gateways, NEW h \in Gateways,
         RouteOk(g), RouteOk(h), g # h
  PROVE  Route(g) # Route(h)
<1>1. LightClientsCfg[Route(g)] = GatewayVendorOf[g]
      /\ LightClientsCfg[Route(h)] = GatewayVendorOf[h]
  BY RouteFacts DEF RoutingInv, TypeOK, XdnsSound, RouteOk
<1>2. QED
  BY <1>1 DEF VendorsUnshared

\* a call routed to gateway h keeps every other gateway verifiable
LEMMA RoutedIsolation ==
  ASSUME VendorsUnshared, RoutingInv, NEW h \in Gateways, RouteOk(h), NEW st,
         lc' = [lc EXCEPT ![Route(h)] = st], xdns' = xdns, ret'.gw = h
  PROVE  IsolationStep
<1> SUFFICES ASSUME NEW g \in Gateways, Verifiable(g), g # h PROVE Verifiable(g)'
  BY DEF IsolationStep
<1>1. RouteOk(g) /\ Route(g) \in Instances
  BY RouteFacts DEF Verifiable, RoutingInv, TypeOK
<1>2. Route(g) # Route(h)
  BY <1>1, DistinctRoutes
<1>3. lc'[Route(g)] = lc[Route(g)]
  BY <1>1, <1>2 DEF RoutingInv, TypeOK
<1>4. QED
  BY <1>3, KeepVerifiable

\* a call for gateway h that touches no client and no other XDNS record
LEMMA QuietIsolation ==
  ASSUME lc' = lc, NEW h, ret'.gw = h, \A g \in Gateways \ {h} : xdns'[g] = xdns[g]
  PROVE  IsolationStep
<1> SUFFICES ASSUME NEW g \in Gateways, Verifiable(g), g # h PROVE Verifiable(g)'
  BY DEF IsolationStep
<1>1. QED
  BY KeepVerifiable

LEMMA IsolationStepHolds ==
  ASSUME VendorsUnshared
  PROVE  RoutingInv /\ [Next]_vars => [IsolationStep]_vars
<1> SUFFICES ASSUME RoutingInv, [Next]_vars PROVE [IsolationStep]_vars
  OBVIOUS
\* a call for h that either touches nothing or is routed to h's client
<1>1. ASSUME NEW h \in Gateways, NEW op, NEW c, NEW a, Dispatch(op, h, c), xdns' = xdns
      PROVE  IsolationStep
  <2>1. CASE RouteOk(h)
    BY <1>1, <2>1, RoutedIsolation DEF Dispatch, Ret
  <2>2. CASE ~RouteOk(h)
    BY <1>1, <2>2, QuietIsolation DEF Dispatch, Ret
  <2>3. QED
    BY <2>1, <2>2
<1>2. ASSUME NEW o \in Origins, NEW h \in Gateways, NEW src \in Gateways,
             SubmitHeaders(o, h, src)
      PROVE  IsolationStep
  <2>1. CASE o # "Signed"
    BY <1>2, <2>1, QuietIsolation DEF SubmitHeaders, Ret
  <2>2. CASE o = "Signed"
    BY <1>1, <1>2, <2>2 DEF SubmitHeaders
  <2>3. QED
    BY <2>1, <2>2
<1>3. ASSUME NEW h \in Gateways, NEW p, NEW t, NEW d, NEW oc,
             VerifyAndRecode(h, p, t, d, oc)
      PROVE  IsolationStep
  <2>1. ret'.gw = h
    BY <1>3 DEF VerifyAndRecode, Ret
  <2>2. QED
    BY <1>3, <2>1, QuietIsolation DEF VerifyAndRecode
<1>4. ASSUME NEW h \in Gateways, XdnsRegister(h) \/ XdnsPurge(h)
      PROVE  IsolationStep
  <2>1. \A g \in Gateways \ {h} : xdns'[g] = xdns[g]
    BY <1>4 DEF XdnsRegister, XdnsPurge, RoutingInv, TypeOK
  <2>2. QED
    BY <1>4, <2>1, QuietIsolation DEF XdnsRegister, XdnsPurge, Ret
<1>5. CASE UNCHANGED vars
  BY <1>5 DEF vars
<1>6. QED
  BY <1>1, <1>2, <1>3, <1>4, <1>5 DEF Next, Query, Verify, Initialize, TurnOn, TurnOff

\* When no two gateways share a vendor, turn_off (or any other call) for one
\* gateway never stops another gateway from verifying: the violation that
\* portal_shared_vendor_lifecycle finds needs two gateways of one vendor.
THEOREM LifecycleIsolatedWhenUnshared ==
  ASSUME VendorsUnshared
  PROVE  Spec => GatewayLifecycleIsolation
<1>1. RoutingInv /\ [Next]_vars => [IsolationStep]_vars
  BY IsolationStepHolds
<1>2. Spec => [][IsolationStep]_vars
  BY <1>1, RoutingInvariant, PTL DEF Spec
<1>3. QED
  BY <1>2 DEF GatewayLifecycleIsolation, IsolationStep

\* the step formula of HeadersAdvanceAddressedGateway
HeadersStep ==
  ret'.op = "SubmitHeaders" /\ ret'.ok =>
    \A i \in Instances : lc'[i].height # lc[i].height => lc[i].chain = ret'.gw

\* a call other than submit_headers states nothing about headers
LEMMA OtherCallHeaders ==
  ASSUME NEW op, op # "SubmitHeaders", NEW g, NEW c, Dispatch(op, g, c)
  PROVE  HeadersStep
BY DEF Dispatch, Ret, HeadersStep

LEMMA HeadersStepHolds ==
  ASSUME VendorsUnshared
  PROVE  RoutingInv /\ [Next]_vars => [HeadersStep]_vars
<1> SUFFICES ASSUME RoutingInv, [Next]_vars PROVE [HeadersStep]_vars
  OBVIOUS
<1>1. ASSUME NEW o \in Origins, NEW g \in Gateways, NEW src \in Gateways,
             SubmitHeaders(o, g, src)
      PROVE  HeadersStep
  <2>1. CASE o = "Signed" /\ RouteOk(g)
    <3> DEFINE r == Route(g)
               c == LcSubmitHeaders(lc[r], src)
    <3>1. lc' = [lc EXCEPT ![r] = c.st] /\ ret' = Ret("SubmitHeaders", g, c.ok, c.out, None)
      BY <1>1, <2>1 DEF SubmitHeaders, Dispatch
    <3>2. /\ r \in Instances
          /\ LightClientsCfg[r] = GatewayVendorOf[g]
      BY <2>1, RouteFacts DEF RoutingInv, TypeOK, XdnsSound, RouteOk
    <3>3. CASE c.ok
      <4>1. lc[r].initialized
        BY <3>3 DEF LcSubmitHeaders, LcOk, LcErr
      <4>2. lc[r].chain = g
        BY <3>2, <4>1, FollowsNow, ChainOfVendor
      <4>3. \A i \in Instances \ {r} : lc'[i] = lc[i]
        BY <3>1, <3>2 DEF RoutingInv, TypeOK
      <4>4. QED
        BY <3>1, <4>2, <4>3 DEF HeadersStep, Ret
    <3>4. CASE ~c.ok
      BY <3>1, <3>4 DEF HeadersStep, Ret
    <3>5. QED
      BY <3>3, <3>4
  <2>2. CASE ~(o = "Signed" /\ RouteOk(g))
    <3>1. ~ret'.ok
      BY <1>1, <2>2 DEF SubmitHeaders, Dispatch, Ret
    <3>2. QED
      BY <3>1 DEF HeadersStep
  <2>3. QED
    BY <2>1, <2>2
<1>2. ASSUME NEW g \in Gateways, NEW p, NEW t, NEW d, NEW oc,
             VerifyAndRecode(g, p, t, d, oc)
      PROVE  HeadersStep
  BY <1>2 DEF VerifyAndRecode, Ret, HeadersStep
<1>3. ASSUME NEW g \in Gateways, XdnsRegister(g) \/ XdnsPurge(g)
      PROVE  HeadersStep
  BY <1>3 DEF XdnsRegister, XdnsPurge, Ret, HeadersStep
<1>4. ASSUME NEW g \in Gateways, NEW o \in Origins,
             \/ Query(g)
             \/ \E p \in Proofs, t \in Heights \cup {None} : Verify(g, p, t)
             \/ Initialize(o, g) \/ TurnOn(o, g) \/ TurnOff(o, g)
      PROVE  HeadersStep
  BY <1>4, OtherCallHeaders DEF Query, Verify, Initialize, TurnOn, TurnOff
<1>5. CASE UNCHANGED vars
  BY <1>5 DEF vars
<1>6. QED
  <2>1. Origins # {}
    BY DEF Origins
  <2>2. QED
    BY <1>1, <1>2, <1>3, <1>4, <1>5, <2>1 DEF Next

\* When no two gateways share a vendor, a successful submit_headers for
\* gateway g only advances the client that follows g: the violation that
\* portal_shared_vendor_headers finds needs two gateways of one vendor.
THEOREM HeadersReachAddressedGatewayWhenUnshared ==
  ASSUME VendorsUnshared
  PROVE  Spec => HeadersAdvanceAddressedGateway
<1>1. RoutingInv /\ [Next]_vars => [HeadersStep]_vars
  BY HeadersStepHolds
<1>2. Spec => [][HeadersStep]_vars
  BY <1>1, RoutingInvariant, PTL DEF Spec
<1>3. QED
  BY <1>2 DEF HeadersAdvanceAddressedGateway, HeadersStep
=============================================================================
