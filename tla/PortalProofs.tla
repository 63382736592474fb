---------------------------- MODULE PortalProofs ----------------------------
(***************************************************************************)
(* Proofs about the Portal model: type correctness, and the routing        *)
(* invariant RoutingSound for every configuration of T::LightClients,      *)
(* every set of gateways and every height bound.                           *)
(***************************************************************************)
EXTENDS Portal, TLAPS

(***************************************************************************)
(* Routing lemma: when match_light_client_by_gateway_id succeeds, it       *)
(* returns a configured instance of g's vendor that no earlier entry of    *)
(* the same vendor shadows.                                                *)
(***************************************************************************)
LEMMA RouteFacts ==
  ASSUME NEW g \in Gateways, xdns \in [Gateways -> Vendors \cup {None}], RouteOk(g)
  PROVE  /\ Route(g) \in Instances
         /\ LightClientsCfg[Route(g)] = xdns[g]
         /\ \A j \in 1..(Route(g) - 1) : LightClientsCfg[j] # xdns[g]
<1>1. xdns[g] \in Vendors /\ HasLightClient(xdns[g])
  BY DEF RouteOk
<1>2. \E i \in Instances : /\ LightClientsCfg[i] = xdns[g]
                           /\ \A j \in 1..(i - 1) : LightClientsCfg[j] # xdns[g]
  BY <1>1, FirstEntryAssumption
<1>3. QED
  BY <1>2 DEF Route, MatchLightClientByVendor

LEMMA ZeroHeight == 0 \in Heights /\ MaxHeight \in Nat
BY ConstantsAssumption DEF Heights

(***************************************************************************)
(* The capability calls return well-typed states and results.             *)
(***************************************************************************)
\* the shape of a well-typed capability result whose successes lie in T
LcResult(c, T) ==
  /\ c.st \in LcStates /\ c.ok \in BOOLEAN
  /\ IF c.ok THEN c.out \in T ELSE c.out \in Errors

LEMMA LcInitializeType ==
  ASSUME NEW s \in LcStates, NEW o, NEW g \in Gateways
  PROVE  LcResult(LcInitialize(s, o, g), {"Ok"})
BY ZeroHeight DEF LcResult, LcInitialize, LcOk, LcErr, LcStates, Errors, Heights

LEMMA LcSetOperationalType ==
  ASSUME NEW s \in LcStates, NEW o, NEW on \in BOOLEAN
  PROVE  LcResult(LcSetOperational(s, o, on), BOOLEAN)
BY DEF LcResult, LcSetOperational, LcOk, LcErr, LcStates, Errors

LEMMA LcSubmitHeadersType ==
  ASSUME NEW s \in LcStates, NEW src
  PROVE  LcResult(LcSubmitHeaders(s, src), {"Ok"})
<1>1. MaxHeight \in Nat
  BY ConstantsAssumption
<1>2. QED
  BY <1>1 DEF LcResult, LcSubmitHeaders, LcOk, LcErr, LcStates, Errors, Heights

LEMMA LcQueryType ==
  ASSUME NEW s \in LcStates
  PROVE  LcResult(LcQuery(s), Heights \cup {None})
BY DEF LcResult, LcQuery, LcOk, LcStates

LEMMA ProvenType ==
  ASSUME NEW p \in Proofs
  PROVE  Proven(p) \in Payloads
<1>1. NativeCodec \in [Gateways -> Codecs]
  BY ConstantsAssumption
<1>2. QED
  BY <1>1 DEF Proven, Payloads, Proofs

LEMMA LcVerifyType ==
  ASSUME NEW s \in LcStates, NEW g, NEW p \in Proofs, NEW t
  PROVE  LcResult(LcVerify(s, g, p, t), Payloads)
BY ProvenType DEF LcResult, LcVerify, LcOk, LcErr, Errors

LEMMA RecodeResultsType ==
  ASSUME NEW pl \in Payloads, NEW d, NEW inC, NEW outC \in Codecs
  PROVE  RecodeResults(pl, d, inC, outC) \subseteq Payloads
BY DEF RecodeResults, Payloads

LEMMA RetType ==
  ASSUME NEW op \in Ops, NEW g \in Gateways, NEW ok \in BOOLEAN, NEW out,
         NEW arg \in Codecs \cup {None},
         IF ok THEN out \in OkOut(op) ELSE out \in Errors
  PROVE  RetOK(Ret(op, g, ok, out, arg))
BY DEF RetOK, Ret

(***************************************************************************)
(* Type correctness                                                        *)
(***************************************************************************)
LEMMA TypeInit == Init => TypeOK
BY ZeroHeight DEF Init, TypeOK, LcInit, LcStates, Heights

\* a capability call through Dispatch keeps the types when its result has
\* the type OkOut(op) prescribes
LEMMA DispatchType ==
  ASSUME TypeOK, NEW op \in Ops, NEW g \in Gateways, RouteOk(g),
         NEW c, LcResult(c, OkOut(op)),
         lc' = [lc EXCEPT ![Route(g)] = c.st],
         ret' = Ret(op, g, c.ok, c.out, None),
         xdns' = xdns
  PROVE  TypeOK'
<1>1. Route(g) \in Instances
  BY RouteFacts DEF TypeOK
<1>2. RetOK(ret')
  BY RetType DEF LcResult
<1>3. QED
  BY <1>1, <1>2 DEF TypeOK, LcResult

LEMMA RouteErrorType ==
  ASSUME TypeOK, NEW g \in Gateways, ~RouteOk(g)
  PROVE  RouteError(g) \in Errors
BY DEF RouteError, Errors

\* a Portal call whose routing fails changes no client
LEMMA UnroutedType ==
  ASSUME TypeOK, NEW op \in Ops, NEW g \in Gateways, ~RouteOk(g),
         ret' = Ret(op, g, FALSE, RouteError(g), None), UNCHANGED <<xdns, lc>>
  PROVE  TypeOK'
BY RetType, RouteErrorType DEF TypeOK

LEMMA TypeStep == TypeOK /\ [Next]_vars => TypeOK'
<1> SUFFICES ASSUME TypeOK, [Next]_vars PROVE TypeOK'
  OBVIOUS
<1>1. ASSUME NEW o \in Origins, NEW g \in Gateways, NEW src \in Gateways, SubmitHeaders(o, g, src)
      PROVE  TypeOK'
  <2>0. CASE o # "Signed"
    BY <1>1, <2>0, RetType DEF SubmitHeaders, TypeOK, Errors, Ops
  <2>1. CASE o = "Signed" /\ ~RouteOk(g)
    BY <1>1, <2>1, UnroutedType DEF SubmitHeaders, Dispatch, Ops
  <2>2. CASE o = "Signed" /\ RouteOk(g)
    <3> DEFINE c == LcSubmitHeaders(lc[Route(g)], src)
    <3>1. lc[Route(g)] \in LcStates
      BY <2>2, RouteFacts DEF TypeOK
    <3>2. LcResult(c, OkOut("SubmitHeaders"))
      BY <3>1, LcSubmitHeadersType DEF OkOut
    <3>3. /\ lc' = [lc EXCEPT ![Route(g)] = c.st]
          /\ ret' = Ret("SubmitHeaders", g, c.ok, c.out, None)
          /\ xdns' = xdns
      BY <1>1, <2>2 DEF SubmitHeaders, Dispatch
    <3>4. QED
      BY <2>2, <3>2, <3>3, DispatchType DEF Ops
  <2>3. QED
    BY <2>0, <2>1, <2>2
<1>2. ASSUME NEW g \in Gateways, Query(g)
      PROVE  TypeOK'
  <2>1. CASE ~RouteOk(g)
    BY <1>2, <2>1, UnroutedType DEF Query, Dispatch, Ops
  <2>2. CASE RouteOk(g)
    <3> DEFINE c == LcQuery(lc[Route(g)])
    <3>1. lc[Route(g)] \in LcStates
      BY <2>2, RouteFacts DEF TypeOK
    <3>2. LcResult(c, OkOut("Query"))
      BY <3>1, LcQueryType DEF OkOut
    <3>3. /\ lc' = [lc EXCEPT ![Route(g)] = c.st]
          /\ ret' = Ret("Query", g, c.ok, c.out, None)
          /\ xdns' = xdns
      BY <1>2, <2>2 DEF Query, Dispatch
    <3>4. QED
      BY <2>2, <3>2, <3>3, DispatchType DEF Ops
  <2>3. QED
    BY <2>1, <2>2
<1>3. ASSUME NEW g \in Gateways, NEW p \in Proofs,
             NEW t \in Heights \cup {None}, Verify(g, p, t)
      PROVE  TypeOK'
  <2>1. CASE ~RouteOk(g)
    BY <1>3, <2>1, UnroutedType DEF Verify, Dispatch, Ops
  <2>2. CASE RouteOk(g)
    <3> DEFINE c == LcVerify(lc[Route(g)], g, p, t)
    <3>1. lc[Route(g)] \in LcStates
      BY <2>2, RouteFacts DEF TypeOK
    <3>2. LcResult(c, OkOut("Verify"))
      BY <3>1, LcVerifyType DEF OkOut
    <3>3. /\ lc' = [lc EXCEPT ![Route(g)] = c.st]
          /\ ret' = Ret("Verify", g, c.ok, c.out, None)
          /\ xdns' = xdns
      BY <1>3, <2>2 DEF Verify, Dispatch
    <3>4. QED
      BY <2>2, <3>2, <3>3, DispatchType DEF Ops
  <2>3. QED
    BY <2>1, <2>2
<1>4. ASSUME NEW o \in Origins, NEW g \in Gateways, Initialize(o, g)
      PROVE  TypeOK'
  <2>1. CASE ~RouteOk(g)
    BY <1>4, <2>1, UnroutedType DEF Initialize, Dispatch, Ops
  <2>2. CASE RouteOk(g)
    <3> DEFINE c == LcInitialize(lc[Route(g)], o, g)
    <3>1. lc[Route(g)] \in LcStates
      BY <2>2, RouteFacts DEF TypeOK
    <3>2. LcResult(c, OkOut("Initialize"))
      BY <3>1, LcInitializeType DEF OkOut
    <3>3. /\ lc' = [lc EXCEPT ![Route(g)] = c.st]
          /\ ret' = Ret("Initialize", g, c.ok, c.out, None)
          /\ xdns' = xdns
      BY <1>4, <2>2 DEF Initialize, Dispatch
    <3>4. QED
      BY <2>2, <3>2, <3>3, DispatchType DEF Ops
  <2>3. QED
    BY <2>1, <2>2
<1>5. ASSUME NEW o \in Origins, NEW g \in Gateways, TurnOn(o, g)
      PROVE  TypeOK'
  <2>1. CASE ~RouteOk(g)
    BY <1>5, <2>1, UnroutedType DEF TurnOn, Dispatch, Ops
  <2>2. CASE RouteOk(g)
    <3> DEFINE c == LcSetOperational(lc[Route(g)], o, TRUE)
    <3>1. lc[Route(g)] \in LcStates
      BY <2>2, RouteFacts DEF TypeOK
    <3>2. LcResult(c, OkOut("TurnOn"))
      BY <3>1, LcSetOperationalType DEF OkOut
    <3>3. /\ lc' = [lc EXCEPT ![Route(g)] = c.st]
          /\ ret' = Ret("TurnOn", g, c.ok, c.out, None)
          /\ xdns' = xdns
      BY <1>5, <2>2 DEF TurnOn, Dispatch
    <3>4. QED
      BY <2>2, <3>2, <3>3, DispatchType DEF Ops
  <2>3. QED
    BY <2>1, <2>2
<1>6. ASSUME NEW o \in Origins, NEW g \in Gateways, TurnOff(o, g)
      PROVE  TypeOK'
  <2>1. CASE ~RouteOk(g)
    BY <1>6, <2>1, UnroutedType DEF TurnOff, Dispatch, Ops
  <2>2. CASE RouteOk(g)
    <3> DEFINE c == LcSetOperational(lc[Route(g)], o, FALSE)
    <3>1. lc[Route(g)] \in LcStates
      BY <2>2, RouteFacts DEF TypeOK
    <3>2. LcResult(c, OkOut("TurnOff"))
      BY <3>1, LcSetOperationalType DEF OkOut
    <3>3. /\ lc' = [lc EXCEPT ![Route(g)] = c.st]
          /\ ret' = Ret("TurnOff", g, c.ok, c.out, None)
          /\ xdns' = xdns
      BY <1>6, <2>2 DEF TurnOff, Dispatch
    <3>4. QED
      BY <2>2, <3>2, <3>3, DispatchType DEF Ops
  <2>3. QED
    BY <2>1, <2>2
<1>7. ASSUME NEW g \in Gateways, NEW p \in Proofs,
             NEW t \in Heights \cup {None}, NEW d \in Descriptors,
             NEW c \in Codecs, VerifyAndRecode(g, p, t, d, c)
      PROVE  TypeOK'
  <2> DEFINE op == "VerifyAndRecode"
  <2>1. UNCHANGED <<xdns, lc>>
    BY <1>7 DEF VerifyAndRecode
  <2>2. CASE ~RouteOk(g)
    <3>1. ret' = Ret(op, g, FALSE, RouteError(g), c)
      BY <1>7, <2>2 DEF VerifyAndRecode
    <3>2. QED
      BY <2>1, <2>2, <3>1, RetType, RouteErrorType DEF TypeOK, Ops
  <2>3. CASE RouteOk(g)
    <3> DEFINE v == LcVerify(lc[Route(g)], g, p, t)
               inC == MatchVendorWithCodec(xdns[g])
    <3>1. LcResult(v, Payloads)
      BY <2>3, RouteFacts, LcVerifyType DEF TypeOK
    <3>2. \/ ret' = Ret(op, g, FALSE, v.out, c) /\ ~v.ok
          \/ ret' = Ret(op, g, FALSE, "SFXRecodeError", c)
          \/ v.ok /\ \E r \in RecodeResults(v.out, d, inC, c) : ret' = Ret(op, g, TRUE, r, c)
      BY <1>7, <2>3 DEF VerifyAndRecode
    <3>3. v.ok => RecodeResults(v.out, d, inC, c) \subseteq Payloads
      BY <3>1, RecodeResultsType DEF LcResult
    <3>4. RetOK(ret')
      <4>1. CASE ret' = Ret(op, g, FALSE, v.out, c) /\ ~v.ok
        BY <3>1, <4>1, RetType DEF LcResult, Ops
      <4>2. CASE ret' = Ret(op, g, FALSE, "SFXRecodeError", c)
        BY <4>2, RetType DEF Errors, Ops
      <4>3. CASE v.ok /\ \E r \in RecodeResults(v.out, d, inC, c) : ret' = Ret(op, g, TRUE, r, c)
        <5>1. PICK r \in RecodeResults(v.out, d, inC, c) : ret' = Ret(op, g, TRUE, r, c)
          BY <4>3
        <5>2. v.ok
          BY <4>3
        <5>3. r \in OkOut(op)
          BY <3>3, <5>1, <5>2 DEF OkOut
        <5>4. QED
          BY <5>1, <5>3, RetType DEF Ops
      <4>4. QED
        BY <3>2, <4>1, <4>2, <4>3
    <3>5. QED
      BY <2>1, <3>4 DEF TypeOK
  <2>4. QED
    BY <2>2, <2>3
<1>8. ASSUME NEW g \in Gateways, XdnsRegister(g) \/ XdnsPurge(g)
      PROVE  TypeOK'
  <2>1. GatewayVendorOf[g] \in Vendors
    BY ConstantsAssumption
  <2>2. xdns' \in [Gateways -> Vendors \cup {None}]
    BY <1>8, <2>1 DEF XdnsRegister, XdnsPurge, TypeOK
  <2>3. "Ok" \in OkOut("XdnsRegister") /\ "Ok" \in OkOut("XdnsPurge")
    BY DEF OkOut
  <2>4. RetOK(ret')
    BY <1>8, <2>3, RetType DEF XdnsRegister, XdnsPurge, Ops
  <2>5. QED
    BY <1>8, <2>2, <2>4 DEF XdnsRegister, XdnsPurge, TypeOK
<1>9. CASE UNCHANGED vars
  BY <1>9 DEF vars, TypeOK
<1>10. QED
  BY <1>1, <1>2, <1>3, <1>4, <1>5, <1>6, <1>7, <1>8, <1>9 DEF Next

\* Type correctness of the Portal model.
THEOREM TypeCorrect == Spec => []TypeOK
BY TypeInit, TypeStep, PTL DEF Spec

(***************************************************************************)
(* Routing soundness                                                       *)
(***************************************************************************)
\* a light client state s at instance i follows a chain of i's vendor
FollowsVendor(s, i) ==
  s.initialized => /\ s.chain \in Gateways
                   /\ GatewayVendorOf[s.chain] = LightClientsCfg[i]

LEMMA RoutingInvInit == Init => RoutingInv
<1>1. Init => XdnsSound /\ ShadowedClientsUntouched /\ ClientFollowsItsVendor
  BY DEF Init, XdnsSound, ShadowedClientsUntouched, ClientFollowsItsVendor, LcInit
<1>2. QED
  BY <1>1, TypeInit DEF RoutingInv, RoutingSound

\* replacing the state of the routed client of g by one that follows the
\* client's vendor keeps the routing invariant
LEMMA RoutedStepSound ==
  ASSUME RoutingInv, NEW g \in Gateways, RouteOk(g), NEW st,
         FollowsVendor(st, Route(g)),
         lc' = [lc EXCEPT ![Route(g)] = st]
  PROVE  RoutingSound'
<1> DEFINE r == Route(g)
<1>1. /\ r \in Instances
      /\ \A j \in 1..(r - 1) : LightClientsCfg[j] # LightClientsCfg[r]
  BY RouteFacts DEF RoutingInv, TypeOK
<1>2. ShadowedClientsUntouched'
  <2> SUFFICES ASSUME NEW i \in Instances,
                      \E j \in 1..(i - 1) : LightClientsCfg[j] = LightClientsCfg[i]
               PROVE  lc'[i] = LcInit
    BY DEF ShadowedClientsUntouched
  <2>1. i # r
    BY <1>1
  <2>2. QED
    BY <2>1 DEF RoutingInv, RoutingSound, ShadowedClientsUntouched, TypeOK
<1>3. ClientFollowsItsVendor'
  <2> SUFFICES ASSUME NEW i \in Instances PROVE FollowsVendor(lc'[i], i)
    BY DEF ClientFollowsItsVendor, FollowsVendor
  <2>1. CASE i = r
    BY <1>1, <2>1 DEF RoutingInv, TypeOK
  <2>2. CASE i # r
    BY <2>2 DEF RoutingInv, RoutingSound, ClientFollowsItsVendor, FollowsVendor, TypeOK
  <2>3. QED
    BY <2>1, <2>2
<1>4. QED
  BY <1>2, <1>3 DEF RoutingSound

\* the capability calls other than initialize keep the chain a client follows
LEMMA LcKeepsChain ==
  ASSUME NEW s \in LcStates, NEW i, FollowsVendor(s, i), NEW o, NEW src,
         NEW q, NEW g, NEW p, NEW t, NEW on
  PROVE  /\ FollowsVendor(LcSubmitHeaders(s, src).st, i)
         /\ FollowsVendor(LcQuery(s).st, i)
         /\ FollowsVendor(LcVerify(s, g, p, t).st, i)
         /\ FollowsVendor(LcSetOperational(s, o, on).st, i)
BY DEF FollowsVendor, LcSubmitHeaders, LcQuery, LcVerify, LcSetOperational,
       LcOk, LcErr, LcStates

\* initialize makes a client follow the gateway it was routed for
LEMMA LcInitializeFollows ==
  ASSUME RoutingInv, NEW g \in Gateways, RouteOk(g), NEW o
  PROVE  FollowsVendor(LcInitialize(lc[Route(g)], o, g).st, Route(g))
<1>1. /\ Route(g) \in Instances
      /\ LightClientsCfg[Route(g)] = xdns[g]
  BY RouteFacts DEF RoutingInv, TypeOK
<1>2. xdns[g] = GatewayVendorOf[g]
  BY DEF RouteOk, RoutingInv, XdnsSound
<1>3. FollowsVendor(lc[Route(g)], Route(g))
  BY <1>1 DEF RoutingInv, RoutingSound, ClientFollowsItsVendor, FollowsVendor
<1>4. QED
  BY <1>1, <1>2, <1>3 DEF FollowsVendor, LcInitialize, LcOk, LcErr

\* a routed client's current state follows its vendor
LEMMA RoutedClientFollows ==
  ASSUME RoutingInv, NEW g \in Gateways, RouteOk(g)
  PROVE  /\ lc[Route(g)] \in LcStates
         /\ FollowsVendor(lc[Route(g)], Route(g))
<1>1. Route(g) \in Instances
  BY RouteFacts DEF RoutingInv, TypeOK
<1>2. QED
  BY <1>1 DEF RoutingInv, TypeOK, RoutingSound, ClientFollowsItsVendor, FollowsVendor

LEMMA RoutingStep == RoutingInv /\ [Next]_vars => RoutingInv'
<1> SUFFICES ASSUME RoutingInv, [Next]_vars PROVE RoutingInv'
  OBVIOUS
<1>1. TypeOK'
  BY TypeStep DEF RoutingInv
<1>2. XdnsSound'
  <2>1. GatewayVendorOf \in [Gateways -> Vendors]
    BY ConstantsAssumption
  <2>2. QED
    BY <2>1 DEF RoutingInv, TypeOK, XdnsSound, Next, vars, SubmitHeaders, Dispatch,
           Query, Verify, VerifyAndRecode, Initialize, TurnOn, TurnOff,
           XdnsRegister, XdnsPurge
\* the steps that leave every client unchanged
<1>3. ASSUME UNCHANGED lc PROVE RoutingSound'
  BY <1>3 DEF RoutingInv, RoutingSound, ShadowedClientsUntouched, ClientFollowsItsVendor
\* the steps that change the routed client of g through capability call st
<1>4. ASSUME NEW g \in Gateways, RouteOk(g),
             NEW st, FollowsVendor(st, Route(g)),
             lc' = [lc EXCEPT ![Route(g)] = st]
      PROVE  RoutingSound'
  BY <1>4, RoutedStepSound
<1>5. RoutingSound'
  <2>1. ASSUME NEW o \in Origins, NEW g \in Gateways, NEW src \in Gateways,
               SubmitHeaders(o, g, src)
        PROVE  RoutingSound'
    <3>1. CASE o = "Signed" /\ RouteOk(g)
      BY <1>4, <2>1, <3>1, RoutedClientFollows, LcKeepsChain DEF SubmitHeaders, Dispatch
    <3>2. CASE ~(o = "Signed" /\ RouteOk(g))
      BY <1>3, <2>1, <3>2 DEF SubmitHeaders, Dispatch
    <3>3. QED
      BY <3>1, <3>2
  <2>2. ASSUME NEW g \in Gateways, Query(g)
        PROVE  RoutingSound'
    BY <1>3, <1>4, <2>2, RoutedClientFollows, LcKeepsChain DEF Query, Dispatch
  <2>3. ASSUME NEW g \in Gateways, NEW p \in Proofs,
               NEW t \in Heights \cup {None}, Verify(g, p, t)
        PROVE  RoutingSound'
    BY <1>3, <1>4, <2>3, RoutedClientFollows, LcKeepsChain DEF Verify, Dispatch
  <2>4. ASSUME NEW o \in Origins, NEW g \in Gateways, Initialize(o, g)
        PROVE  RoutingSound'
    BY <1>3, <1>4, <2>4, LcInitializeFollows DEF Initialize, Dispatch
  <2>5. ASSUME NEW o \in Origins, NEW g \in Gateways, TurnOn(o, g) \/ TurnOff(o, g)
        PROVE  RoutingSound'
    BY <1>3, <1>4, <2>5, RoutedClientFollows, LcKeepsChain DEF TurnOn, TurnOff, Dispatch
  <2>6. ASSUME NEW g \in Gateways, NEW p \in Proofs,
               NEW t \in Heights \cup {None}, NEW d \in Descriptors,
               NEW c \in Codecs, VerifyAndRecode(g, p, t, d, c)
        PROVE  RoutingSound'
    BY <1>3, <2>6 DEF VerifyAndRecode
  <2>7. ASSUME NEW g \in Gateways, XdnsRegister(g) \/ XdnsPurge(g)
        PROVE  RoutingSound'
    BY <1>3, <2>7 DEF XdnsRegister, XdnsPurge
  <2>8. CASE UNCHANGED vars
    BY <1>3, <2>8 DEF vars
  <2>9. QED
    BY <2>1, <2>2, <2>3, <2>4, <2>5, <2>6, <2>7, <2>8 DEF Next
<1>6. QED
  BY <1>1, <1>2, <1>5 DEF RoutingInv

\* Routing soundness: for every configuration of T::LightClients, a client
\* shadowed by an earlier entry of its vendor is never touched, and every
\* light client only follows a chain that XDNS registers under the client's
\* own vendor.
THEOREM RoutingSoundness == Spec => []RoutingSound
<1>1. Spec => []RoutingInv
  BY RoutingInvInit, RoutingStep, PTL DEF Spec
<1>2. QED
  BY <1>1, PTL DEF RoutingInv

LEMMA RoutingInvariant == Spec => []RoutingInv
BY RoutingInvInit, RoutingStep, PTL DEF Spec

(***************************************************************************)
(* Which client a step may change                                         *)
(***************************************************************************)
\* the step property stated by ClientTouchedOnlyByItsGateway
TouchedByItsGateway ==
  \A i \in Instances :
    lc'[i] # lc[i] =>
      /\ xdns[ret'.gw] = LightClientsCfg[i]
      /\ \A j \in 1..(i - 1) : LightClientsCfg[j] # LightClientsCfg[i]

\* a routed call for g changes at most the client Route(g)
LEMMA RoutedTouch ==
  ASSUME TypeOK, NEW g \in Gateways, RouteOk(g), NEW st,
         lc' = [lc EXCEPT ![Route(g)] = st], ret'.gw = g
  PROVE  TouchedByItsGateway
<1>1. /\ Route(g) \in Instances
      /\ LightClientsCfg[Route(g)] = xdns[g]
      /\ \A j \in 1..(Route(g) - 1) : LightClientsCfg[j] # xdns[g]
  BY RouteFacts DEF TypeOK
<1> SUFFICES ASSUME NEW i \in Instances, lc'[i] # lc[i]
             PROVE  /\ xdns[ret'.gw] = LightClientsCfg[i]
                    /\ \A j \in 1..(i - 1) : LightClientsCfg[j] # LightClientsCfg[i]
  BY DEF TouchedByItsGateway
<1>2. i = Route(g)
  BY <1>1 DEF TypeOK
<1>3. QED
  BY <1>1, <1>2

LEMMA TouchStep == RoutingInv /\ [Next]_vars => [TouchedByItsGateway]_vars
<1> SUFFICES ASSUME RoutingInv, [Next]_vars PROVE [TouchedByItsGateway]_vars
  OBVIOUS
<1>0. TypeOK
  BY DEF RoutingInv
<1>1. ASSUME UNCHANGED lc PROVE TouchedByItsGateway
  BY <1>1 DEF TouchedByItsGateway
<1>2. ASSUME NEW op, NEW g \in Gateways, NEW c, Dispatch(op, g, c)
      PROVE  TouchedByItsGateway
  <2>1. CASE RouteOk(g)
    BY <1>0, <1>2, <2>1, RoutedTouch DEF Dispatch, Ret
  <2>2. CASE ~RouteOk(g)
    BY <1>1, <1>2, <2>2 DEF Dispatch
  <2>3. QED
    BY <2>1, <2>2
<1>3. ASSUME NEW o \in Origins, NEW g \in Gateways, NEW src \in Gateways,
             SubmitHeaders(o, g, src)
      PROVE  TouchedByItsGateway
  BY <1>1, <1>2, <1>3 DEF SubmitHeaders
<1>4. QED
  BY <1>1, <1>2, <1>3 DEF Next, vars, Query, Verify, VerifyAndRecode, Initialize,
       TurnOn, TurnOff, XdnsRegister, XdnsPurge

\* Every step that changes a light client is a call for a gateway whose XDNS
\* vendor is that client's vendor, and the client is the first configured
\* for it: match_light_client_by_vendor never hands a call to a client of
\* another vendor or to a shadowed duplicate.
THEOREM ClientTouchedOnlyByItsGatewayHolds == Spec => ClientTouchedOnlyByItsGateway
<1>1. Spec => [][TouchedByItsGateway]_vars
  BY RoutingInvariant, TouchStep, PTL DEF Spec
<1>2. QED
  BY <1>1 DEF ClientTouchedOnlyByItsGateway, TouchedByItsGateway


(***************************************************************************)
(* Faithful recoding                                                       *)
(***************************************************************************)
\* a successful verification returns the proven payload of an accepted proof
LEMMA LcVerifyOk ==
  ASSUME NEW s, NEW g, NEW p, NEW t, LcVerify(s, g, p, t).ok
  PROVE  /\ LcAccepts(s, g, p, t)
         /\ LcVerify(s, g, p, t).out = Proven(p)
BY DEF LcVerify, LcOk, LcErr

\* read with the codec it is written in, a payload keeps its value
LEMMA RecodeKeepsValue ==
  ASSUME NEW pl, NEW d, NEW outC, NEW r \in RecodeResults(pl, d, pl.codec, outC)
  PROVE  r = [val |-> pl.val, codec |-> outC] \/ r = [pl EXCEPT !.codec = outC]
BY DEF RecodeResults

\* RecodeFaithful together with the invariants it rests on
RecodeInv == TypeOK /\ XdnsSound /\ RecodeFaithful

\* a call other than verify-and-recode leaves RecodeFaithful true
LEMMA OtherCallFaithful ==
  ASSUME NEW op, op # "VerifyAndRecode", NEW g, NEW ok, NEW out, NEW arg,
         ret' = Ret(op, g, ok, out, arg)
  PROVE  RecodeFaithful'
BY DEF RecodeFaithful, Ret

LEMMA RecodeStep ==
  ASSUME CodecTableAgrees
  PROVE  RecodeInv /\ [Next]_vars => RecodeInv'
<1> SUFFICES ASSUME RecodeInv, [Next]_vars PROVE RecodeInv'
  OBVIOUS
<1>1. (TypeOK /\ XdnsSound)'
  <2>1. TypeOK'
    BY TypeStep DEF RecodeInv
  <2>2. GatewayVendorOf \in [Gateways -> Vendors]
    BY ConstantsAssumption
  <2>3. XdnsSound'
    BY <2>2 DEF RecodeInv, TypeOK, XdnsSound, Next, vars, SubmitHeaders, Dispatch,
           Query, Verify, VerifyAndRecode, Initialize, TurnOn, TurnOff,
           XdnsRegister, XdnsPurge
  <2>4. QED
    BY <2>1, <2>3
<1>2. ASSUME NEW op, op # "VerifyAndRecode", NEW g, NEW c, Dispatch(op, g, c)
      PROVE  RecodeFaithful'
  BY <1>2, OtherCallFaithful DEF Dispatch
<1>3. ASSUME NEW g \in Gateways, NEW p \in Proofs,
             NEW t \in Heights \cup {None}, NEW d \in Descriptors,
             NEW c \in Codecs, VerifyAndRecode(g, p, t, d, c)
      PROVE  RecodeFaithful'
  <2> DEFINE op == "VerifyAndRecode"
  <2>1. CASE ~RouteOk(g)
    BY <1>3, <2>1 DEF VerifyAndRecode, RecodeFaithful, Ret
  <2>2. CASE RouteOk(g)
    <3> DEFINE s == lc[Route(g)]
               v == LcVerify(s, g, p, t)
               inC == MatchVendorWithCodec(xdns[g])
    <3>1. \/ ~ret'.ok
          \/ v.ok /\ \E r \in RecodeResults(v.out, d, inC, c) : ret' = Ret(op, g, TRUE, r, c)
      BY <1>3, <2>2 DEF VerifyAndRecode, Ret
    <3>2. CASE ~ret'.ok
      BY <3>2 DEF RecodeFaithful
    <3>3. CASE v.ok /\ \E r \in RecodeResults(v.out, d, inC, c) : ret' = Ret(op, g, TRUE, r, c)
      <4>1. PICK r \in RecodeResults(v.out, d, inC, c) : ret' = Ret(op, g, TRUE, r, c)
        BY <3>3
      <4>2. LcAccepts(s, g, p, t) /\ v.out = Proven(p)
        BY <3>3, LcVerifyOk
      <4>3. p.src = g /\ p.h \in Heights
        BY <4>2 DEF LcAccepts, Proofs
      <4>4. xdns[g] = GatewayVendorOf[g]
        BY <2>2 DEF RouteOk, RecodeInv, XdnsSound
      <4>5. inC = Proven(p).codec
        BY <4>3, <4>4 DEF CodecTableAgrees, Proven
      <4>6. r = [val |-> Proven(p).val, codec |-> c] \/ r = [Proven(p) EXCEPT !.codec = c]
        BY <4>1, <4>2, <4>5, RecodeKeepsValue
      <4>7. r.val = <<g, p.h>> /\ r.codec = c
        BY <4>3, <4>6 DEF Proven
      <4>8. QED
        BY <4>1, <4>3, <4>7 DEF RecodeFaithful, Ret
    <3>4. QED
      BY <3>1, <3>2, <3>3
  <2>3. QED
    BY <2>1, <2>2
<1>4. RecodeFaithful'
  <2>1. ASSUME NEW o \in Origins, NEW g \in Gateways, NEW src \in Gateways,
               SubmitHeaders(o, g, src)
        PROVE  RecodeFaithful'
    BY <1>2, <2>1, OtherCallFaithful DEF SubmitHeaders
  <2>2. ASSUME NEW g \in Gateways, XdnsRegister(g) \/ XdnsPurge(g)
        PROVE  RecodeFaithful'
    BY <2>2, OtherCallFaithful DEF XdnsRegister, XdnsPurge
  <2>3. CASE UNCHANGED vars
    BY <2>3 DEF vars, RecodeInv, RecodeFaithful
  <2>4. QED
    BY <1>2, <1>3, <2>1, <2>2, <2>3 DEF Next, Query, Verify, Initialize, TurnOn, TurnOff
<1>5. QED
  BY <1>1, <1>4 DEF RecodeInv

\* When match_vendor_with_codec's table names each gateway's real codec, a
\* successful verify_*_inclusion_and_recode for gateway g returns a value
\* proven from g's own chain, re-encoded in the codec the caller asked for:
\* the verified bytes are never misread, whatever XDNS and the light
\* clients went through before the call.
THEOREM RecodeFaithfulness ==
  ASSUME CodecTableAgrees
  PROVE  Spec => []RecodeFaithful
<1>1. Init => RecodeInv
  BY TypeInit DEF Init, RecodeInv, XdnsSound, RecodeFaithful
<1>2. RecodeInv /\ [Next]_vars => RecodeInv'
  BY RecodeStep
<1>3. QED
  BY <1>1, <1>2, PTL DEF Spec, RecodeInv
=============================================================================
