--------------------------- MODULE PortalGateways ---------------------------
(***************************************************************************)
(* What the Portal promises its callers, gateway by gateway (spec 4.2, 6   *)
(* and 8), with no vendors and no light-client instances in sight: every   *)
(* gateway has its own lifecycle (unset, on, off) and its own finalized    *)
(* height; a call addressed to gateway g either fails and changes nothing, *)
(* or acts on g alone; an inclusion proof is accepted for g only if it     *)
(* comes from g's own chain at a height g has finalized, and a recoded     *)
(* result carries that value in the codec the caller asked for.            *)
(***************************************************************************)
EXTENDS Naturals

CONSTANTS
  Gateways,   \* the chain ids
  MaxHeight,  \* bound on a gateway's finalized height
  None        \* Option::None

Heights == 0..MaxHeight
Codecs == {"Scale", "Rlp"}
Setups == {"Unset", "On", "Off"}
Ops == {"SubmitHeaders", "Query", "Verify", "VerifyAndRecode",
        "Initialize", "TurnOn", "TurnOff", "XdnsRegister", "XdnsPurge"}

VARIABLES
  setup,   \* gateway -> its lifecycle
  height,  \* gateway -> its finalized height
  call,    \* the last call: operation, gateway, success and requested codec
  result   \* what a successful query or verification returned, or None
gvars == <<setup, height, call, result>>

Call(op, g, ok, arg) == [op |-> op, gw |-> g, ok |-> ok, arg |-> arg]

\* the next call is a successful op addressed to g that returns out
Answers(op, g, arg, out) == call' = Call(op, g, TRUE, arg) /\ result' = out

\* any call may fail, and a failed call changes no gateway
Refuse(g) ==
  /\ call' \in [op : Ops, gw : {g}, ok : {FALSE}, arg : Codecs \cup {None}]
  /\ result' = None
  /\ UNCHANGED <<setup, height>>

\* directory changes are invisible to the gateways' lifecycles
Directory(g) ==
  /\ \E op \in {"XdnsRegister", "XdnsPurge"} : Answers(op, g, None, None)
  /\ UNCHANGED <<setup, height>>

SetUp(g) ==
  /\ setup[g] = "Unset"
  /\ setup' = [setup EXCEPT ![g] = "On"]
  /\ height' = [height EXCEPT ![g] = 0]
  /\ Answers("Initialize", g, None, None)

Toggle(g, on) ==
  /\ setup[g] # "Unset"
  /\ setup' = [setup EXCEPT ![g] = IF on THEN "On" ELSE "Off"]
  /\ Answers(IF on THEN "TurnOn" ELSE "TurnOff", g, None, None)
  /\ UNCHANGED height

Advance(g) ==
  /\ setup[g] = "On" /\ height[g] < MaxHeight
  /\ height' = [height EXCEPT ![g] = @ + 1]
  /\ Answers("SubmitHeaders", g, None, None)
  /\ UNCHANGED setup

Read(g) ==
  /\ Answers("Query", g, None, IF setup[g] = "Unset" THEN None ELSE height[g])
  /\ UNCHANGED <<setup, height>>

\* a proof of block h of g's own chain, h finalized by g; a recoded one is
\* in the codec the caller asked for
Prove(g) ==
  /\ setup[g] = "On"
  /\ \E h \in 0..height[g], c \in Codecs :
       \/ Answers("Verify", g, None, [val |-> <<g, h>>, codec |-> c])
       \/ Answers("VerifyAndRecode", g, c, [val |-> <<g, h>>, codec |-> c])
  /\ UNCHANGED <<setup, height>>

GInit ==
  /\ setup = [g \in Gateways |-> "Unset"]
  /\ height = [g \in Gateways |-> 0]
  /\ call = None
  /\ result = None

GNext ==
  \E g \in Gateways :
    \/ Refuse(g) \/ Directory(g) \/ SetUp(g) \/ Advance(g) \/ Read(g) \/ Prove(g)
    \/ \E on \in BOOLEAN : Toggle(g, on)

GSpec == GInit /\ [][GNext]_gvars
=============================================================================
