----------------------------- MODULE SideEffect -----------------------------
(***************************************************************************)
(* The side-effect records of primitives/src/side_effect/mod.rs: the       *)
(* FullSideEffect (FSX) binding a requested SideEffect to its winning      *)
(* SFXBid and its ConfirmedSideEffect, the queries on it, and its          *)
(* hardening (try_into) into the settlement record HardenedSideEffect.     *)
(* The lifecycle that writes the fields (submission, attaching the bid,    *)
(* confirmation) belongs to the settlement logic outside this repository   *)
(* and follows spec sections 3 and 4.4: the caller respects the            *)
(* preconditions the spec puts on it (bid <= prize, insurance and bond     *)
(* present iff the execution is optimistic, at most one confirmation,      *)
(* hardening terminal).                                                    *)
(***************************************************************************)
EXTENDS Naturals, Sequences

CONSTANTS
  Sfx,             \* the side effects (model values)
  Accounts,        \* executor and requester accounts (model values)
  Targets,         \* target gateway ids
  ActionEncodings, \* encoded_action byte strings a requester may submit
  Args,            \* encoded_args lists (opaque, model values)
  Outputs,         \* raw output payloads of a confirmation (model values)
  MaxBalance,      \* bound on prizes, bids, insurance, bond and cost
  MaxHeight,       \* bound on confirmation heights
  None             \* Option::None

ASSUME SideEffectAssumption ==
  /\ MaxBalance \in Nat /\ MaxHeight \in Nat
  /\ ActionEncodings \subseteq Seq(0..255)
  /\ None \notin Nat

Balances == 0..MaxBalance
Heights == 0..MaxHeight
Opt(S) == S \cup {None}
\* SecurityLvl and ConfirmationOutcome of t3rn_types::side_effect
SecurityLvls == {"Dirty", "Optimistic", "Escrow"}
Outcomes == {"Success", "MisbehaviourMalformedValues", "TimedOut"}
\* TargetId: [u8; 4]
TargetIds == [1..4 -> 0..255]
ZeroTargetId == [i \in 1..4 |-> 0]

SideEffects == [target : Targets, prize : Balances, action : ActionEncodings,
                args : Args]
Bids == [bid : Balances, optimistic_insurance : Opt(Balances),
         reserved_bond : Opt(Balances), executor : Accounts, requester : Accounts]
Confirmations == [err : Opt(Outcomes), output : Opt(Outputs),
                  executioner : Accounts, received_at : Heights,
                  cost : Opt(Balances)]
FullSideEffects == [input : SideEffects, confirmed : Opt(Confirmations),
                    security_lvl : SecurityLvls, best_bid : Opt(Bids)]
HardenedSideEffects ==
  [target : Targets, prize : Balances, encoded_action : TargetIds,
   encoded_args : Args, security_lvl : SecurityLvls,
   confirmation_outcome : Opt(Outcomes), confirmed_executioner : Opt(Accounts),
   confirmed_received_at : Opt(Heights), confirmed_cost : Opt(Balances)]

VARIABLES
  fsx,       \* side effect -> its FullSideEffect, or None before submission
  hardened   \* side effect -> its settlement record, or None
vars == <<fsx, hardened>>

(***************************************************************************)
(* The operations of mod.rs                                                *)
(***************************************************************************)
\* SFXBid::new_none_optimistic
NewNoneOptimistic(bid, executor, requester) ==
  [bid |-> bid, optimistic_insurance |-> None, reserved_bond |-> None,
   executor |-> executor, requester |-> requester]

\* mutant: the err check is dropped, any confirmation counts as a success
IsSuccessfullyConfirmedAnyErr(f) == f.confirmed # None

\* FullSideEffect::is_successfully_confirmed
IsSuccessfullyConfirmed(f) == f.confirmed # None /\ f.confirmed.err = None

\* Option::and_then / Option::map on the confirmation
AndThen(c, field) == IF c = None THEN None ELSE c[field]

\* TargetId::try_from(encoded_action).unwrap_or_default(): a 4-byte action
\* converts, anything else becomes [0, 0, 0, 0]
TryFromTargetIdOrDefault(a) == IF Len(a) = 4 THEN a ELSE ZeroTargetId

\* TryInto<HardenedSideEffect> for FullSideEffect
TryInto(f) ==
  [target |-> f.input.target, prize |-> f.input.prize,
   encoded_action |-> TryFromTargetIdOrDefault(f.input.action),
   encoded_args |-> f.input.args, security_lvl |-> f.security_lvl,
   confirmation_outcome |-> AndThen(f.confirmed, "err"),
   confirmed_executioner |-> AndThen(f.confirmed, "executioner"),
   confirmed_received_at |-> AndThen(f.confirmed, "received_at"),
   confirmed_cost |-> AndThen(f.confirmed, "cost")]

(***************************************************************************)
(* The lifecycle driven by the settlement logic                            *)
(***************************************************************************)
Submit(s, se, lvl) ==
  /\ fsx[s] = None
  /\ fsx' = [fsx EXCEPT ![s] = [input |-> se, confirmed |-> None,
                                 security_lvl |-> lvl, best_bid |-> None]]
  /\ UNCHANGED hardened

\* attach_bid: an optimistic execution carries insurance and bond, any other
\* is built with new_none_optimistic; the bid never exceeds the prize
AttachBid(s, amount, executor, requester, insurance, bond) ==
  LET f == fsx[s]
      b == IF f.security_lvl = "Optimistic"
           THEN [NewNoneOptimistic(amount, executor, requester)
                   EXCEPT !.optimistic_insurance = insurance,
                          !.reserved_bond = bond]
           ELSE NewNoneOptimistic(amount, executor, requester)
  IN /\ f # None /\ hardened[s] = None
     /\ amount <= f.input.prize
     /\ fsx' = [fsx EXCEPT ![s].best_bid = b]
     /\ UNCHANGED hardened

\* confirm: at most once
Confirm(s, c) ==
  /\ fsx[s] # None /\ hardened[s] = None
  /\ fsx[s].confirmed = None
  /\ fsx' = [fsx EXCEPT ![s].confirmed = c]
  /\ UNCHANGED hardened

\* harden: the settlement record is taken once and is terminal
Harden(s) ==
  /\ fsx[s] # None /\ hardened[s] = None
  /\ hardened' = [hardened EXCEPT ![s] = TryInto(fsx[s])]
  /\ UNCHANGED fsx

Init ==
  /\ fsx = [s \in Sfx |-> None]
  /\ hardened = [s \in Sfx |-> None]

Next ==
  \E s \in Sfx :
    \/ \E se \in SideEffects, lvl \in SecurityLvls : Submit(s, se, lvl)
    \/ \E amount, insurance, bond \in Balances, e, r \in Accounts :
         AttachBid(s, amount, e, r, insurance, bond)
    \/ \E c \in Confirmations : Confirm(s, c)
    \/ Harden(s)

Spec == Init /\ [][Next]_vars

(***************************************************************************)
(* Properties                                                              *)
(***************************************************************************)
\* Type invariant.
TypeOK ==
  /\ fsx \in [Sfx -> Opt(FullSideEffects)]
  /\ hardened \in [Sfx -> Opt(HardenedSideEffects)]

\* The circuit never treats as successful a side effect whose settlement
\* record names a failure: when is_successfully_confirmed holds on the FSX,
\* the confirmation_outcome try_into wrote into the record is neither
\* MisbehaviourMalformedValues nor TimedOut, whatever order submission,
\* bids, confirmation and hardening happened in.
SuccessNeverRecordedAsFailure ==
  \A s \in Sfx :
    (hardened[s] # None /\ IsSuccessfullyConfirmed(fsx[s]))
      => hardened[s].confirmation_outcome \in {None, "Success"}

\* Spec 3 and 8, and the test at mod.rs:207: a confirmation whose outcome is
\* Some(Success) is a successful one. When the settlement record that
\* try_into wrote says Success, is_successfully_confirmed on the FSX must
\* agree, or the payout logic pays an executor the circuit deems failed.
SettlementAgreesOnSuccess ==
  \A s \in Sfx :
    (hardened[s] # None /\ hardened[s].confirmation_outcome = "Success")
      => IsSuccessfullyConfirmed(fsx[s])

\* Spec 8, hardening totality: every optional field present on the
\* confirmation is present on the settlement record.
HardeningKeepsConfirmation ==
  \A s \in Sfx :
    LET c == fsx[s].confirmed
        h == hardened[s]
    IN (h # None /\ c # None) =>
         /\ c.err # None => h.confirmation_outcome = c.err
         /\ c.cost # None => h.confirmed_cost = c.cost
         /\ c.output # None => c.output \in {h[f] : f \in DOMAIN h}
=============================================================================
