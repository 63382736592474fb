-------------------------- MODULE SideEffectProofs --------------------------
(***************************************************************************)
(* Type correctness of the side-effect records: every lifecycle yields     *)
(* FullSideEffects and settlement records of the declared shapes; in       *)
(* particular hardening always produces a 4-byte encoded_action, whatever  *)
(* length the requested action had.                                        *)
(***************************************************************************)
EXTENDS SideEffect, SequenceTheorems, TLAPS

LEMMA BalancesFacts == MaxBalance \in Nat /\ None \notin Balances
BY SideEffectAssumption DEF Balances

\* TargetId::try_from(..).unwrap_or_default() always yields a TargetId
LEMMA TargetIdConversion ==
  ASSUME NEW a \in ActionEncodings
  PROVE  TryFromTargetIdOrDefault(a) \in TargetIds
<1>1. a \in Seq(0..255)
  BY SideEffectAssumption
<1>2. CASE Len(a) = 4
  BY <1>1, <1>2, LenProperties DEF TryFromTargetIdOrDefault, TargetIds
<1>3. CASE Len(a) # 4
  BY <1>3 DEF TryFromTargetIdOrDefault, TargetIds, ZeroTargetId
<1>4. QED
  BY <1>2, <1>3

\* the projection of an optional confirmation's field
LEMMA AndThenType ==
  ASSUME NEW c \in Opt(Confirmations)
  PROVE  /\ AndThen(c, "err") \in Opt(Outcomes)
         /\ AndThen(c, "executioner") \in Opt(Accounts)
         /\ AndThen(c, "received_at") \in Opt(Heights)
         /\ AndThen(c, "cost") \in Opt(Balances)
BY DEF AndThen, Opt, Confirmations

LEMMA TryIntoType ==
  ASSUME NEW f \in FullSideEffects
  PROVE  TryInto(f) \in HardenedSideEffects
<1>1. TryFromTargetIdOrDefault(f.input.action) \in TargetIds
  BY TargetIdConversion DEF FullSideEffects, SideEffects
<1>2. f.confirmed \in Opt(Confirmations)
  BY DEF FullSideEffects
<1>3. QED
  BY <1>1, <1>2, AndThenType DEF TryInto, HardenedSideEffects, FullSideEffects, SideEffects

LEMMA BidType ==
  ASSUME NEW amount \in Balances, NEW e \in Accounts, NEW r \in Accounts,
         NEW ins \in Balances, NEW bond \in Balances, NEW lvl
  PROVE  (IF lvl = "Optimistic"
          THEN [NewNoneOptimistic(amount, e, r)
                  EXCEPT !.optimistic_insurance = ins, !.reserved_bond = bond]
          ELSE NewNoneOptimistic(amount, e, r)) \in Bids
BY DEF NewNoneOptimistic, Bids, Opt

LEMMA TypeInit == Init => TypeOK
BY DEF Init, TypeOK, Opt

LEMMA TypeStep == TypeOK /\ [Next]_vars => TypeOK'
<1> SUFFICES ASSUME TypeOK, [Next]_vars PROVE TypeOK'
  OBVIOUS
<1>1. ASSUME NEW s \in Sfx, NEW se \in SideEffects, NEW lvl \in SecurityLvls,
             Submit(s, se, lvl)
      PROVE  TypeOK'
  BY <1>1 DEF Submit, TypeOK, FullSideEffects, Opt
<1>2. ASSUME NEW s \in Sfx, NEW amount \in Balances, NEW ins \in Balances,
             NEW bond \in Balances, NEW e \in Accounts, NEW r \in Accounts,
             AttachBid(s, amount, e, r, ins, bond)
      PROVE  TypeOK'
  <2>1. fsx[s] \in FullSideEffects
    BY <1>2, BalancesFacts DEF AttachBid, TypeOK, Opt
  <2>2. QED
    BY <1>2, <2>1, BidType DEF AttachBid, TypeOK, FullSideEffects, Opt
<1>3. ASSUME NEW s \in Sfx, NEW c \in Confirmations, Confirm(s, c)
      PROVE  TypeOK'
  BY <1>3 DEF Confirm, TypeOK, FullSideEffects, Opt
<1>4. ASSUME NEW s \in Sfx, Harden(s)
      PROVE  TypeOK'
  <2>1. fsx[s] \in FullSideEffects
    BY <1>4 DEF Harden, TypeOK, Opt
  <2>2. QED
    BY <1>4, <2>1, TryIntoType DEF Harden, TypeOK, Opt
<1>5. CASE UNCHANGED vars
  BY <1>5 DEF vars, TypeOK
<1>6. QED
  BY <1>1, <1>2, <1>3, <1>4, <1>5 DEF Next

\* Type correctness of the side-effect lifecycle, for every set of side
\* effects, accounts, targets and action encodings and every balance bound:
\* in particular try_into's unwrap_or_default never leaves a settlement
\* record with an encoded_action of the wrong width.
THEOREM SideEffectTypeCorrect == Spec => []TypeOK
BY TypeInit, TypeStep, PTL DEF Spec

(***************************************************************************)
(* A success the circuit sees is never a failure in the settlement record  *)
(***************************************************************************)
\* the outcome the record holds is the err of the FSX's confirmation, which
\* no step changes once the record is taken
OutcomeRecorded ==
  \A s \in Sfx :
    hardened[s] # None =>
      /\ fsx[s] # None
      /\ hardened[s].confirmation_outcome = AndThen(fsx[s].confirmed, "err")

OutcomeInv == TypeOK /\ OutcomeRecorded

\* is_successfully_confirmed holds only of a confirmation without err
LEMMA SuccessHasNoErr ==
  ASSUME NEW f, IsSuccessfullyConfirmed(f)
  PROVE  AndThen(f.confirmed, "err") = None
BY DEF IsSuccessfullyConfirmed, AndThen

LEMMA OutcomeStep == OutcomeInv /\ [Next]_vars => OutcomeRecorded'
<1> SUFFICES ASSUME TypeOK, OutcomeRecorded, [Next]_vars
             PROVE  OutcomeRecorded'
  BY DEF OutcomeInv
<1> USE DEF OutcomeRecorded
<1>1. ASSUME NEW s \in Sfx, NEW se \in SideEffects, NEW lvl \in SecurityLvls,
             Submit(s, se, lvl)
      PROVE  OutcomeRecorded'
  \* a side effect is submitted before anything is hardened for it
  <2>1. hardened[s] = None
    BY <1>1 DEF Submit
  <2>2. QED
    BY <1>1, <2>1 DEF Submit, TypeOK
<1>2. ASSUME NEW s \in Sfx, NEW amount \in Balances, NEW ins \in Balances,
             NEW bond \in Balances, NEW e \in Accounts, NEW r \in Accounts,
             AttachBid(s, amount, e, r, ins, bond)
      PROVE  OutcomeRecorded'
  \* a bid leaves the confirmation alone
  BY <1>2 DEF AttachBid, TypeOK
<1>3. ASSUME NEW s \in Sfx, NEW c \in Confirmations, Confirm(s, c)
      PROVE  OutcomeRecorded'
  \* a confirmation is only taken before hardening
  BY <1>3 DEF Confirm, TypeOK
<1>4. ASSUME NEW s \in Sfx, Harden(s)
      PROVE  OutcomeRecorded'
  \* try_into copies the confirmation's err into confirmation_outcome
  BY <1>4 DEF Harden, TryInto, TypeOK
<1>5. CASE UNCHANGED vars
  BY <1>5 DEF vars
<1>6. QED
  BY <1>1, <1>2, <1>3, <1>4, <1>5 DEF Next

LEMMA OutcomeImpliesProperty == OutcomeRecorded => SuccessNeverRecordedAsFailure
BY SuccessHasNoErr DEF OutcomeRecorded, SuccessNeverRecordedAsFailure

\* For every set of side effects, accounts and encodings: when
\* is_successfully_confirmed holds on an FSX, the confirmation_outcome that
\* try_into put in its settlement record is not a failure outcome, because
\* a success is a confirmation with no err and try_into copies err.
THEOREM SuccessNeverRecordedAsFailureHolds == Spec => []SuccessNeverRecordedAsFailure
<1>1. Init => OutcomeRecorded
  BY DEF Init, OutcomeRecorded
<1>2. Spec => []TypeOK
  BY SideEffectTypeCorrect
<1>3. TypeOK /\ OutcomeRecorded /\ [Next]_vars => OutcomeRecorded'
  BY OutcomeStep DEF OutcomeInv
<1>4. QED
  BY <1>1, <1>2, <1>3, OutcomeImpliesProperty, PTL DEF Spec
=============================================================================
