# Formal model of the t3rn Portal and side-effect records

This directory holds TLA+ models of the two source files of this repository:

- `src/pallets/portal/src/lib.rs`: the Portal pallet, which routes verification requests to light clients.
- `src/primitives/src/side_effect/mod.rs`: the side-effect records (FSX, SFXBid, hardening).

It also holds an abstract per-gateway specification of what the Portal promises, with the Portal shown to implement it. There are TLC configurations that model-check all of these, and TLAPS proofs of the main invariants and of the refinement.

## 1. The system (inventory)

| Part | Code | State | Operations | Interacts with |
|---|---|---|---|---|
| Portal router | lib.rs 95-283 | none of its own | `submit_headers` (signed extrinsic), 7 queries, `verify_{event,state,tx}_inclusion`, the three `*_and_recode` variants, `initialize`, `turn_on`, `turn_off` | XDNS, light clients, recoder |
| Light-client registry | lib.rs 128-138 (`T::LightClients`) | a fixed ordered list of (vendor, client) pairs; duplicates allowed | find-first lookup by vendor | Portal router |
| Vendor codec table | lib.rs 110-118 | fixed | `match_vendor_with_codec` | recode path |
| XDNS (external) | `T::Xdns::get_verification_vendor` | gateway → vendor | registration, purge (outside this repo) | Portal router |
| Light clients (external) | `LightClient<T>` trait | per instance: initialized, operational, followed chain, finalized height | initialize, turn_on/off, submit_headers, queries, verify inclusion | Portal router |
| Recoder (external, t3rn_abi) | `recode_bytes_with_descriptor` | none | recode bytes between codecs by a descriptor | recode path |
| Side-effect records | mod.rs 29-135 | FullSideEffect: input, confirmed, security_lvl, best_bid; SFXBid | `new_none_optimistic`, `is_successfully_confirmed`, `expect_*`, `try_into` (hardening) | settlement logic (external) |

These are the behaviours that are hard to test:

- Routing goes through two lookups: the XDNS record is read on every call, and then the FIRST configured client of the vendor is taken.
- Lifecycle and header calls are forwarded without the gateway id. All gateways of one vendor therefore share one client.
- The source codec comes from a hard-coded table, not from the chain that produced the bytes.
- A successful verification followed by a failed recode drops the verified bytes.
- Hardening is a lossy projection of an FSX. Success is encoded as `err = None`, and an action of the wrong length is silently defaulted to `[0,0,0,0]`.

The runtime executes one extrinsic at a time, and every Portal call is synchronous. The concurrency in the model is therefore the interleaving of calls from different callers (signed users, Root, the XDNS administration), each call one atomic step. Nothing in the code retries, times out or runs in the background.

## 2. Modules

- **`Portal.tla`** models the router together with its environment.
  - Variables:
    - `xdns`: the gateway → vendor record of XDNS.
    - `lc`: one light-client state per configured instance. Entry `i` of `LightClientsCfg` is instance `i`.
    - `ret`: the last call and its result.
  - One action per Portal operation. `Query` stands for the 7 queries, `Verify` for the three `verify_*_inclusion` calls and `VerifyAndRecode` for the three `*_and_recode` calls. The methods in each group route identically and differ only in which capability method they call, so one action, with no kind parameter, covers each group.
  - `Dispatch` is `match_light_client_by_gateway_id` followed by the forwarded call. It returns `GatewayVendorNotFound` or `UnimplementedGatewayVendor` exactly as lines 123-136 do.
  - `SubmitHeaders` checks `ensure_signed` first (line 102).
  - `VerifyAndRecode` verifies, re-reads the vendor, picks the codec with `MatchVendorWithCodec` and recodes. It may fail with `SFXRecodeError`, dropping the verified bytes (lines 211-263).
  - The light-client operators `Lc*` and `XdnsRegister`/`XdnsPurge` are spec-modelled, because their code is not in this repository. They follow spec section 6, kept as weak as it allows.
  - Payloads are abstract: `<<chain, height>>` with the codec they are encoded in. A misread gives the model value `Garbage`.
- **`SideEffect.tla`** models the FSX records.
  - Variables: `fsx` (side effect → FullSideEffect or None) and `hardened` (side effect → HardenedSideEffect or None).
  - `NewNoneOptimistic`, `IsSuccessfullyConfirmed`, `AndThen` and `TryFromTargetIdOrDefault`/`TryInto` translate mod.rs.
  - The lifecycle actions `Submit`, `AttachBid`, `Confirm` and `Harden` belong to the settlement logic outside the repository. They follow spec sections 3 and 4.4: the bid is at most the prize, insurance and bond exist only for Optimistic executions, there is at most one confirmation, and hardening is terminal.
- **`PortalGateways.tla`** is the abstract specification: what the Portal promises, gateway by gateway, with no vendors and no client instances in it (spec 4.2, 6 and 8).
  - Variables:
    - `setup`: each gateway's lifecycle, `Unset`, `On` or `Off`.
    - `height`: each gateway's finalized height.
    - `call`: the last call.
    - `result`: what a successful query or verification returned.
  - A call to gateway g either fails and changes nothing (`Refuse`), or acts on g alone: `SetUp`, `Toggle`, `Advance`, `Read`, `Prove` or `Directory`.
  - `Prove` returns only a value `<<g, h>>` with h at most g's height, in the codec the caller asked for.
- **`PortalRefinement.tla`** gives the refinement mapping and instantiates `PortalGateways` with it.
  - A gateway is served by the instance `match_light_client_by_vendor` returns for its vendor (`Primary`), once that instance is initialized for the gateway.
  - The gateway's lifecycle and height are those of that client. A gateway that no client serves is `Unset`.
  - `call` is `ret` without its result.
  - `ImplementsPortalGateways == G!GSpec` is checked as a temporal property.
- **`PortalProofs.tla`**, **`PortalRefinementProofs.tla`** and **`SideEffectProofs.tla`** hold the TLAPS proofs.
- **`MC_Portal.tla`** and **`MC_SideEffect.tla`** provide the model values and constant definitions for TLC.

## 3. Runs

| Run | cfg | Expect | What it shows |
|---|---|---|---|
| portal_routing | MC_Portal.cfg | pass | `RoutingSound` (a shadowed duplicate client is never touched, and every initialized client follows a chain of its own vendor), `RecodeFaithful` (a successful recode returns the value proven from the gateway's own chain, in the requested codec) and the action property `ClientTouchedOnlyByItsGateway` |
| portal_refinement | MC_PortalRefinement.cfg | pass | `ImplementsPortalGateways`: with one gateway per vendor, every Portal step is a `PortalGateways` step under the mapping |
| portal_shared_vendor_lifecycle | MC_PortalShared.cfg | violation | `GatewayLifecycleIsolation`: turning off gateway g2 stops gateway g1 of the same vendor from verifying |
| portal_shared_vendor_headers | MC_PortalSharedHeaders.cfg | violation | `HeadersAdvanceAddressedGateway`: a successful `submit_headers` for g2 advances the client that follows g1 |
| sfx_lifecycle | MC_SideEffect.cfg | pass | `SuccessNeverRecordedAsFailure`: when `is_successfully_confirmed` holds on an FSX, the `confirmation_outcome` that `try_into` wrote into its record is None or Success, never a failure outcome |
| sfx_success_agreement | MC_SideEffectSuccess.cfg | violation | `SettlementAgreesOnSuccess`: a record that says Success implies `is_successfully_confirmed`; TLC confirms with `err = Some(Success)` and hardens, and `is_successfully_confirmed` is then false |
| sfx_hardening_totality | MC_SideEffectTotality.cfg | violation | `HardeningKeepsConfirmation`: hardening drops the confirmation's output |

Bounds for portal_routing:

- Three gateways with vendors Rococo, Ethereum and Kusama.
- `LightClientsCfg = <<Rococo, Ethereum, Rococo>>`, so it has:
  - a shadowed duplicate;
  - an RLP vendor, whose table entry matters;
  - a vendor with no client, which exercises `UnimplementedGatewayVendor`.
- `MaxHeight = 2`, so a proof can be below, at or above the finalized height.
- Purge and re-registration are both reachable. The run covers 13,609 distinct states.

The refinement run uses the constants of portal_routing with `MaxHeight = 1`. The refinement check compares each step against the abstract actions and costs about a minute at that bound. Height 1 still separates a finalized proof (height 0) from one above the client's height. It also covers a height that reaches the bound and stops `submit_headers`.

The shared-vendor runs use two gateways of one vendor, which is the smallest case in which a call addressed to one gateway can disturb another. The SideEffect runs use one side effect, two accounts and balances 0..1. The balances cover insurance present and absent, and a 0-length and a 4-byte action.

Each property of a passing run is paired with a mutant in PROJECT.json that breaks it:

- A client that accepts a proof above its finalized height breaks `ImplementsPortalGateways`.
- A codec table without its RLP arm breaks `RecodeFaithful`.
- Last-match lookup breaks `RoutingSound` and `ClientTouchedOnlyByItsGateway`.
- An `is_successfully_confirmed` without its `err.is_none()` check breaks `SuccessNeverRecordedAsFailure`.

The type invariants (`TypeOK` of Portal and of SideEffect) are proved but not listed as run properties. The Rust compiler already enforces them, so no plausible bug in this code could break one.

No fairness is assumed and no liveness property is checked. Every step is a call that some user or Root chooses to make, and nothing in the code forces a call to happen.

## 4. Findings

1. **turn_on/turn_off are per vendor, not per gateway.** `turn_off(origin, gateway_id)` forwards only `origin` (lib.rs:281-283). Spec 4.2 says these calls give per-gateway enable/disable.
2. **Success is encoded two ways.** `is_successfully_confirmed` (mod.rs:87-95) requires `err = None`. The test at mod.rs:207 uses `err: Some(ConfirmationOutcome::Success)`, and hardening copies `err` into `confirmation_outcome`. A side effect confirmed that way and hardened has a record that says Success while `is_successfully_confirmed` says false, so the payout logic and the circuit disagree on whether the executor is paid. The other direction holds: a success the circuit sees has no `err`, so its record says None (`SuccessNeverRecordedAsFailure`, checked and proved).
3. **Headers are not addressed to a gateway.** `submit_headers(origin, gateway_id, bytes)` (lib.rs:97-106) uses `gateway_id` only to pick the vendor's client, and forwards the bytes alone. With two gateways under one vendor, headers of g1's chain submitted for g2 succeed and advance g1's client. Spec 1 says headers go to the per-chain light client. The same trace also breaks `ImplementsPortalGateways` in the shared-vendor configuration, which is why the refinement is claimed only for unshared vendors.
4. **Hardening is not total.** `try_into` (mod.rs:114-134) drops the confirmation's `output`, contrary to spec 8.

## 5. Proofs (TLAPS)

`PortalProofs.tla`:

- `TypeCorrect == Spec => []TypeOK`
- `RoutingSoundness == Spec => []RoutingSound`
- `ClientTouchedOnlyByItsGatewayHolds == Spec => ClientTouchedOnlyByItsGateway` (the action property)
- `RecodeFaithfulness`: under `CodecTableAgrees`, `Spec => []RecodeFaithful`

`PortalRefinementProofs.tla`:

- `PortalImplementsGateways`: under `VendorsUnshared` and `CodecTableAgrees`, `Spec => ImplementsPortalGateways`
- `LifecycleIsolatedWhenUnshared`: under `VendorsUnshared`, `Spec => GatewayLifecycleIsolation`
- `HeadersReachAddressedGatewayWhenUnshared`: under `VendorsUnshared`, `Spec => HeadersAdvanceAddressedGateway`

The last two are the properties that the shared-vendor runs find violated. Together with those runs they fix the exact boundary of findings 1 and 3: the defects need two gateways under one vendor, and they cannot happen otherwise.

`SideEffectProofs.tla`:

- `SideEffectTypeCorrect == Spec => []TypeOK` for the side-effect records
- `SuccessNeverRecordedAsFailureHolds == Spec => []SuccessNeverRecordedAsFailure`

They hold for every set of gateways, vendor and codec assignment, light-client list and height bound. They rest on assumptions named in the modules:

- `ConstantsAssumption`: the constants are typed.
- `FirstEntryAssumption`: a vendor that the list contains has a first entry. This is true of every finite list, and it is stated so that no induction is needed.
- `NoneIsNoCall` (PortalRefinement): the model value for `Option::None` is not a call record.
- `SideEffectAssumption`: the SideEffect constants are typed.

Two theorems also take a hypothesis that the code does not guarantee, stated as a theorem hypothesis rather than an ASSUME, because TLC shows it can fail:

- `CodecTableAgrees`: each gateway's real codec is the one `match_vendor_with_codec` gives its vendor. The table is hard-coded (the ToDo at lib.rs:110), so this is exactly what it must get right. The mutant without the RLP arm shows what happens otherwise.
- `VendorsUnshared`: no two gateways share a vendor. Findings 1 and 3 show the refinement fails otherwise.

The argument:

- **Routing.** `RoutingSound` alone is not inductive: whether `initialize(g)` reaches a client of the right vendor depends on XDNS recording g's own vendor. The proofs therefore use `RoutingInv == TypeOK /\ XdnsSound /\ RoutingSound`. Every routed call changes only `lc[Route(g)]`; by `RouteFacts` that instance has vendor `xdns[g] = GatewayVendorOf[g]` and is the first of its vendor. The capability calls other than `initialize` keep the followed chain, and `initialize` sets it to g.
- **Which client a step touches.** `ClientTouchedOnlyByItsGateway` follows from the same invariant, step by step.
- **Recoding.** `RecodeFaithful` is made inductive with `TypeOK /\ XdnsSound`. An accepted proof is of g's own chain, and by `CodecTableAgrees` the codec read is the one the bytes are in.
- **Refinement.** The proof of the refinement has three layers:
  - Lemmas about the mapping, stated over any client map that satisfies `ClientFollowsItsVendor`:
    - two primary instances of one vendor are one instance;
    - under `VendorsUnshared`, the routed client of g, once initialized, follows g, so the mapping's view of g is that client's state (`ViewAtRouted`);
    - changing only that client leaves every other gateway's view as it was (`ViewElsewhere`, `RoutedView`).
  - One lemma per Portal action, mapping it to `Refuse` or to its abstract action.
  - `RefinementStep`, which assembles them under `RoutingInv /\ RoutingInv'`.
- **Isolation under unshared vendors.** The two theorems reuse the refinement's view lemmas. A routed call changes only the client that follows its own gateway, so every other gateway's view, including its lifecycle and height, is unchanged.
- **Success and the record.** `SuccessNeverRecordedAsFailure` is not inductive alone, because it says nothing of a record whose FSX is not yet confirmed. The proof uses `OutcomeRecorded`: the record's outcome is the `err` of the FSX's current confirmation. `try_into` copies `err`, and no confirmation is accepted after hardening, which is the at-most-once, hardening-terminal contract of spec 4.4. TLC checked `OutcomeRecorded` on the sfx_lifecycle constants before it was proved. `is_successfully_confirmed` then means `err = None`, so the record's outcome is None.

What stays with TLC only:

- The violation properties in the configurations where they fail. `GatewayLifecycleIsolation` and `HeadersAdvanceAddressedGateway` fail with a shared vendor and are proved without one. `SettlementAgreesOnSuccess` and `HardeningKeepsConfirmation` are false for the code as written.
- Liveness, if later added. TLAPS does not handle ENABLED or fairness here.

## 6. Not modelled

- Pallet events and weights (no event is ever deposited).
- `generate_id`, a hash outside the repository.
- The `expect_*` accessors, which only read. Whether they panic depends on the external caller.
- The bytes of headers, proofs and descriptors, which are abstracted to their meaning.

## 7. Plan for later work

1. Add a `Settlement` composition: a Portal verification feeds `Confirm` in SideEffect, with a `NoAccessorPanic` invariant over the `expect_*` calls the settlement makes.
2. Model XDNS re-registration of a gateway under a different vendor, which is stale routing for already-initialized clients.
