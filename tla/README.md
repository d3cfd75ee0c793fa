# TLA+ models of the raceboat link-negotiation analysis

The system modelled here is `src/states-analysis/states.py`. It is an
executable model of how raceboat's two peers negotiate communication links
over channels of differing directionality. The scenarios it simulates are:

- the client and the server start with the out-of-band (OOB) links that
  their initial channels allow;
- the peers then alternate steps, each loading the addresses the other
  sent and creating the links it still needs;
- a scenario passes when both peers hold a link meeting each of their
  requirements.

The rest of `src/` (the bundled third-party Android Python packages) is not
part of this system.

## 1. Inventory

### Components

| Component | Code | Module | Status |
|---|---|---|---|
| Channel (name and directionality) | `Channel`, `run_params` | `Links` | modelled |
| Link, `is_send`/`is_recv`, `Link.__gt__` | lines 24-64, 205-217 | `Links` | modelled |
| Requirement sets | `make_requirements` | `Negotiation` (`Reqs`) | modelled |
| Peer state | `NodeState`, `Client.start`, `Server.start` | `Negotiation` | modelled |
| Driver loop | `run` | `Negotiation` | modelled |
| Scenario generator and CLI | `generate_scenarios`, `prune_invalid_params`, `make_args`, `__main__` | `Negotiation` (`Scenarios`, `Valid`, `MakeArgs`) | modelled (printing and JSON syntax left out) |
| `Address` class | lines 6-14 | none | not modelled: never instantiated |
| `establish_link`, `scenario1` | lines 159-168, 238-265 | none | not modelled: dead code that raises `TypeError` if called |
| Vendored Android packages | `src/android/...` | none | not modelled: third-party tooling |

### State

Each peer has a dict `links` from link id to a `Link` object, and a
reference `other_node` to the other peer. A `Link` has five fields:

- `channel`;
- `send` and `recv`, derived once at construction;
- `isolated`;
- `ready`.

There is also shared state:

- the process-wide counter `link_idx`;
- the driver's lists `server_msgs` and `client_msgs` of addresses in flight;
- the loop counter `idx`.

An address is the creator's `Link` object itself.

### Operations

`start` creates the non-isolated OOB links:

- the server creates one on `init_c2s` when that channel is L2C or BIDI, and
  one on `init_s2c` when it is C2L;
- the client creates one on `init_c2s` when it is C2L, and one on
  `init_s2c` when it is L2C.

`step(msgs)` proceeds in order:

1. It calls `load_link` on every incoming address. This installs a ready
   loader-side copy and, through `other_node`, marks the creator's copy ready.
2. If `can_send`, it creates an isolated link for each requirement that no
   held link satisfies and that this peer is responsible for. The peer is
   responsible when the channel is BIDI, when it is L2C and the requirement
   is `recv`, or when it is C2L and the requirement is `send`.
3. It returns `FINISHED`, `CREATED NEW LINKS` or `STUCK`.

`run` performs the two `start`s. When `client_oob` is false it drops the
client's start addresses. It then loops "server step, client step" until
both peers are final or `idx > 5`.

### Interactions

The peers interact in two ways:

- through the address lists, whose contents are delivered whole and in
  order;
- through the cross-peer write of `load_link` (line 137), which makes the
  creator's copy ready at the moment the loader loads.

### Hard behaviours

- Load-before-create ordering within a step.
- A peer's own link in flight is not yet ready, so it does not count as
  satisfying a requirement.
- Who creates a link (the responsibility rule), `is_send` and `start` must
  agree on each channel's direction.
- The `can_send` gate (marked TODO in the code).
- The global id counter shared by both peers.
- The dropped client OOB addresses.
- The iteration ceiling.
- Addresses appended to `client_msgs` reach the server only in the next
  iteration, so the loop must not end with addresses still in flight.
- An unknown directionality string, for which `is_send` returns `None`.

These are the hazards listed in `PROJECT.json`.

### Properties

For the links of both peers, the model checks that:

- the two copies of a link agree;
- nobody sends against a channel's direction;
- no two isolated links exist on one channel;
- the fields of a link are stable.

It also checks that no link can neither send nor receive, which is where
`is_send`'s `None` for an unknown directionality would bite.

For the driver, the model checks that a failure means both peers are
genuinely stuck, that every address put in flight is eventually loaded
(every link becomes ready),
and that the run implements an abstract negotiation in which a channel
becomes met for both peers at once, met channels stay met and the verdict
is final.

## 2. Modules

### `Links.tla`

Pure operators, with no variables:

- `Dirs` and `Channels`;
- `LinkRec`, the record of a `Link`;
- `IsSend` and `IsRecv`, translating `is_send` and `is_recv`; for a
  directionality other than the three known ones `is_send` returns `None`,
  which every caller treats as false, so `IsSend` is FALSE there;
- `NewLink`, the constructor as `create_link` and `load_link` call it;
- `Satisfies`, translating `Link.__gt__`;
- `Req`, one requirement record.

### `Negotiation.tla`

The two peers and `run()`.

| Variable | Code |
|---|---|
| `dir`, `clientOOB` | the scenario, chosen in `Init` as `run_params` receives it |
| `links[p]` | `p.links` |
| `linkIdx` | `link_idx` |
| `serverMsgs`, `clientMsgs` | the two lists, as sets of link ids |
| `idx` | the loop counter |
| `status[p]` | the status of p's last step |
| `pc` | where `run` is |

Link ids are the counter values, since the name `"<chan>-link-<n>"` is
injective in n. Several links created in one step get consecutive values in
requirement order: `NewIds` and `Rank`.

The actions are:

- `ServerStart`: lines 350.
- `ClientStart`: lines 351-354, including the OOB drop.
- `Exit`: the loop test at line 357 fails.
- `ServerStep`: lines 357-362.
- `ClientStep`: lines 364-374, including the ceiling.
- `Terminated`: the returned verdict, as stuttering.

`Step(p, msgs)` is the whole of `NodeState.step`:

- `Load` on p's dict;
- `MarkReady` on the other dict (the line-137 write);
- `Created`, the missing and responsible requirements, computed after
  loading and gated by `CanSendIn`;
- `CreateLinks` with the counter advance;
- the status of `finished_or`.

The constant `GeneratorMode` selects the parameter set:

- TRUE: only the scenarios `generate_scenarios` keeps after
  `prune_invalid_params` (`GeneratedScenarios`);
- FALSE: every parameter set the one-argument CLI accepts. The CLI does not
  check the directionality strings, so they range over the constant
  `CLIDirs`, which must contain `Dirs` (`ConstantsAssumption`).

`Start(p)` follows `start` through `make_args`: `MakeArgs` says which
initial channel is p's `init_send` and `init_recv`, and `StartTests` lists
start's two tests in program order with the directionalities that create
a link.

`MaxIterations` is the loop's ceiling, 5 in the code.

### `MCNegotiation.tla`

Instantiates `MaxIterations` with the code's 5 and `CLIDirs` with the three
directionalities plus one malformed string, `"bidi"` (a lower-case typo),
which stands for every unknown string: `is_send` treats them all alike.

### `NegotiationAbstract.tla`

What a run promises its caller, with no links: per party, the set `met` of
needs (channels) that are met, and a flag `returned`. Every step
(`Progress`, or `Return`, which sets `returned`) adds one set of needs `S`
to every party's `met` at once (`Establish(S)`). So `met` only grows, the
parties always agree on it, and nothing changes after `Return`. `ASpec`
is a safety specification: no fairness. `Negotiation` instantiates it as
`Abstract` with the refinement mapping

    met      <- MetChans   (per peer, the channels on which some held
                            link satisfies that peer's requirement)
    returned <- pc = "done"

and `Refinement == Abstract!ASpec` is checked as a property. It fails if a
link is lost or overwritten (a met channel becomes unmet). It also fails if
a step makes a channel met for one peer and not the other. That would
happen if the cross-peer write of `load_link` were missed or went to the
wrong link.

### `NegotiationProofs.tla`, `NegotiationRefinementProofs.tla`, `NegotiationShapeProofs.tla`, `NegotiationIsolationProofs.tla`, `NegotiationProgressProofs.tla`

The TLAPS proofs (section 4). Each one EXTENDS the one before it and
strengthens its inductive invariant.

## 3. Runs

### `all_scenarios` (pass)

`MCNegotiation.cfg`, `GeneratorMode = FALSE`. `Init` enumerates all 512
parameter sets (4^4 directionalities, one of them malformed, × `client_oob`).
For a given scenario the program is deterministic, so the run covers every
behaviour the program has: 6676 distinct states.

The run checks these properties:

- `ReadyIffShared`: a copy is ready iff the other peer holds the link.
  This catches a wrong or missed cross-peer write, and dropped OOB links
  becoming ready.
- `CopiesComplementary`: the two copies have the same channel and
  isolation, and swapped `send`/`recv`.
- `NoWrongWaySend`: on a unidirectional channel only the side it points
  away from can send. This checks that `start`, the responsibility rule and
  `is_send` agree.
- `NoRedundantIsolatedLink`: at most one isolated link per channel across
  both peers. This depends on loading before checking what is missing.
- `FailureIsQuiescent`: when `run` returns False, both peers' last status
  is `STUCK` and nothing is in flight. The ceiling never cuts off a
  negotiation still making progress.
- `NoDeadLink`: every held link can send or receive. Only `is_send`
  returning `None` could make it fail: start and the responsibility test
  must never create a link on a channel of unknown directionality.
- `EveryLinkLoaded`, under `WF_vars(Next)`: eventually every held link is
  ready, except the client's start links that `run` drops without
  `client_oob`. A link is ready once its address has reached the other
  peer's `load_link`. `run` hands each list to the other peer's `step` and
  only then clears it. An address appended by the client's last step before
  the ceiling's break, or before a loop test that finds both peers final,
  would never be loaded, and its creator's copy would stay unready. The
  exception is needed: without it TLC finds the dropped links unready.
- `Refinement`: the run implements `NegotiationAbstract!ASpec`. Each step
  makes a channel met for both peers or for neither, and never unmeets one.
- `LinksStable`, an action property: no link is dropped, no field but
  `ready` changes, and `ready` never reverts.

Why the bounds are enough:

- `MaxIterations` is the code's own value.
- The parameter space is enumerated exhaustively.
- No other bound exists: the counter and the loop are bounded by the
  ceiling.

Cross-check: a throw-away harness evaluated the model's verdict on each of
the 162 scenarios against the Python program's. They agree everywhere:

- all 135 generated scenarios pass;
- of the 27 pruned ones, 7 pass and 20 fail;
- passing scenarios need 1 to 3 rounds.

Fairness: `run` is a sequential loop with no blocking and no
nondeterminism. The next statement always executes, so weak fairness of
`Next` is exactly what the interpreter provides.

Each property has a mutant in `PROJECT.json`, a plausible bug that TLC
catches:

| Property | Mutant |
|---|---|
| `ReadyIffShared` | no cross-peer write |
| `CopiesComplementary` | the loader derives its capabilities as the creator |
| `NoWrongWaySend` | the L2C responsibility goes to the sender |
| `NoRedundantIsolatedLink` | missing links are computed before loading |
| `FailureIsQuiescent` | the ceiling is too low |
| `EveryLinkLoaded` | `server_msgs` is cleared before `client.step` reads it |
| `LinksStable` | the cross-peer write aliases the loader's record |
| `NoDeadLink` | responsibility defaults to "yes" for any non-unidirectional channel |
| `Refinement` | `create_link` forgets `link_idx += 1`, so a new link overwrites a held one |

### `generator_final_c2l` (violation)

`MCNegotiationGenerator.cfg`, `GeneratorMode = TRUE`. It checks
`FinalC2LWithoutOOBFails`, the claim of `spec.md` §8 that final C2L/C2L
without client OOB ends FAILED. TLC finds a generated scenario of that shape
that passes, for example `init_c2s = BIDI`, `init_s2c = BIDI`. The reason:

1. Once the client loads the server's OOB link, it can send and creates the
   C2L c2s link.
2. The client's load makes the server's links ready, so the server creates
   the C2L s2c link.

### `pruned_scenarios` (violation)

`MCNegotiationPruned.cfg`. It checks `PrunedScenarioFails`, the
`prune_invalid_params` comment's claim that those scenarios are impossible.
Seven of the 27 pass, for example `init_s2c = C2L`: the server's OOB s2c
link gives the client a way to send.

### `malformed_directionality` (violation)

`MCNegotiationMalformed.cfg`. It checks `MalformedRejectedBeforeLoop`, the
claim of `spec.md` §7 that a malformed directionality fails before the
driver loop. The code never checks: with `final_s2c = "bidi"` the run
enters the loop, no link is ever created on that channel, and the run
reports FAILED at the ceiling.

## 4. Proofs (checked by tlapm)

The inductive invariant is

    IInv == TypeOK /\ MsgsHeld /\ IdsBelowCounter /\ ReadyIffShared

`ReadyIffShared` alone is not inductive, so two strengthening conjuncts are
needed:

- `MsgsHeld`: every id in flight is held by its sender. Without it, a load
  could target an id its creator does not hold.
- `IdsBelowCounter`: every held id is below `linkIdx`. Without it, freshly
  created ids could collide with held ones and overwrite a ready copy.

`IInv` was also checked with TLC on all scenarios before being proved.

The proof has two parts:

- `InitIInv` discharges the initial states.
- `NextIInv` has one case per action. The step cases rest on lemmas about
  the operators: `CreateLinksFacts`, `LoadFacts`, `MarkReadyFacts` and
  `NewIdsRange`, all combined in `StepFacts`, plus `StartFacts`. Each lemma
  states what the helper keeps, adds and bounds.

The theorems are:

- `IInvHolds == Spec => []IInv`;
- `TypeCorrect == Spec => []TypeOK` (the type invariant, proved and not a
  run property: no plausible bug of the code breaks it);
- `ReadyIffSharedHolds == Spec => []ReadyIffShared`.

They hold for every value of `MaxIterations \in Nat`, both values of
`GeneratorMode` and every `CLIDirs` containing the three directionalities.

`NegotiationRefinementProofs.tla` strengthens the invariant to

    RInv == IInv /\ MsgsFresh

`MsgsFresh` says no address in flight is already held by its receiver. It
is what makes `load_link`'s `self.links[id] = ...` harmless: without it a
load could overwrite a held link. The proofs are:

- `RInvHolds == Spec => []RInv`;
- `LinksStableHolds`: the action property `LinksStable`, from `RInv` and
  `NextKept` (every step keeps every held record, up to `ready` becoming
  TRUE);

`NegotiationShapeProofs.tla` adds `Shape` and `Complementary`:

    SInv == RInv /\ Shape /\ Complementary

`Shape` says each held link either has `create_link`'s capabilities on a
channel its holder may create on, or is ready with `load_link`'s
capabilities on a channel the other side may create on. It is inductive
because of `MsgsFresh`: a loaded address is not held by the loader, so by
`ReadyIffShared` the sender's copy is unready, so it is one the sender
created. The theorems are `CopiesComplementaryHolds`,
`NoWrongWaySendHolds` and `NoDeadLinkHolds`.

`NegotiationIsolationProofs.tla` proves `NoRedundantIsolatedLink`.
`Out(p)` is p's outbox (`serverMsgs` or `clientMsgs`). The invariant is

    UInv == SInv /\ IsoBeforeLoop /\ OutboxClean /\ IsoHeld /\ IsoUnique

- `IsoUnique`: two isolated links, wherever held, on one channel are the
  same id. It implies `NoRedundantIsolatedLink`.
- `IsoHeld`: an isolated link the other peer has not loaded yet is in its
  creator's outbox. So a peer about to step has already loaded every
  isolated link of the other peer. Since `step` loads before it computes
  the missing requirements, it sees those links as meeting the
  requirement and does not create a twin.
- `OutboxClean`: when the loop is at a server step, the server's outbox
  holds no isolated link, and when it is at a client step, the client's
  outbox is empty. This holds because each outbox is emptied when handed
  to the other peer. Without it, `IsoHeld` could not show that the
  stepping peer's own unloaded isolated links are not missing from its
  view.
- `IsoBeforeLoop`: `start` creates no isolated link.

The heart is `StepIso`: every link a step creates is isolated, on a
channel that had no isolated link. Its proof uses the shape of the
requirements (`ReqShape`, `SendChansOther`, `ShapedMeets`). The theorems
are `UInvHolds` and `NoRedundantIsolatedLinkHolds`.

`NegotiationProgressProofs.tla` proves `FailureIsQuiescent`, under the
hypothesis `MaxIterations >= 5` (the code's ceiling is 5). It counts
`IsoChans`, the channels on which some peer holds an isolated link. There
are 4 channels (`ChannelsCard`). A round is one server step and one client
step. The invariant is

    QInv == UInv /\ PInv

`PInv` says that after idx rounds:

- either the run passed,
- or the state is a fixpoint `Fix`: nothing in flight, both peers STUCK,
  and a step over no address would create nothing and not finish;
- or `Cardinality(IsoChans) >= idx - 1`.

Between the two steps of a round, it also allows `ServerQuiet`: the
server's step was STUCK and sent nothing.

The argument:

- A step that creates adds a channel to `IsoChans`. This is `StepGrows`,
  from `StepIso`.
- A step that creates nothing returns FINISHED or STUCK (`QuietStep`).
  Over an empty outbox, it changes no dict (`NullStep`).
- FINISHED means the run passes. A peer is final exactly when the other is
  (`FinalMirror`, `FinalStatesAgree`): the other peer's copy of a ready
  link meets the mirrored requirement.

So from round 2 on, a round that opens no channel leaves a fixpoint. Once
idx passes 5, `Cardinality(IsoChans) >= 5 > 4` is impossible, and a failed
run has reached `Fix`, which implies `FailureIsQuiescent`.

The count needs the hypothesis because the bound is crude. With a ceiling
of 4, it allows 4 creating rounds. TLC checks the ceiling the code uses.
The mutant `CeilingReachedEarly` (ceiling 1) shows that a ceiling that is
too low breaks the property. `PInv` was model-checked with TLC on every
scenario, at ceilings 5 and 9, before it was proved.

The same module proves `RefinementHolds == Spec => Refinement` for every
scenario and ceiling. Its invariant is

    Agree == SInv /\ MetChans["server"] = MetChans["client"]

The second conjunct comes from `MetSame`. The other peer's copy of a ready
link meets the mirrored requirement on the same channel (`ReqMirror`, the
per-requirement form of `FinalMirror`), so each peer's met channels are
contained in the other's. `AgreeStep` then maps each step to the abstract
one:

- while `pc # "done"`, `S` is the server's newly met channels. `MetGrows`
  with `NextKept` says nothing is unmet. `Agree` before and after the step
  says the client gains exactly `S`. The step is `Progress`, or `Return`
  when it sets `pc` to `"done"`.
- after `"done"` only `Terminated` is enabled, which stutters.

Only model-checked, and why:

- Liveness: `EveryLinkLoaded` (under `WF_vars(Next)`). TLAPS does not
  reason about `ENABLED` and fairness here.
- `FailureIsQuiescent` for ceilings below 5. The proof's counting argument
  does not cover them, and the model checks only the code's 5.

## 5. Plan for the remaining work

1. State and prove the idempotence of `Load` on an already held id, which
   `spec.md` relies on.
2. Prove a tighter count of the creating rounds, to weaken the
   `MaxIterations >= 5` hypothesis to the smallest ceiling that works.
