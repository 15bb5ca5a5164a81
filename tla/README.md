# Creditcoin attestation: a TLA+ verification

Creditcoin3 is a Substrate chain on which a committee of *attestors* vouches for
the blocks of other (EVM) chains.  This directory holds TLA+ models of the parts
of it that decide what is vouched for, the TLC instances that check them, and
TLAPS proofs about the core.  Every definition is translated from the code under
`src/`; `PROJECT.json` gives the lines each one stands for.

Contents: [The system](#the-system) - [AttestationChain](#attestationchain) -
[AttestorRegistry](#attestorregistry) - [AttestorPool](#attestorpool) -
[AttestationStream](#attestationstream) - [Proofs](#proofs) -
[Where code and comments disagree](#where-code-and-comments-disagree) -
[Not modelled](#not-modelled) - [Plan](#plan) - [Running it](#running-it)

## The system

### Parts and how they interact

| part | code | state | operations |
|---|---|---|---|
| attestation pallet, chain side | `pallets/attestation` (`impls.rs`, `continuity.rs`, `clear_or_revert.rs`) | attestations, two queues, checkpoints and their bucket index, pruning state, clearing cursors | commit, revert, forward patch, import, settings, removal, per-block cleanup |
| attestation pallet, attestor side | `pallets/attestation` (`impls.rs`, `ledger.rs`) | roster, committee, BLS keys live and retired, bonds and unlocking chunks | register, attest, chill, kick, unregister, withdraw, elect, settings |
| supported chains, randomness | `pallets/supported-chains`, `pallets/randomness` | chain keys, epoch values | register and remove a chain, deliver an epoch value |
| precompiles | `precompiles/*` | none | verify a proof against a stable checkpoint, forward calls |
| attestor process | `attestor/pool`, `attestor/attestor` | vote pool, validation lock, submission, proof cache, outbox, pending votes | gossip, validate, submit, produce, follow finality |
| streams and client | `common/streams/*`, `common/cc-client` | cursors, caches, back-off | follow Creditcoin and the source chain over reconnects |
| continuity builder | `common/continuity` | none | bracket a request, chain digests, verify against the chain |
| archiver | `archiver` | roots on disk, entry counter, anchors | append, repair gaps, follow reorganisations |
| checkpoint builder | `checkpoint-builder` | chained sources | resolve spans of roots into checkpoints |
| proof server | `proof-gen-api-server` | caches of attestations, checkpoints and Merkle trees | serve proofs, prune on reversion |
| indexer, verifier, command line, node, runtime | `cc3-indexer`, `checkpoint-verifier`, `cli`, `query-cli`, `node`, `runtime` | database rows, wiring | copy events, compare, submit single calls |

An attestor follows its source chain, signs the digest of a block, gossips the
vote, gathers a quorum, validates the continuity proof against what is finalized
on Creditcoin, and submits the aggregate.  The pallet checks it against the
committee (attestor side) and against the head (chain side), stores it, condenses
attestations into checkpoints and prunes old ones.  Readers (the block-prover
precompile, the proof server) anchor source-chain proofs on those checkpoints.

### What is hard about it

* Maintenance is spread over blocks.  Reverting, wiping and removing move the
  head at once and delete in bounded batches from `on_initialize`, so every other
  call can run between two batches and every reader can look in between.
* Checkpoint boundaries are computed from settings that change while attestations
  are queued; two settings wait for an epoch, a third applies at once.
* Two maps (checkpoints and buckets; retired keys and their index by stash;
  committee and statuses) have to agree although five or more operations write
  each.
* A key is claimed, retired, kept for the unbonding period, released and claimed
  again, by controllers of different stashes.
* The attestor process holds state across awaits: a permit taken before a
  reversion, a submission that times out and lands later, a vote skipped once and
  never redelivered.

`PROJECT.json` lists these as hazards, each at its line, with the properties that
cover it or the reason none does yet.

### What correct means

What readers are told is stable lies on one chain, is not changed behind their
back and is never a leftover of an abandoned fork.  Nothing is lost or deleted
twice.  Cleanup ends.  The head can always move.  One key counts once, quorums
overlap, bonds add up and are not paid early, attestors can leave.

## AttestationChain

One supported chain as the pallet stores it.  The attestor side is not needed
here: an attestation reaches `commit_attestation` with its quorum established
(`AttestorRegistry!HasQuorum`).

**Data.**  A digest hashes block number, root and previous digest, so it is
modelled as the list of `<<height, root>>` it was folded over; two digests are
equal exactly when their lists are, which is what collision resistance gives.
Two roots at one height are two source forks.  A stored attestation keeps its
height and the number of roots of its proof; the roots are in its digest.  Chain
keys are never reused, so one chain is enough and a removed one stays removed.

**State.**  The variables have the names of the storage items.  Bucket rows
`(pivot, height)` are the set of indexed heights, since the pivot follows from
the height.  `clear_prefix` cursors are Booleans: an opaque cursor says only that
rows remain.

**Actions.**

| action | code |
|---|---|
| `commit_attestation` | `validate_attestation`, `validate_attestation_continuity`, the three ways a commit goes on (first, catch-up, queued), checkpoint creation, queue overflow, removal past the retention |
| `revert_to` | checks of the call, `do_revert_to`, bucket purge, pruning state |
| `forward_patch_checkpoints` | with and without `wipe_suffix` |
| `do_import_checkpoints` | skipping what is stored or not below the last checkpoint |
| `remove_chain` | the listener `on_supported_chain_removed`, with and without checkpoints |
| `set_*`, `apply_interval_updates` | settings, immediate or pending until an epoch or a forced update |
| `on_initialize` | one whole hook: a pruning pass, then one batch of each clearing |

Failed calls change nothing and are guards.  One exception is kept as the code has
it: a checkpoint attempt that finds no target is logged and the commit stands.
Inside a call `clear_prefix` deletes all that the same block wrote and counts
what was deleted in it, so which rows go is left open (`ClearPrefix`); at the start
of a block a batch is exact (`ClearBatchOf`).

**Runs.**

| run | question | result |
|---|---|---|
| `chain_forks` | commits on two source forks, reversions and cleanup | `OneChain`, `AttestationsAccounted`, `QueueContiguous`, `QueueWithinBound`, `CatchUpCovered`, `StableCheckpointsPersist` hold |
| `chain_operator` | imports, patches, reversions, genesis moves and settings in any order | `CheckpointIndex`, `LadderTop`, `NoStaleAnchor`, `HeadCanAdvance`, `StaleStaysHidden` hold |
| `chain_drain` | does cleanup end | `CleanupDrains`, `StaleCheckpointsPruned`, `RemovedChainCleared` hold under `FairSpec` |
| `chain_stale`, `chain_steady` | two statements of comments | violated, see below |

**Bounds.**  A bucket holds 2 heights (1000 in the code) and a batch 1 row, so
up to 7 heights make several buckets, pruning passes that stop inside a bucket,
and passes spread over blocks.  Retention 1 makes commits delete attestations.
`PrunePivots` is twice the batch, as in the code.  With width 1 and
`DefaultMaxCatchup` 3 a proof can span two widths, which is what the catch-up
branch needs; `chain_operator` adds widths and intervals of 2 and a queue limit of 3
that reaches the overflow branch.  `chain_forks` swaps the two roots by
symmetry: they are compared for equality only.

**Deadlock** is not checked: heights are bounded, so an instance stops.

**Fairness.**  `WF(on_initialize)` and nothing else: blocks are produced, but no
one has to submit a call.

## AttestorRegistry

The attestors of a set of chains: who is registered with which bond, who sits in
the committee, which BLS key counts for whom.

**Data.**  Keys are model values; the proof of possession is taken to be checked,
so a controller activates with a key it holds.  Storage hashes order chains and
controllers, here the order of numbers does: cleanup walks them with a cursor.
Elections admit every waiting attestor the policy allows; the randomness only
orders them and the order is never read back.

**State.**  Storage items under their names, `Ledger` (total, active, unlocking
chunks), the free `balance` of a stash, and the staking `era`.  The lock on the
balance is derived from the ledger, since both are always written together.

**Actions.**  `register_attestor` (clearing a retired entry of the same stash,
bond, funding of the controller), `start_attesting` (first key, same key, rotated
key), `chill` (at once when waiting, scheduled when active), `kick_active_attestor`,
`unregister_attestor`, `withdraw_unbonded`, `on_new_epoch_randomness`,
`force_election`, the settings, `transfer` and `new_era` as the environment,
`on_supported_chain_removed` and `on_init_cleanup_removed_chains` with their
phases, cursor and budget.

**Runs.**

| run | question | result |
|---|---|---|
| `registry_stakes` | two stashes and two keys through activation, rotation, retirement and return, at changing bonds, zero included, with an unlocking queue that fills up | `OneKeyOneAttestor`, `RetiredIndexExact`, `CommitteeExact`, `LedgerAccounts`, `UnbondingNeverBlocked`, `ClosedStashIsDone`, `KeyKeptThroughUnbonding`, `BondHeldUntilMature` hold |
| `registry_quorum` | committees of up to four under changing limits and policies | `CommitteeCanCommit`, `QuorumsOverlap`, `RosterWithinLimit` hold |
| `registry_removal` | two chains removed in either order, budget 1; one stash that registers on both, funds its controllers and moves its balance | `RemovedChainQuiet`, `StakeBacked`, `RemovalDrains`, `LeavingEnds` hold under `FairSpec` |

**Bounds.**  In `registry_stakes` the bonding duration is 2, as in the runtime, and the
queue holds `MaxUnlockingChunks` 2 (5 in the runtime): no more chunks than the
duration can be immature at once.  By era 2 a queue holds a matured and an immature
chunk, chunks of one era merge, and both a withdrawal and a retirement that meets a
full queue release the first chunk and keep the second; an endowment of 3 pays for the
third bond this takes.  The balance of a stash stays fixed there; transfers and the
funding of controllers are in `registry_removal`, where they meet the bonds of two
chains in one ledger.  Two controllers and two keys suffice for a conflict over a key.
Four controllers are the first committee with different quorums (three of four; up to
three members the quorum is the whole committee); larger ones are covered by the
proof of `QuorumsOverlap`.  That run reaches the end of an unbonding
period of one era, so that a member may hold a key another one released.  Stashes and keys are symmetric where the run has no
liveness property; controllers and chains are not, being ordered.

**Bonds of zero.**  `set_min_bond_requirement` has no floor, so `registry_stakes` lets
the requirement drop to zero and rise again.  A stash whose attestors all bonded zero
has an empty ledger, which `withdraw_unbonded` closes: until the stash registers
once more, its attestor can be neither unregistered nor kicked out of the registry
(`remove_attestor_and_emit_event` finds no ledger) and a key it retired is not
purged.  `ClosedStashIsDone` therefore speaks of bonds that are positive and not
below the existential deposit.  A live attestor's bond is on record; for retired
keys `MCRegistryStakes` adds a history variable, `unbacked`, with those retired at
a smaller bond.

**Fairness.**  Weak fairness of the per-block cleanup and of the epoch trigger:
both are hooks of block production.

## AttestorPool

The vote pool inside one attestor process.  Production, p2p and the event handler
are senders, the validation task is the one receiver; they run on different tasks
and meet at a mutex, so a call is an action and every order of calls is possible.

**Data.**  A vote is (height, digest, attestor); its signature was checked before.
A fork is the set of its signers.  `validation_generation` is only ever compared
with the one permit that is out, so it is a flag of that permit.  The index
`by_height_size` is kept beside the forks, as in the code, since its agreement with
them is a property.

**Actions.**  For senders `send` (a vote counted, or a repetition; refused votes
change nothing), finality, interval, election, catch-up, threshold, unlock
(`note_majority_not_reached`), reversion, and the drop of the last sender.  For the
receiver one turn of the loop of `recv` (hand out the best quorum, or park), `wake`,
`cancel_recv` (the `select!` of the validation task drops a parked `recv`), and the
five ways to return a permit: `mark_valid`, `mark_invalid`, `mark_skipped`, `defer`,
`mark_for_later`; then `take_next_validated`.  Any decision may follow any permit:
which one the validation task takes is the next module.

**Runs.**

| run | question | result |
|---|---|---|
| `pool_votes` | three attestors, two committees, two thresholds and two digests while heights finalize, lock, unlock and revert | `OneVotePerHeight`, `IndexExact`, `NoMissedWake`, `DeliveredQuorumIsCurrent`, `DeferKeepsNewVotes`, `ReadyQuorumSeen` hold |
| `pool_reversion` | a comment on the admissible window | violated, see below |

**Bounds.**  Three attestors in committees of two and three under thresholds 1 and
2 make ties, a member that leaves and returns, and a count restored by other votes.
Heights 0 and 1 let finality, the lock and a reversion open and close a height;
that a quorum at a higher height overtakes a lower one is covered by the proofs,
which hold for every set of heights.  No symmetry is used, since the run has a
liveness property.  Deadlock is not checked: a closed pool stops.

**Fairness.**  `WF(recv)` and `WF(wake)`: the runtime polls a task that is ready.  No
sender has to call anything, and nothing forces the validation task to decide.

## AttestationStream

The stream of local attestations, as the production task drives it.  It pulls block
roots in order and source tips, caches the roots after the last attestation, and
yields attestations from the highest height the catch-up bound allows downwards.
Between two polls production reports finality, settings and reversions.

**Data.**  A root is its height.  Digests and signatures follow from the cached
heights and the anchor `prev`, so a right proof is the statement that the cache is
the run of blocks after `prev`.

**State and actions.**  Fields of `StreamAttestation` under their names, `lo` and
`hi` for `computed`, and what the two source streams yield next.  `poll_next` is two
actions: `emit`, which returns an attestation, and `poll_sources`, one round over the
source streams, either of which may be pending, followed by the next window once it
is complete.  Between rounds the future can be dropped and a report can come first.
The reports are `note_attestation_finalization` and three rebuilds.  Roots start at
boot where `start_height` puts them unless an operator overrides it; an override is
not modelled.  `sent` is a history of what was yielded since the last report.

**Runs.**

| run | question | result |
|---|---|---|
| `stream_steady` | finality ahead of, inside and behind the cache, settings and one reversion between polls | `AssertsHold`, `ProofIsAnchored`, `EachHeightOnce`, `DueEmitted` hold |
| `stream_backpressure` | a comment on interrupted polls | violated, see below |

**Bounds.**  Seven heights with catch-up bounds from 1 to 4 and intervals 1 and 2
fill the cache, move the window twice and align a bound of 3 down to 2 or up from 1.
One rebuild suffices for a rebuilt stream: a second starts from the same state.

**Fairness.**  `WF(emit)` and `WF(poll_sources)`: an eligible attestor polls the
stream in its main loop whenever it is ready.  Nothing forces the source chain to
grow or Creditcoin to finalize.

## Proofs

### AttestationChainProofs

`AttestationChainProofs` proves for every value of the constants (any heights,
bucket size, batch sizes, retention, intervals, batches of an operator):

| theorem | statement |
|---|---|
| `TypeCorrect` | `Spec => []TypeOK` |
| `BucketsMirrorCheckpoints` | `Spec => []CheckpointIndex` |
| `LastCheckpointOnTop` | `Spec => []LadderTop` |
| `StableReadsAreCurrent` | `Spec => []NoStaleAnchor` |

`NoStaleAnchor`, what `checkpoint_if_stable` promises, is not inductive: that a
leftover is hidden depends on the pruning pass starting above the new head
(`LadderTop`), and that the pass deletes it depends on its bucket row existing
(`CheckpointIndex`).  The inductive invariant is
`LadderInv == TypeOK /\ CheckpointIndex /\ LadderTop`, from which `NoStaleAnchor`
follows by the arithmetic of buckets.  There is one lemma per action
(`CommitStep`, `RevertStep`, `PatchStep`, `ImportStep`, `RemoveStep`,
`InitializeStep`, `SettingsStep`).  Commits rest on lemmas on plans
(`CatchUpPlan`, `QueuePlan`, `CondensedPlan`): what a plan adds lies above the last
checkpoint and its highest entry becomes the new one.  Reversion and pruning rest
on lemmas on floors (`FloorGap`, `FloorMonotone`, `PurgeFacts`, `PruneFacts`): two
different pivots are a bucket apart, so purging the bucket of the target and
starting one bucket later misses nothing.

Assumptions on the constants are the named `ASSUME`s of the component: settings
are positive, as the setters and `integrity_test` enforce; an operator batch is a
map of block numbers with a highest one, as the bounded batch of the call is.

### AttestorPoolProofs

For any set of attestors, heights and digests, any thresholds, windows and finite
committees:

| theorem | statement |
|---|---|
| `VotesCountOnce` | `Spec => []OneVotePerHeight` |
| `IndexIsExact` | `Spec => []IndexExact` |
| `ReceiverIsWoken` | `Spec => []NoMissedWake` |
| `DeliveryIsCurrent` | `Spec => DeliveredQuorumIsCurrent` |
| `DeferIsSafe` | `Spec => DeferKeepsNewVotes` |

The inductive invariant `PoolInv` adds four facts to these.  `DecidedClosed`: no fork
is left at a height that is finalized or locked.  `MembersOnly`: every signer is in
the committee in force.  `TombstonesOut`: no fork is tombstoned.  With `IndexExact`
they give `DeliveredQuorumIsCurrent`, because `best` looks only at rows.  `PermitInv`
carries `defer`: while the permit's generation is current its fork has at least the
permit's votes, or its height has been finalized, so equal counts mean equal sets.
That step uses that committees are finite.

### AttestationStreamProofs

For every interval, catch-up bound and source, and any number of rebuilds:

| theorem | statement |
|---|---|
| `AssertionsNeverFire` | `Spec => []AssertsHold` |
| `ProofsAreAnchored` | `Spec => []ProofIsAnchored` |
| `HeightsEmittedOnce` | `Spec => []EachHeightOnce` |

`StreamInv` adds `RangeInv` (the window lies in the cached run, and the next root
continues the run) and `SentInv` (what was yielded lies below the window or above the
cursor).  The delicate conjunct bounds the window by the catch-up: finality reported
again at the anchor moves the start of the window back and its end may then lie one
past the bound.  That happens only with a full cache and no fetch under way
(`fetching => hi <= prev + max_catchup`), so no fetch completes a window that ends
before it starts.

### AttestorRegistryProofs

For any chains, stashes, keys, limits and policies and any finite set of controllers:

| theorem | statement |
|---|---|
| `QuorumsAlwaysOverlap` | `Spec => []QuorumsOverlap` |

The invariant `RosterInv` says that rows and committees are of known chains and
controllers; only elections and registrations could break it.  It makes a committee
finite, so it has at most as many keys as its n members.  Each of two quorums has at
least `calculate_quorum(n)` of these keys, and `3 * (2 * calculate_quorum(n) - n) > n`
(`QuorumArithmetic`, where the rounding of two thirds is decided).  That keys are
different is not needed here: `validate_attestation` counts keys, not signers.

### Model-checked only

The type invariants of the three modules above are part of what is proved and are not
run again.  Only model-checked: liveness (TLAPS does not handle fairness here), the properties
that relate digests through their history (`OneChain`, `QueueContiguous`,
`AttestationsAccounted`), and the registry apart from `QuorumsOverlap`.  `ReadyQuorumSeen`,
a liveness property, is checked with votes at a single height.

## Where code and comments disagree

* `chain_stale`: `on_supported_chain_removed` drops the pruning state even when
  the checkpoints are kept, so checkpoints a reversion had still to delete become
  readable through `checkpoint_if_stable`, which `impls.rs:919` says returns a
  digest "only when the containing bucket is known to be free of stale
  post-revert entries".  The chain is no longer supported then; `NoStaleAnchor`,
  stated for supported chains, holds.
* `chain_steady`: `lib.rs:1084` says a chain queues at most
  `2 * checkpoint_interval + 1` attestations at a fixed setting.  When a catch-up
  empties the queue with the head past a boundary and the width is then narrowed,
  the next boundary lies below everything queued afterwards, no checkpoint is
  made and the queue grows to its hard limit, where it is condensed.
  `MCChainSteady` adds the history variable that says "at a fixed setting".
* `pool_reversion`: `height_admissible` (`attestor/pool/src/lib.rs:1034`) says that its
  window "keeps the next interval-aligned target admissible".  The sentence explains the
  upper bound, and that bound does what it says; the lower bound of the same test
  contains `start_height`, fixed at boot to one above the attestation that was last
  then.  After a reversion below it the pool refuses votes for the heights in
  between until the process restarts.

* `stream_backpressure`: the stream says that, polled again, "it will either return
  the next attestation or resume its fetching process"
  (`common/streams/attestation/src/lib.rs:69`).  When the last attestation is not a
  multiple of the interval (a genesis block, or after the interval changed) the first
  window can end less than an interval past it and yields nothing.  If the roots ran
  ahead of the tip the cache is full by then and line 425 waits for a finalization,
  although nothing was yielded that could finalize.  `DueEmitted` is therefore stated
  for a last attestation on the schedule.

## Not modelled

Signatures and proofs of possession (taken as checked), weights and fees, events,
storage migrations (each runs once, nothing interleaves), encodings, third-party
code (gossipsub, Frontier, Substrate consensus and transaction pool), the
read-only precompiles and APIs, the indexer and the command line tools.
`AttestationChain` covers one chain: the pallet keeps no state shared between the
chains except the cleanup budget, which `AttestorRegistry` models with two.

## Plan

In this order; each item names the module it becomes and what it asks.

1. **AttestorPipeline** (validation, production, proof cache), on top of
   `AttestorPool`: the validation task across its awaits; the submission task with
   preemption, timeout and late landing; the updates an event causes, in order.  A
   lock is always accounted for and released; a held vote is re-injected or
   obsolete; a submission is broadcast or preempted, never both.
2. **VoteGossip** (`tasks/p2p`): several attestors, lossy gossip, pending votes
   until the local attestation exists, the outbox until finality.  A quorum forms
   once the network behaves.
3. **EventStream** (`common/streams/cc3`), **RootStream** (`common/streams/eth`):
   gap-free ordered delivery over reconnects, as a refinement of an abstract ordered
   log, which is what `AttestationStream` takes of its sources.
4. **ArchiveStore** (`archiver`): appends, crash between the two writes, gap
   repair, reorganisation.
5. **ProofCache** (`proof-gen-api-server`): single-flight fills against pruning,
   snapshot and subscription.
6. **ContinuityProof** (`common/continuity`, `checkpoint-builder`, block-prover
   `verify.rs`): pure operators checked against reference definitions.
7. **Composition** of the registry, the chain, supported chains and randomness
   around one epoch and one removal; the abstract "ladder of stable checkpoints"
   that `AttestationChain` implements.
8. **Client and health** (`common/cc-client`, `attestor/health`): shared back-off
   and the watchdog.
9. **Proofs**: the registry's `OneKeyOneAttestor`, `RetiredIndexExact` and
   `CommitteeExact`; `StableCheckpointsPersist` from `LadderInv`; the refinements of items 3 and 7.

## Running it

    tlc -config ChainForks.cfg MCAttestationChain
    tlapm AttestationChainProofs.tla
    tlapm AttestorPoolProofs.tla
    tlapm AttestationStreamProofs.tla
    tlapm AttestorRegistryProofs.tla

Each run takes at most three minutes on two cores; the proofs take about nine.
`mutants` in `PROJECT.json` names, for each property, a plausible bug (the
`Mutant...` operators beside the definitions) that violates it.
