---------------------------- MODULE AttestationChain ----------------------------
(***************************************************************************)
(* The attestation chain that pallet-attestation keeps for one supported   *)
(* chain: committed attestations, the two attestation queues, the ladder   *)
(* of checkpoints with its bucket index, and the maintenance that runs     *)
(* beside commits (reversion, forward patch, import, removal and the       *)
(* bounded per-block cleanup of on_initialize).                            *)
(*                                                                         *)
(* Who may sign a commit is modelled in AttestorRegistry: here an          *)
(* attestation reaches Commit with its quorum already established.         *)
(***************************************************************************)
EXTENDS Integers, Sequences, FiniteSetsExt, Functions

CONSTANTS
    None,                \* absent optional value
    Heights,             \* source-chain block numbers the instance talks about
    Roots,               \* block roots: two roots at a height are two source forks
    BucketSize,          \* CHECKPOINT_BUCKET_SIZE
    ClearBatch,          \* MAX_ATTESTATIONS_/MAX_CHECKPOINTS_CLEARED_PER_BLOCK
    PrunePivots,         \* pivots one pruning step may visit (2 * ClearBatch in the code)
    Retention,           \* AttestationRetentionDuration, never written after registration
    MaxQueueLen,         \* MaxCheckpointingQueueLen
    MaxPerBlock,         \* MaxAttestationsPerBlock
    Intervals,           \* values the attestation interval is set to
    CheckpointIntervals, \* values attestations-per-checkpoint is set to
    CatchupBounds,       \* values MaxCatchup is set to
    DefaultInterval, DefaultPerCheckpoint, DefaultMaxCatchup,
    GenesisHeights,      \* values the genesis block number is set to
    Batches,             \* checkpoint batches an operator may import or patch in
    Removals             \* values of remove_checkpoints an operator may remove the chain with

ASSUME HeightsAssumption == Heights \subseteq Nat /\ GenesisHeights \subseteq Nat
ASSUME BucketAssumption == BucketSize \in Nat \ {0}
ASSUME ClearAssumption == ClearBatch \in Nat \ {0} /\ PrunePivots \in Nat \ {0}
\* DefaultAttestationRetentionDuration is 10 in the runtime and has no setter.
ASSUME RetentionAssumption == Retention \in Nat \ {0}
ASSUME QueueAssumption == MaxQueueLen \in Nat /\ MaxPerBlock \in Nat \ {0}
\* The setters and the registration refuse zero; integrity_test checks the defaults.
ASSUME ConfigAssumption ==
    /\ Intervals \subseteq Nat \ {0}
    /\ CheckpointIntervals \subseteq Nat \ {0}
    /\ CatchupBounds \subseteq Nat \ {0}
    /\ {DefaultInterval, DefaultPerCheckpoint, DefaultMaxCatchup} \subseteq Nat \ {0}
    /\ DefaultInterval <= DefaultMaxCatchup

\* A digest hashes block number, root and previous digest, so it stands for the
\* whole list of blocks it was folded over, oldest first.
Digest == Seq(Nat \X Roots)

Checkpoint == [block_number : Nat, digest : Digest]

ASSUME NoneAssumption ==
    /\ None \notin Checkpoint
    /\ None \notin Nat
    /\ None \notin [stop_height : Nat, next_pivot : Nat]

\* A batch maps block numbers to digests, as the BTreeMap of the patch does.
ASSUME BatchAssumption ==
    \A b \in Batches : /\ DOMAIN b \subseteq Nat
                       /\ b \in [DOMAIN b -> Digest]
                       /\ \E t \in DOMAIN b : \A h \in DOMAIN b : h <= t
ASSUME RemovalsAssumption == Removals \subseteq BOOLEAN

VARIABLES
    Supported,                 \* is_chain_supported; a removed key is never registered again
    Genesis,                   \* AttestationChainGenesisBlockNumber
    ChainAttestationInterval, AttestationCheckpointInterval, MaxCatchup,
    PendingAttestationInterval, PendingMaxCatchup,
    Attestations,              \* digest -> stored attestation
    LastDigest,                \* highest accepted (height, digest)
    CheckpointingQueue, AttestationRemovalQueue,
    Checkpoints,               \* height -> digest
    CheckpointBuckets,         \* heights indexed by (pivot, height)
    LastCheckpoint,
    CheckpointPruningState,
    AttestationClearingCursor, CheckpointClearingCursor, BucketClearingCursor,
    AttestationsInBlock        \* commits accepted in the current block

config == <<Genesis, ChainAttestationInterval, AttestationCheckpointInterval, MaxCatchup,
            PendingAttestationInterval, PendingMaxCatchup>>
queues == <<CheckpointingQueue, AttestationRemovalQueue>>
ladder == <<Checkpoints, CheckpointBuckets, LastCheckpoint>>
cursors == <<CheckpointClearingCursor, BucketClearingCursor>>
cleanup == <<CheckpointPruningState, AttestationClearingCursor, cursors>>
vars == <<Supported, config, Attestations, LastDigest, queues, ladder, cleanup,
          AttestationsInBlock>>

MaxOf(a, b) == IF a >= b THEN a ELSE b
MinOf(a, b) == IF a <= b THEN a ELSE b
Without(f, S) == Restrict(f, DOMAIN f \ S)
\* f overridden by g, as a sequence of storage inserts does.
Insert(f, g) == [x \in DOMAIN f \cup DOMAIN g |-> IF x \in DOMAIN g THEN g[x] ELSE f[x]]

-----------------------------------------------------------------------------
(* Reads *)

compute_block_index_for(h) == h - (h % BucketSize)

checkpoint_width == ChainAttestationInterval * AttestationCheckpointInterval

last_digest ==
    IF LastDigest # None THEN LastDigest.digest
    ELSE IF LastCheckpoint # None THEN LastCheckpoint.digest ELSE None

commit_blocked_by_cleanup == AttestationClearingCursor \/ CheckpointPruningState # None

\* Mutant: the clearing cursor is not consulted.
MutantGetIgnoresCursor(d) == IF d \notin DOMAIN Attestations THEN None ELSE Attestations[d]

\* Attestations are unreadable while a cursor drains them in hash order.
get(d) == IF AttestationClearingCursor \/ d \notin DOMAIN Attestations
          THEN None ELSE Attestations[d]

\* Mutant: the pivot being pruned counts as pruned.
MutantStableAtPivot(h) ==
    IF \/ h \notin DOMAIN Checkpoints
       \/ /\ CheckpointPruningState # None
          /\ compute_block_index_for(h) > CheckpointPruningState.next_pivot
    THEN None ELSE Checkpoints[h]

checkpoint_if_stable(h) ==
    IF \/ h \notin DOMAIN Checkpoints
       \/ /\ CheckpointPruningState # None
          /\ compute_block_index_for(h) >= CheckpointPruningState.next_pivot
    THEN None ELSE Checkpoints[h]

effective_max_catchup ==
    IF PendingMaxCatchup # None THEN PendingMaxCatchup ELSE MaxCatchup

effective_attestation_interval ==
    IF PendingAttestationInterval # None THEN PendingAttestationInterval
    ELSE ChainAttestationInterval

-----------------------------------------------------------------------------
(* Attestations.  An attestation at block h carries a proof of len roots     *)
(* (the blocks h - len .. h - 1) folded over the digest tail; its own digest *)
(* folds block h on top.  The empty tail is an absent prev_digest.           *)

Fold(tail, h, len, root) == tail \o [i \in 1..(len + 1) |-> <<h - len - 1 + i, root>>]

\* Digest of block b in the chain of blocks that digest d at height h commits to.
digest_for_block(d, h, b) == SubSeq(d, 1, Len(d) - (h - b))

\* Blocks whose digest a stored attestation yields: its proof and itself.
ProvenBlocks(att) == (att.header_number - att.len)..att.header_number

\* Height of a digest the next attestation may build on, None when unresolvable.
HeaderOf(d) ==
    IF get(d) # None THEN get(d).header_number
    ELSE IF LastCheckpoint # None /\ LastCheckpoint.digest = d
         THEN LastCheckpoint.block_number ELSE None

validate_attestation_continuity(tail, h, len) ==
    IF h = Genesis
    THEN tail = << >> /\ len = 0
    ELSE /\ tail # << >>
         /\ tail = last_digest
         /\ len <= MaxOf(MaxCatchup, ChainAttestationInterval)
         /\ HeaderOf(tail) # None
         /\ HeaderOf(tail) = h - len - 1

check_duplicate(d, h) ==
    \/ d \in DOMAIN Attestations
    \/ LastDigest # None /\ h <= LastDigest.block_number
    \/ LastCheckpoint # None /\ h <= LastCheckpoint.block_number

validate_attestation(tail, h, len, d) ==
    /\ Supported
    /\ ~commit_blocked_by_cleanup
    /\ ~check_duplicate(d, h)
    /\ LastDigest # None => h >= LastDigest.block_number + ChainAttestationInterval
    /\ validate_attestation_continuity(tail, h, len)

-----------------------------------------------------------------------------
(* Checkpointing.  A plan is what a commit leaves in the queues and the      *)
(* checkpoints it adds; the last of them becomes LastCheckpoint.             *)

\* First multiple of the width above block last.
NextBoundary(last) == (last + checkpoint_width) - ((last + checkpoint_width) % checkpoint_width)

Boundaries(last, h) == {t \in (last + 1)..h : t % checkpoint_width = 0}

\* Where the digest of block b comes from: the new attestation d at h or a queued one.
DigestOfBlock(atts, d, h, b) ==
    IF b \in ProvenBlocks(atts[d])
    THEN digest_for_block(d, h, b)
    ELSE LET q == CHOOSE q \in Range(CheckpointingQueue) \cap DOMAIN atts :
                        b \in ProvenBlocks(atts[q])
         IN  digest_for_block(q, atts[q].header_number, b)

\* Mutant: the proofs of queued attestations are not searched.
MutantOwnProofOnly(atts, d, b) == b \in ProvenBlocks(atts[d])

Covered(atts, d, b) ==
    \E q \in {d} \cup (Range(CheckpointingQueue) \cap DOMAIN atts) : b \in ProvenBlocks(atts[q])

\* The continuity proof spans two widths and reaches a boundary.
CatchingUp(h, len) ==
    /\ len > 0 /\ len >= 2 * checkpoint_width
    /\ NextBoundary(LastCheckpoint.block_number) <= h

\* A boundary with no known digest fails the whole commit.
BoundariesCovered(atts, d, h) ==
    \A t \in Boundaries(LastCheckpoint.block_number, h) : Covered(atts, d, t)

\* Mutant: queued attestations are dropped without joining the removal queue.
MutantQueueForgotten(atts, d, h) ==
    [queue   |-> << >>,
     removal |-> Append(AttestationRemovalQueue, d),
     added   |-> [t \in Boundaries(LastCheckpoint.block_number, h) |-> DigestOfBlock(atts, d, h, t)],
     last    |-> h - (h % checkpoint_width)]

\* Mutant: the stale queue is kept beside the new checkpoints.
MutantQueueKept(atts, d, h) ==
    [queue   |-> CheckpointingQueue,
     removal |-> Append(AttestationRemovalQueue, d),
     added   |-> [t \in Boundaries(LastCheckpoint.block_number, h) |-> DigestOfBlock(atts, d, h, t)],
     last    |-> h - (h % checkpoint_width)]

create_checkpoints_from_queue(atts, d, h) ==
    [queue   |-> << >>,
     removal |-> Append(AttestationRemovalQueue \o CheckpointingQueue, d),
     added   |-> [t \in Boundaries(LastCheckpoint.block_number, h) |-> DigestOfBlock(atts, d, h, t)],
     last    |-> h - (h % checkpoint_width)]

\* Mutant: an attestation exactly at the target is passed over.
MutantFirstPast(queue, atts, target, i) ==
    /\ i \in DOMAIN queue
    /\ \A j \in 1..i : queue[j] \in DOMAIN atts
    /\ atts[queue[i]].header_number > target
    /\ \A j \in 1..(i - 1) : atts[queue[j]].header_number <= target

\* The first queued attestation at or past the target is position i of the queue.
FirstReaching(queue, atts, target, i) ==
    /\ i \in DOMAIN queue
    /\ \A j \in 1..i : queue[j] \in DOMAIN atts
    /\ atts[queue[i]].header_number >= target
    /\ \A j \in 1..(i - 1) : atts[queue[j]].header_number < target

\* A drained queue, a missing attestation or a target outside the proof leaves
\* the queue and the ladder as they were; the commit itself stands.
try_make_checkpoint(queue, atts, h) ==
    LET last   == LastCheckpoint.block_number
        target == NextBoundary(last)
        Keep   == [queue |-> queue, removal |-> AttestationRemovalQueue,
                   added |-> << >>, last |-> last]
    IN  IF \/ h - last < 2 * checkpoint_width + 1
           \/ ~ \E i \in DOMAIN queue : /\ FirstReaching(queue, atts, target, i)
                                       /\ target \in ProvenBlocks(atts[queue[i]])
        THEN Keep
        ELSE LET i  == CHOOSE i \in DOMAIN queue : FirstReaching(queue, atts, target, i)
                 hd == atts[queue[i]].header_number
                 popped == IF hd = target THEN i ELSE i - 1
             IN  [queue   |-> SubSeq(queue, popped + 1, Len(queue)),
                  removal |-> AttestationRemovalQueue \o SubSeq(queue, 1, popped),
                  added   |-> [t \in {target} |-> digest_for_block(queue[i], hd, target)],
                  last    |-> target]

\* A queue past its limit is condensed into an off-grid checkpoint at h.
checkpoint_at_attestation(plan, d, h) ==
    [queue   |-> << >>,
     removal |-> plan.removal \o plan.queue,
     added   |-> Insert(plan.added, [t \in {h} |-> d]),
     last    |-> h]

\* remove_attestations: the removal queue is cut back to the retention length.
Expired(removal) == SubSeq(removal, 1, Len(removal) - Retention)
Retained(removal) == IF Len(removal) > Retention
                     THEN SubSeq(removal, Len(removal) - Retention + 1, Len(removal))
                     ELSE removal

-----------------------------------------------------------------------------
(* Commits *)

\* on_register_chain: a fresh key, its interval within the default MaxCatchup.
Init ==
    /\ Supported = TRUE
    /\ Genesis \in GenesisHeights
    /\ ChainAttestationInterval \in Intervals
    /\ ChainAttestationInterval <= DefaultMaxCatchup
    /\ AttestationCheckpointInterval \in CheckpointIntervals
    /\ MaxCatchup = DefaultMaxCatchup
    /\ PendingAttestationInterval = None
    /\ PendingMaxCatchup = None
    /\ Attestations = [d \in {} |-> None]
    /\ LastDigest = None
    /\ CheckpointingQueue = << >>
    /\ AttestationRemovalQueue = << >>
    /\ Checkpoints = [h \in {} |-> << >>]
    /\ CheckpointBuckets = {}
    /\ LastCheckpoint = None
    /\ CheckpointPruningState = None
    /\ AttestationClearingCursor = FALSE
    /\ CheckpointClearingCursor = FALSE
    /\ BucketClearingCursor = FALSE
    /\ AttestationsInBlock = 0

\* Mutant: the bucket row is not written.
MutantNoBucketRow(added) ==
    /\ Checkpoints' = Insert(Checkpoints, added)
    /\ UNCHANGED CheckpointBuckets

\* Checkpoints and their bucket rows are always written together.
WriteCheckpoints(added) ==
    /\ Checkpoints' = Insert(Checkpoints, added)
    /\ CheckpointBuckets' = CheckpointBuckets \cup DOMAIN added

\* The very first attestation is its own checkpoint.
CommitFirst(atts, d, h) ==
    /\ DOMAIN Checkpoints = {}
    /\ h = Genesis
    /\ WriteCheckpoints([t \in {h} |-> d])
    /\ LastCheckpoint' = [block_number |-> h, digest |-> d]
    /\ AttestationRemovalQueue' = Append(AttestationRemovalQueue, d)
    /\ Attestations' = atts
    /\ UNCHANGED CheckpointingQueue

ApplyPlan(atts, plan) ==
    /\ CheckpointingQueue' = plan.queue
    /\ AttestationRemovalQueue' = Retained(plan.removal)
    /\ Attestations' = Without(atts, Range(Expired(plan.removal)))
    /\ WriteCheckpoints(plan.added)
    /\ LastCheckpoint' = IF plan.last \in DOMAIN plan.added
                         THEN [block_number |-> plan.last, digest |-> plan.added[plan.last]]
                         ELSE LastCheckpoint

CommitCatchUp(atts, d, h, len) ==
    /\ DOMAIN Checkpoints # {}
    /\ CatchingUp(h, len)
    /\ BoundariesCovered(atts, d, h)
    /\ ApplyPlan(atts, create_checkpoints_from_queue(atts, d, h))

CommitQueued(atts, d, h, len) ==
    LET plan == try_make_checkpoint(Append(CheckpointingQueue, d), atts, h)
    IN  /\ DOMAIN Checkpoints # {}
        /\ ~CatchingUp(h, len)
        /\ ApplyPlan(atts, IF Len(plan.queue) > MaxQueueLen
                           THEN checkpoint_at_attestation(plan, d, h) ELSE plan)

do_commit_attestation(tail, h, len, root) ==
    LET d    == Fold(tail, h, len, root)
        atts == Insert(Attestations, [x \in {d} |-> [header_number |-> h, len |-> len]])
    IN  /\ validate_attestation(tail, h, len, d)
        /\ AttestationsInBlock < MaxPerBlock
        /\ AttestationsInBlock' = AttestationsInBlock + 1
        /\ LastDigest' = IF LastDigest = None \/ h > LastDigest.block_number
                         THEN [block_number |-> h, digest |-> d] ELSE LastDigest
        /\ \/ CommitFirst(atts, d, h)
           \/ CommitCatchUp(atts, d, h, len)
           \/ CommitQueued(atts, d, h, len)
        /\ UNCHANGED <<Supported, config, cleanup>>

\* Digests a submitted attestation may name as the one it builds on.
KnownDigests ==
    {<< >>} \cup DOMAIN Attestations \cup {Checkpoints[h] : h \in DOMAIN Checkpoints}
            \cup (IF last_digest = None THEN {} ELSE {last_digest})

commit_attestation ==
    \E tail \in KnownDigests, h \in Heights, root \in Roots :
        \E len \in 0..h : do_commit_attestation(tail, h, len, root)

-----------------------------------------------------------------------------
(* Operator calls *)

\* Mutant: the leftover cursor is discarded.
MutantCursorDiscarded(rows, cleared, cursor) == cleared \subseteq rows /\ ~cursor

\* clear_prefix inside a call: rows the same block wrote all go, rows it deleted
\* still use up the limit, so which rows go is open; a remainder leaves a cursor.
ClearPrefix(rows, cleared, cursor) == cleared \subseteq rows /\ (cleared # rows => cursor)

ClearAttestations ==
    /\ \E cleared \in SUBSET DOMAIN Attestations, cursor \in BOOLEAN :
           /\ ClearPrefix(DOMAIN Attestations, cleared, cursor)
           /\ Attestations' = Without(Attestations, cleared)
           /\ AttestationClearingCursor' = cursor
    /\ CheckpointingQueue' = << >>
    /\ AttestationRemovalQueue' = << >>

\* Mutant: the bucket of height is left as it is.
MutantPurgeNothing(height) == {}

\* Mutant: the whole bucket of height goes.
MutantPurgeBucket(height) ==
    {h \in CheckpointBuckets :
        compute_block_index_for(h) = compute_block_index_for(height) /\ h # height}

\* Checkpoints above height in the bucket of height.
purge_bucket_above(height) ==
    {h \in CheckpointBuckets :
        compute_block_index_for(h) = compute_block_index_for(height) /\ h > height}

\* Mutant: the stop height is read after LastCheckpoint was overwritten.
MutantStopAtTarget(height) ==
    /\ height \in DOMAIN Checkpoints
    /\ LastCheckpoint # None
    /\ ClearAttestations
    /\ Checkpoints' = Without(Checkpoints, purge_bucket_above(height))
    /\ CheckpointBuckets' = CheckpointBuckets \ purge_bucket_above(height)
    /\ CheckpointPruningState' =
           [stop_height |-> height, next_pivot |-> compute_block_index_for(height) + BucketSize]
    /\ LastCheckpoint' = [block_number |-> height, digest |-> Checkpoints[height]]
    /\ LastDigest' = [block_number |-> height, digest |-> Checkpoints[height]]

do_revert_to(height) ==
    /\ height \in DOMAIN Checkpoints
    /\ LastCheckpoint # None
    /\ ClearAttestations
    /\ Checkpoints' = Without(Checkpoints, purge_bucket_above(height))
    /\ CheckpointBuckets' = CheckpointBuckets \ purge_bucket_above(height)
    /\ CheckpointPruningState' =
           [stop_height |-> LastCheckpoint.block_number,
            next_pivot  |-> compute_block_index_for(height) + BucketSize]
    /\ LastCheckpoint' = [block_number |-> height, digest |-> Checkpoints[height]]
    /\ LastDigest' = [block_number |-> height, digest |-> Checkpoints[height]]

revert_to(height) ==
    /\ Supported
    /\ CheckpointPruningState = None
    /\ ~AttestationClearingCursor
    /\ do_revert_to(height)
    /\ UNCHANGED <<Supported, config, cursors, AttestationsInBlock>>

do_forward_patch_checkpoints(wipe_suffix, batch) ==
    LET tip        == Max(DOMAIN batch)
        wiped      == IF wipe_suffix THEN purge_bucket_above(tip) ELSE {}
        next_pivot == compute_block_index_for(tip) + BucketSize
    IN  /\ Checkpoints' = Insert(Without(Checkpoints, wiped), batch)
        /\ CheckpointBuckets' = (CheckpointBuckets \ wiped) \cup DOMAIN batch
        /\ CheckpointPruningState' =
               IF /\ wipe_suffix
                  /\ LastCheckpoint # None
                  /\ LastCheckpoint.block_number >= next_pivot
               THEN [stop_height |-> LastCheckpoint.block_number, next_pivot |-> next_pivot]
               ELSE CheckpointPruningState
        /\ LastCheckpoint' =
               IF ~wipe_suffix /\ LastCheckpoint # None /\ LastCheckpoint.block_number > tip
               THEN LastCheckpoint ELSE [block_number |-> tip, digest |-> batch[tip]]

forward_patch_checkpoints(wipe_suffix, batch) ==
    /\ Supported
    /\ CheckpointPruningState = None
    /\ ~CheckpointClearingCursor /\ ~BucketClearingCursor /\ ~AttestationClearingCursor
    /\ ClearAttestations
    /\ LastDigest' = None
    /\ do_forward_patch_checkpoints(wipe_suffix, batch)
    /\ UNCHANGED <<Supported, config, cursors, AttestationsInBlock>>

\* Checkpoints at or past the last one, and those already stored, are skipped.
Importable(batch) ==
    [h \in {h \in DOMAIN batch \ DOMAIN Checkpoints :
                LastCheckpoint # None => h < LastCheckpoint.block_number} |-> batch[h]]

do_import_checkpoints(batch) ==
    LET imported == Importable(batch)
    IN  /\ Supported
        /\ ~(LastDigest # None /\ LastCheckpoint = None /\ DOMAIN imported # {})
        /\ WriteCheckpoints(imported)
        /\ LastCheckpoint' =
               IF LastCheckpoint = None /\ DOMAIN imported # {}
               THEN [block_number |-> Max(DOMAIN imported), digest |-> imported[Max(DOMAIN imported)]]
               ELSE LastCheckpoint
        /\ UNCHANGED <<Supported, config, Attestations, LastDigest, queues, cleanup,
                       AttestationsInBlock>>

\* on_supported_chain_removed.  An ongoing reversion is dropped.
remove_chain(remove_checkpoints) ==
    /\ Supported
    /\ Supported' = FALSE
    /\ ClearAttestations
    /\ AttestationsInBlock' = 0
    /\ LastCheckpoint' = None
    /\ LastDigest' = None
    /\ ChainAttestationInterval' = DefaultInterval
    /\ AttestationCheckpointInterval' = DefaultPerCheckpoint
    /\ MaxCatchup' = DefaultMaxCatchup
    /\ PendingAttestationInterval' = None
    /\ PendingMaxCatchup' = None
    /\ IF remove_checkpoints
       THEN /\ \E cleared \in SUBSET DOMAIN Checkpoints, cursor \in BOOLEAN :
                   /\ ClearPrefix(DOMAIN Checkpoints, cleared, cursor)
                   /\ Checkpoints' = Without(Checkpoints, cleared)
                   /\ CheckpointClearingCursor' = cursor
            /\ \E cleared \in SUBSET CheckpointBuckets, cursor \in BOOLEAN :
                   /\ ClearPrefix(CheckpointBuckets, cleared, cursor)
                   /\ CheckpointBuckets' = CheckpointBuckets \ cleared
                   /\ BucketClearingCursor' = cursor
       ELSE UNCHANGED <<Checkpoints, CheckpointBuckets, cursors>>
    /\ CheckpointPruningState' = None
    /\ UNCHANGED Genesis

-----------------------------------------------------------------------------
(* Per-chain settings *)

set_chain_attestation_interval(i) ==
    /\ Supported
    /\ i <= effective_max_catchup
    /\ PendingAttestationInterval' = i
    /\ UNCHANGED <<Supported, Genesis, ChainAttestationInterval, AttestationCheckpointInterval,
                   MaxCatchup, PendingMaxCatchup, Attestations, LastDigest, queues, ladder,
                   cleanup, AttestationsInBlock>>

\* Mutant: the bound is not compared with the attestation interval.
MutantCatchupUnchecked(m) ==
    /\ Supported
    /\ PendingMaxCatchup' = m
    /\ UNCHANGED <<Supported, Genesis, ChainAttestationInterval, AttestationCheckpointInterval,
                   MaxCatchup, PendingAttestationInterval, Attestations, LastDigest, queues,
                   ladder, cleanup, AttestationsInBlock>>

set_max_catchup(m) ==
    /\ Supported
    /\ m >= effective_attestation_interval
    /\ PendingMaxCatchup' = m
    /\ UNCHANGED <<Supported, Genesis, ChainAttestationInterval, AttestationCheckpointInterval,
                   MaxCatchup, PendingAttestationInterval, Attestations, LastDigest, queues,
                   ladder, cleanup, AttestationsInBlock>>

\* Takes effect at once, unlike the two settings above.
set_attestations_per_checkpoint(c) ==
    /\ Supported
    /\ AttestationCheckpointInterval' = c
    /\ UNCHANGED <<Supported, Genesis, ChainAttestationInterval, MaxCatchup,
                   PendingAttestationInterval, PendingMaxCatchup, Attestations, LastDigest,
                   queues, ladder, cleanup, AttestationsInBlock>>

\* Every epoch, or when an operator forces it.
apply_interval_updates ==
    /\ ChainAttestationInterval' = effective_attestation_interval
    /\ MaxCatchup' = effective_max_catchup
    /\ PendingAttestationInterval' = None
    /\ PendingMaxCatchup' = None
    /\ UNCHANGED <<Supported, Genesis, AttestationCheckpointInterval, Attestations, LastDigest,
                   queues, ladder, cleanup, AttestationsInBlock>>

set_attestation_chain_genesis_block_number(g) ==
    /\ Supported
    /\ DOMAIN Attestations = {}
    /\ DOMAIN Checkpoints = {}
    /\ Genesis' = g
    /\ UNCHANGED <<Supported, ChainAttestationInterval, AttestationCheckpointInterval, MaxCatchup,
                   PendingAttestationInterval, PendingMaxCatchup, Attestations, LastDigest,
                   queues, ladder, cleanup, AttestationsInBlock>>

-----------------------------------------------------------------------------
(* on_initialize: one bounded batch of each pending cleanup *)

\* Bucket rows of the n pivots from next_pivot on.
PivotRows(n) ==
    {h \in CheckpointBuckets :
        /\ compute_block_index_for(h) >= CheckpointPruningState.next_pivot
        /\ compute_block_index_for(h) < CheckpointPruningState.next_pivot + n * BucketSize}

\* The pass empties pivot n: budget is left for it, and all of its rows fit.
PivotCompletes(n) ==
    /\ CheckpointPruningState.next_pivot + n * BucketSize <= CheckpointPruningState.stop_height
    /\ Cardinality(PivotRows(n)) < ClearBatch
    /\ Cardinality(PivotRows(n + 1)) <= ClearBatch

\* pruned rows go and the pass ends on pivot n, which may lose a part of its rows.
prune_checkpoints_impl(n, pruned) ==
    LET next == CheckpointPruningState.next_pivot + n * BucketSize
        budget == n < PrunePivots /\ Cardinality(PivotRows(n)) < ClearBatch
    IN  /\ \A j \in 0..(n - 1) : PivotCompletes(j)
        /\ n = PrunePivots \/ ~PivotCompletes(n)
        /\ PivotRows(n) \subseteq pruned
        /\ IF budget /\ next > CheckpointPruningState.stop_height
           THEN /\ pruned = PivotRows(n)
                /\ CheckpointPruningState' = None
           ELSE /\ pruned \subseteq PivotRows(n + 1)
                /\ Cardinality(pruned) = IF budget THEN ClearBatch ELSE Cardinality(PivotRows(n))
                /\ CheckpointPruningState' = [CheckpointPruningState EXCEPT !.next_pivot = next]

\* Mutant: progress within a pass is not saved.
MutantProgressLost(pruned) ==
    IF CheckpointPruningState = None
    THEN pruned = {} /\ UNCHANGED CheckpointPruningState
    ELSE pruned = PivotRows(1) /\ UNCHANGED CheckpointPruningState

on_init_prune_checkpoints(pruned) ==
    IF CheckpointPruningState = None
    THEN pruned = {} /\ UNCHANGED CheckpointPruningState
    ELSE \E n \in 0..PrunePivots : prune_checkpoints_impl(n, pruned)

\* clear_prefix at the start of a block takes a full batch.
ClearBatchOf(rows, cursor, cleared) ==
    IF cursor
    THEN cleared \in SUBSET rows /\ Cardinality(cleared) = MinOf(ClearBatch, Cardinality(rows))
    ELSE cleared = {}

on_initialize ==
    \E pruned \in SUBSET CheckpointBuckets :
        /\ on_init_prune_checkpoints(pruned)
        /\ \E cleared \in SUBSET (DOMAIN Checkpoints \ pruned) :
               /\ ClearBatchOf(DOMAIN Checkpoints \ pruned, CheckpointClearingCursor, cleared)
               /\ Checkpoints' = Without(Checkpoints, pruned \cup cleared)
               /\ CheckpointClearingCursor' = (CheckpointClearingCursor /\ DOMAIN Checkpoints' # {})
        /\ \E cleared \in SUBSET (CheckpointBuckets \ pruned) :
               /\ ClearBatchOf(CheckpointBuckets \ pruned, BucketClearingCursor, cleared)
               /\ CheckpointBuckets' = CheckpointBuckets \ (pruned \cup cleared)
               /\ BucketClearingCursor' = (BucketClearingCursor /\ CheckpointBuckets' # {})
        /\ \E cleared \in SUBSET DOMAIN Attestations :
               /\ ClearBatchOf(DOMAIN Attestations, AttestationClearingCursor, cleared)
               /\ Attestations' = Without(Attestations, cleared)
               /\ AttestationClearingCursor' =
                      (AttestationClearingCursor /\ DOMAIN Attestations' # {})
        /\ AttestationsInBlock' = 0
        /\ UNCHANGED <<Supported, config, LastDigest, queues, LastCheckpoint>>

-----------------------------------------------------------------------------
Next ==
    \/ commit_attestation
    \/ on_initialize
    \/ \E h \in DOMAIN Checkpoints : revert_to(h)
    \/ \E wipe_suffix \in BOOLEAN, b \in Batches : forward_patch_checkpoints(wipe_suffix, b)
    \/ \E b \in Batches : do_import_checkpoints(b)
    \/ \E remove_checkpoints \in Removals : remove_chain(remove_checkpoints)
    \/ \E i \in Intervals : set_chain_attestation_interval(i)
    \/ \E m \in CatchupBounds : set_max_catchup(m)
    \/ \E c \in CheckpointIntervals : set_attestations_per_checkpoint(c)
    \/ \E g \in GenesisHeights : set_attestation_chain_genesis_block_number(g)
    \/ apply_interval_updates

Spec == Init /\ [][Next]_vars

\* Blocks keep coming, so on_initialize keeps running; nobody has to submit a call.
FairSpec == Spec /\ WF_vars(on_initialize)

-----------------------------------------------------------------------------
(* Properties *)

Attestation == [header_number : Nat, len : Nat]
PruningState == [stop_height : Nat, next_pivot : Nat]

\* Every storage item of the chain holds a value of its type.
TypeOK ==
    /\ Supported \in BOOLEAN
    /\ Genesis \in Nat
    /\ ChainAttestationInterval \in Nat \ {0}
    /\ AttestationCheckpointInterval \in Nat \ {0}
    /\ MaxCatchup \in Nat \ {0}
    /\ PendingAttestationInterval \in (Nat \ {0}) \cup {None}
    /\ PendingMaxCatchup \in (Nat \ {0}) \cup {None}
    /\ DOMAIN Attestations \subseteq Digest
    /\ Attestations \in [DOMAIN Attestations -> Attestation]
    /\ LastDigest \in Checkpoint \cup {None}
    /\ CheckpointingQueue \in Seq(Digest)
    /\ AttestationRemovalQueue \in Seq(Digest)
    /\ DOMAIN Checkpoints \subseteq Nat
    /\ Checkpoints \in [DOMAIN Checkpoints -> Digest]
    /\ CheckpointBuckets \subseteq Nat
    /\ LastCheckpoint \in Checkpoint \cup {None}
    /\ CheckpointPruningState \in PruningState \cup {None}
    /\ AttestationClearingCursor \in BOOLEAN
    /\ CheckpointClearingCursor \in BOOLEAN
    /\ BucketClearingCursor \in BOOLEAN
    /\ AttestationsInBlock \in Nat

\* Checkpoints and their bucket index never diverge while the chain is supported
\* and neither is being cleared: pruning finds its rows through the index only.
CheckpointIndex ==
    Supported => /\ CheckpointBuckets = DOMAIN Checkpoints
                 /\ ~CheckpointClearingCursor /\ ~BucketClearingCursor

\* LastCheckpoint is the highest checkpoint except for the leftovers of a
\* reversion or a wiping patch, all of which the pruning pass has yet to reach.
LadderTop ==
    Supported =>
        IF LastCheckpoint = None
        THEN DOMAIN Checkpoints = {} /\ CheckpointPruningState = None
        ELSE /\ LastCheckpoint.block_number \in DOMAIN Checkpoints
             /\ Checkpoints[LastCheckpoint.block_number] = LastCheckpoint.digest
             /\ CheckpointPruningState # None =>
                    compute_block_index_for(LastCheckpoint.block_number)
                        < CheckpointPruningState.next_pivot
             /\ \A h \in DOMAIN Checkpoints : h > LastCheckpoint.block_number =>
                    /\ CheckpointPruningState # None
                    /\ compute_block_index_for(h) >= CheckpointPruningState.next_pivot
                    /\ h <= CheckpointPruningState.stop_height

\* What checkpoint_if_stable promises its readers: on a supported chain it never
\* returns a checkpoint above the height the chain was reverted to.
NoStaleAnchor ==
    Supported =>
        \A h \in DOMAIN Checkpoints : checkpoint_if_stable(h) # None =>
            LastCheckpoint # None /\ h <= LastCheckpoint.block_number

\* A digest links back to another when walking its parents reaches the other.
LinksBackTo(older, d) == Len(older) <= Len(d) /\ older = SubSeq(d, 1, Len(older))

\* Without operator-supplied digests, everything contains_digest vouches for is
\* on the one chain that the head extends, whatever forks were reverted.
OneChain ==
    Supported =>
        /\ \A h \in DOMAIN Checkpoints : checkpoint_if_stable(h) # None =>
               LinksBackTo(checkpoint_if_stable(h), last_digest)
        /\ \A d \in DOMAIN Attestations : get(d) # None => LinksBackTo(d, last_digest)

\* A stored attestation is in exactly one place of one of the two queues, so
\* each is deleted in the end and none is deleted twice.
AttestationsAccounted ==
    LET all == AttestationRemovalQueue \o CheckpointingQueue
    IN  /\ ~AttestationClearingCursor => DOMAIN Attestations = Range(all)
        /\ Cardinality(Range(all)) = Len(all)

\* Queued attestations lie above the last checkpoint, and their proofs continue
\* one another up to the head without gap or overlap.
QueueContiguous ==
    LET q == CheckpointingQueue
        att(i) == Attestations[q[i]]
    IN  /\ \A i \in 1..(Len(q) - 1) :
               att(i + 1).header_number - att(i + 1).len = att(i).header_number + 1
        /\ q # << >> => /\ att(1).header_number > LastCheckpoint.block_number
                        /\ q[Len(q)] = LastDigest.digest

\* "A chain holds at most 2 * checkpoint_interval + 1 queued attestations at a
\* fixed setting" (integrity_test), which sizes the weight of a commit.
QueueWithinBound == Len(CheckpointingQueue) <= 2 * AttestationCheckpointInterval + 1

\* Height of the latest accepted block.
HeadHeight == IF LastDigest # None THEN LastDigest.block_number ELSE LastCheckpoint.block_number

\* Whatever was committed, reverted, patched or reconfigured, a supported chain
\* that no cleanup blocks accepts an attestation one interval above its head, and
\* that height is within the MaxCatchup blocks attestors look ahead.
HeadCanAdvance ==
    Supported /\ ~commit_blocked_by_cleanup /\ last_digest # None =>
        LET h   == HeadHeight + ChainAttestationInterval
            len == ChainAttestationInterval - 1
        IN  /\ ChainAttestationInterval <= MaxCatchup
            /\ h # Genesis =>
                   \A root \in Roots :
                       validate_attestation(last_digest, h, len, Fold(last_digest, h, len, root))

\* At fixed settings a catch-up attestation that extends the head never fails for
\* want of a boundary digest: each boundary it must checkpoint is in its own
\* proof or in the proof of a queued attestation.
CatchUpCovered ==
    Supported /\ ~commit_blocked_by_cleanup /\ last_digest # None =>
        \A h \in Heights, root \in Roots :
            LET len  == h - HeadHeight - 1
                d    == Fold(last_digest, h, len, root)
                atts == Insert(Attestations, [x \in {d} |-> [header_number |-> h, len |-> len]])
            IN  len > 0 /\ CatchingUp(h, len) => BoundariesCovered(atts, d, h)

\* A checkpoint the pruning pass hides stays hidden until it is deleted: "consumers
\* using checkpoints as a trust anchor must not accept" it (checkpoint_if_stable).
StaleStaysHidden ==
    [][\A h \in DOMAIN Checkpoints :
           checkpoint_if_stable(h) = None => checkpoint_if_stable(h)' = None]_vars

\* A checkpoint readers were told is stable keeps its digest until an operator
\* reverts below it, patches the ladder or removes the chain.
StableCheckpointsPersist ==
    [][\A h \in DOMAIN Checkpoints :
           checkpoint_if_stable(h) # None /\ checkpoint_if_stable(h)' # checkpoint_if_stable(h)
               => LastDigest' = None \/ h > LastCheckpoint'.block_number]_vars

\* A revert, a patch or a removal blocks commits for some blocks only.
CleanupDrains == commit_blocked_by_cleanup ~> ~commit_blocked_by_cleanup

\* Everything a chain removed with its checkpoints left behind is cleared.
RemovedChainCleared ==
    ~Supported ~> (DOMAIN Attestations = {} /\ DOMAIN Checkpoints = {} /\ CheckpointBuckets = {})

\* Checkpoints of a reverted fork are all deleted in the end.
StaleCheckpointsPruned ==
    (\E h \in DOMAIN Checkpoints : LastCheckpoint # None /\ h > LastCheckpoint.block_number)
        ~> ~(\E h \in DOMAIN Checkpoints : LastCheckpoint # None /\ h > LastCheckpoint.block_number)

==============================================================================
