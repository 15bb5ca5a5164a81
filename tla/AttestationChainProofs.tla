------------------------ MODULE AttestationChainProofs ------------------------
(***************************************************************************)
(* Proofs about AttestationChain for every value of its constants.         *)
(***************************************************************************)
EXTENDS AttestationChain, TLAPS

-----------------------------------------------------------------------------
(* Arithmetic of buckets and checkpoint boundaries.                        *)

Floor(h, w) == h - (h % w)

LEMMA DivMod ==
    \A h \in Nat, w \in Nat \ {0} :
        /\ h = w * (h \div w) + (h % w)
        /\ h \div w \in Nat
  OBVIOUS

LEMMA FloorMultiple ==
    \A h \in Nat, w \in Nat \ {0} : Floor(h, w) = w * (h \div w) /\ h \div w \in Nat
  BY DivMod DEF Floor

LEMMA FloorBounds ==
    \A h \in Nat, w \in Nat \ {0} :
        Floor(h, w) \in Nat /\ Floor(h, w) <= h /\ h < Floor(h, w) + w
  BY DEF Floor

LEMMA TimesGap == \A q, r \in Int, w \in Nat \ {0} : q < r => w * q + w <= w * r
  OBVIOUS

LEMMA TimesMod == \A q \in Nat, w \in Nat \ {0} : (w * q) % w = 0
  OBVIOUS

\* Two different floors are at least one width apart.
LEMMA FloorGap ==
    ASSUME NEW h \in Nat, NEW k \in Nat, NEW w \in Nat \ {0}, Floor(h, w) < Floor(k, w)
    PROVE  Floor(h, w) + w <= Floor(k, w)
  <1> DEFINE q == h \div w
             r == k \div w
  <1>1. Floor(h, w) = w * q /\ Floor(k, w) = w * r /\ q \in Nat /\ r \in Nat
    BY FloorMultiple, Zenon
  <1>2. q < r
    BY <1>1
  <1> QED BY <1>1, <1>2, TimesGap

LEMMA FloorMonotone ==
    ASSUME NEW h \in Nat, NEW k \in Nat, NEW w \in Nat \ {0}, h <= k
    PROVE  Floor(h, w) <= Floor(k, w)
  <1>1. CASE Floor(k, w) < Floor(h, w)
    <2>1. Floor(k, w) + w <= Floor(h, w)
      BY <1>1, FloorGap
    <2> QED BY <2>1, FloorBounds
  <1> QED BY <1>1, FloorBounds

LEMMA FloorDivides ==
    ASSUME NEW h \in Nat, NEW w \in Nat \ {0}
    PROVE  Floor(h, w) % w = 0
  BY FloorMultiple, TimesMod, Zenon

\* The floor of h is the highest multiple of the width up to h.
LEMMA FloorHighest ==
    ASSUME NEW t \in Nat, NEW h \in Nat, NEW w \in Nat \ {0}, t % w = 0, t <= h
    PROVE  t <= Floor(h, w)
  <1>1. Floor(t, w) = t
    BY DEF Floor
  <1> QED BY <1>1, FloorMonotone

LEMMA WidthPositive == TypeOK => checkpoint_width \in Nat \ {0}
  BY DEF TypeOK, checkpoint_width

-----------------------------------------------------------------------------
(* Helpers on functions and sequences.                                     *)

LEMMA InsertFacts ==
    ASSUME NEW f, NEW g
    PROVE  /\ DOMAIN Insert(f, g) = DOMAIN f \cup DOMAIN g
           /\ \A x \in DOMAIN g : Insert(f, g)[x] = g[x]
           /\ \A x \in DOMAIN f \ DOMAIN g : Insert(f, g)[x] = f[x]
  BY DEF Insert

LEMMA WithoutFacts ==
    ASSUME NEW f, NEW R
    PROVE  /\ DOMAIN Without(f, R) = DOMAIN f \ R
           /\ \A x \in DOMAIN f \ R : Without(f, R)[x] = f[x]
  BY DEF Without, Restrict

LEMMA WithoutType ==
    ASSUME NEW T, NEW f, f \in [DOMAIN f -> T], NEW R
    PROVE  Without(f, R) \in [DOMAIN Without(f, R) -> T]
  BY DEF Without, Restrict

LEMMA MaxOfBatch ==
    ASSUME NEW b, DOMAIN b \subseteq Nat, \E t \in DOMAIN b : \A h \in DOMAIN b : h <= t
    PROVE  Max(DOMAIN b) \in DOMAIN b /\ \A h \in DOMAIN b : h <= Max(DOMAIN b)
  <1>1. PICK t \in DOMAIN b : \A y \in DOMAIN b : t >= y
    OBVIOUS
  <1>2. \E x \in DOMAIN b : \A y \in DOMAIN b : x >= y
    BY <1>1
  <1> QED BY <1>2 DEF Max

LEMMA RetainedType ==
    ASSUME NEW removal \in Seq(Digest)
    PROVE  Retained(removal) \in Seq(Digest)
  BY RetentionAssumption DEF Retained

LEMMA FoldType ==
    ASSUME NEW tail \in Digest, NEW h \in Nat, NEW len \in 0..h, NEW root \in Roots
    PROVE  Fold(tail, h, len, root) \in Digest
  <1> DEFINE blocks == [i \in 1..(len + 1) |-> <<h - len - 1 + i, root>>]
  <1>1. \A i \in 1..(len + 1) : <<h - len - 1 + i, root>> \in Nat \X Roots
    OBVIOUS
  <1>2. len + 1 \in Nat
    OBVIOUS
  <1>3. blocks \in Seq(Nat \X Roots)
    BY <1>1, <1>2
  <1> QED BY <1>3 DEF Fold, Digest

LEMMA DigestForBlockType ==
    ASSUME NEW d \in Digest, NEW h \in Nat, NEW b \in Nat, b <= h
    PROVE  digest_for_block(d, h, b) \in Digest
  BY DEF digest_for_block, Digest

-----------------------------------------------------------------------------
(* What a checkpointing plan adds to the ladder.                           *)

PlanType(plan) ==
    /\ plan.queue \in Seq(Digest)
    /\ plan.removal \in Seq(Digest)
    /\ DOMAIN plan.added \subseteq Nat
    /\ plan.added \in [DOMAIN plan.added -> Digest]

\* A plan adds nothing, or checkpoints above the last one that plan.last tops.
PlanTop(plan) ==
    \/ DOMAIN plan.added = {}
    \/ /\ plan.last \in DOMAIN plan.added
       /\ \A t \in DOMAIN plan.added : LastCheckpoint.block_number < t /\ t <= plan.last

AttsType(atts) == DOMAIN atts \subseteq Digest /\ atts \in [DOMAIN atts -> Attestation]

LEMMA NextBoundaryFacts ==
    ASSUME TypeOK, NEW last \in Nat
    PROVE  /\ NextBoundary(last) \in Nat
           /\ NextBoundary(last) > last
           /\ NextBoundary(last) <= last + checkpoint_width
           /\ NextBoundary(last) % checkpoint_width = 0
  <1>1. checkpoint_width \in Nat \ {0}
    BY WidthPositive
  <1>2. NextBoundary(last) = Floor(last + checkpoint_width, checkpoint_width)
    BY DEF NextBoundary, Floor
  <1>3. last + checkpoint_width \in Nat
    BY <1>1
  <1> QED BY <1>1, <1>2, <1>3, FloorBounds, FloorDivides

LEMMA BoundaryDigestType ==
    ASSUME NEW atts, AttsType(atts), NEW d \in DOMAIN atts, NEW h \in Nat,
           atts[d].header_number = h, NEW b \in Nat, Covered(atts, d, b)
    PROVE  DigestOfBlock(atts, d, h, b) \in Digest
  <1>1. \A q \in DOMAIN atts : /\ q \in Digest
                               /\ atts[q].header_number \in Nat
                               /\ b \in ProvenBlocks(atts[q]) => b <= atts[q].header_number
    BY DEF AttsType, Attestation, ProvenBlocks
  <1>2. CASE b \in ProvenBlocks(atts[d])
    BY <1>1, <1>2, DigestForBlockType DEF DigestOfBlock
  <1>3. CASE b \notin ProvenBlocks(atts[d])
    <2> DEFINE q == CHOOSE q \in Range(CheckpointingQueue) \cap DOMAIN atts :
                        b \in ProvenBlocks(atts[q])
    <2>1. \E x \in Range(CheckpointingQueue) \cap DOMAIN atts : b \in ProvenBlocks(atts[x])
      BY <1>3 DEF Covered
    <2>2. q \in DOMAIN atts /\ b \in ProvenBlocks(atts[q])
      BY <2>1
    <2>3. DigestOfBlock(atts, d, h, b) = digest_for_block(q, atts[q].header_number, b)
      BY <1>3 DEF DigestOfBlock
    <2> HIDE DEF q
    <2>4. q \in Digest /\ atts[q].header_number \in Nat /\ b <= atts[q].header_number
      BY <2>2, <1>1
    <2> QED BY <2>3, <2>4, DigestForBlockType
  <1> QED BY <1>2, <1>3

LEMMA CatchUpPlan ==
    ASSUME TypeOK, LastCheckpoint # None,
           NEW atts, AttsType(atts), NEW d \in DOMAIN atts, NEW h \in Nat,
           atts[d].header_number = h, NEW len \in Nat,
           CatchingUp(h, len), BoundariesCovered(atts, d, h)
    PROVE  /\ PlanType(create_checkpoints_from_queue(atts, d, h))
           /\ PlanTop(create_checkpoints_from_queue(atts, d, h))
  <1> DEFINE plan == create_checkpoints_from_queue(atts, d, h)
             last == LastCheckpoint.block_number
             top == Floor(h, checkpoint_width)
  <1>1. last \in Nat /\ checkpoint_width \in Nat \ {0} /\ d \in Digest
    BY WidthPositive DEF TypeOK, Checkpoint, AttsType
  <1>2. DOMAIN plan.added = Boundaries(last, h) /\ plan.last = top
    BY DEF create_checkpoints_from_queue, Floor
  <1>3. Boundaries(last, h) \subseteq Nat
    BY <1>1 DEF Boundaries
  <1>4. plan.added \in [DOMAIN plan.added -> Digest]
    <2>1. \A t \in Boundaries(last, h) : DigestOfBlock(atts, d, h, t) \in Digest
      BY <1>3, BoundaryDigestType DEF BoundariesCovered
    <2> QED BY <2>1 DEF create_checkpoints_from_queue
  <1>5. plan.queue \in Seq(Digest) /\ plan.removal \in Seq(Digest)
    BY <1>1 DEF create_checkpoints_from_queue, TypeOK
  <1>6. \A t \in Boundaries(last, h) : last < t /\ t <= top
    BY <1>1, FloorHighest DEF Boundaries
  <1>7. top \in Boundaries(last, h)
    <2>1. top \in Nat /\ top <= h /\ top % checkpoint_width = 0
      BY <1>1, FloorBounds, FloorDivides
    <2>2. NextBoundary(last) <= top
      BY <1>1, NextBoundaryFacts, FloorHighest, Zenon DEF CatchingUp
    <2>3. last < top
      BY <1>1, <2>1, <2>2, NextBoundaryFacts
    <2> QED BY <1>1, <2>1, <2>3 DEF Boundaries
  <1> QED BY <1>2, <1>3, <1>4, <1>5, <1>6, <1>7 DEF PlanType, PlanTop

LEMMA QueuePlan ==
    ASSUME TypeOK, LastCheckpoint # None,
           NEW atts, AttsType(atts), NEW queue \in Seq(Digest), NEW h \in Nat
    PROVE  /\ PlanType(try_make_checkpoint(queue, atts, h))
           /\ PlanTop(try_make_checkpoint(queue, atts, h))
           /\ \A t \in DOMAIN try_make_checkpoint(queue, atts, h).added : t <= h
  <1> DEFINE plan == try_make_checkpoint(queue, atts, h)
             last == LastCheckpoint.block_number
             target == NextBoundary(last)
             Found(i) == FirstReaching(queue, atts, target, i)
             Keep == [queue |-> queue, removal |-> AttestationRemovalQueue,
                      added |-> << >>, last |-> last]
  <1>1. last \in Nat /\ checkpoint_width \in Nat \ {0}
    BY WidthPositive DEF TypeOK, Checkpoint
  <1>2. target \in Nat /\ target > last /\ target <= last + checkpoint_width
    BY <1>1, NextBoundaryFacts, Zenon
  <1> HIDE DEF target
  <1>3. CASE \/ h - last < 2 * checkpoint_width + 1
             \/ ~ \E i \in DOMAIN queue : Found(i) /\ target \in ProvenBlocks(atts[queue[i]])
    <2>1. plan = Keep
      BY <1>3, Zenon DEF try_make_checkpoint, target
    <2> QED BY <2>1 DEF PlanType, PlanTop, TypeOK
  <1>4. CASE /\ ~(h - last < 2 * checkpoint_width + 1)
             /\ \E i \in DOMAIN queue : Found(i) /\ target \in ProvenBlocks(atts[queue[i]])
    <2>1. target <= h
      BY <1>1, <1>2, <1>4
    <2> DEFINE i == CHOOSE i \in DOMAIN queue : Found(i)
               hd == atts[queue[i]].header_number
               popped == IF hd = target THEN i ELSE i - 1
    <2>2. i \in DOMAIN queue /\ Found(i)
      BY <1>4, SMTT(30)
    <2>3. plan = [queue   |-> SubSeq(queue, popped + 1, Len(queue)),
                  removal |-> AttestationRemovalQueue \o SubSeq(queue, 1, popped),
                  added   |-> [t \in {target} |-> digest_for_block(queue[i], hd, target)],
                  last    |-> target]
      BY <1>4, Zenon DEF try_make_checkpoint, target
    <2> HIDE DEF i
    <2>4. queue[i] \in Digest /\ hd \in Nat /\ target <= hd /\ i \in 1..Len(queue)
      BY <1>2, <2>2 DEF FirstReaching, AttsType, Attestation
    <2>5. digest_for_block(queue[i], hd, target) \in Digest
      BY <1>2, <2>4, DigestForBlockType
    <2> HIDE DEF hd
    <2>6. popped \in 0..Len(queue)
      BY <2>4
    <2> HIDE DEF popped
    <2>7. /\ SubSeq(queue, popped + 1, Len(queue)) \in Seq(Digest)
          /\ AttestationRemovalQueue \o SubSeq(queue, 1, popped) \in Seq(Digest)
      BY <2>6 DEF TypeOK
    <2> QED BY <1>2, <2>1, <2>3, <2>5, <2>7 DEF PlanType, PlanTop
  <1> QED BY <1>3, <1>4

LEMMA CondensedPlan ==
    ASSUME TypeOK, LastCheckpoint # None, NEW plan, PlanType(plan), PlanTop(plan),
           NEW d \in Digest, NEW h \in Nat, h > LastCheckpoint.block_number,
           \A t \in DOMAIN plan.added : t <= h
    PROVE  /\ PlanType(checkpoint_at_attestation(plan, d, h))
           /\ PlanTop(checkpoint_at_attestation(plan, d, h))
  <1> DEFINE one == [t \in {h} |-> d]
             new == checkpoint_at_attestation(plan, d, h)
  <1>1. DOMAIN one = {h} /\ DOMAIN one \subseteq Nat /\ one \in [DOMAIN one -> Digest]
    OBVIOUS
  <1>2. /\ new.added = Insert(plan.added, one) /\ new.last = h
        /\ new.queue = << >> /\ new.removal = plan.removal \o plan.queue
    BY Zenon DEF checkpoint_at_attestation
  <1> HIDE DEF one, new
  <1>3. /\ DOMAIN new.added = DOMAIN plan.added \cup {h}
        /\ DOMAIN new.added \subseteq Nat
        /\ new.added \in [DOMAIN new.added -> Digest]
    <2>1. DOMAIN plan.added \subseteq Nat /\ plan.added \in [DOMAIN plan.added -> Digest]
      BY DEF PlanType
    <2> QED BY <1>1, <1>2, <2>1 DEF Insert
  <1>4. PlanType(new)
    BY <1>2, <1>3 DEF PlanType
  <1>5. PlanTop(new)
    BY <1>2, <1>3 DEF PlanTop
  <1> QED BY <1>4, <1>5 DEF new

-----------------------------------------------------------------------------
(* Types.                                                                  *)

LEMMA InitType == Init => TypeOK
  <1> SUFFICES ASSUME Init PROVE TypeOK
    OBVIOUS
  <1>1. DOMAIN Attestations = {} /\ DOMAIN Checkpoints = {}
    BY DEF Init
  <1>2. /\ Attestations \in [DOMAIN Attestations -> Attestation]
        /\ Checkpoints \in [DOMAIN Checkpoints -> Digest]
    BY DEF Init
  <1>3. CheckpointingQueue \in Seq(Digest) /\ AttestationRemovalQueue \in Seq(Digest)
    BY DEF Init
  <1> QED BY <1>1, <1>2, <1>3, HeightsAssumption, ConfigAssumption, Zenon DEF Init, TypeOK

\* The ladder part of the type invariant, which most actions change.
LadderType ==
    /\ DOMAIN Checkpoints \subseteq Nat
    /\ Checkpoints \in [DOMAIN Checkpoints -> Digest]
    /\ CheckpointBuckets \subseteq Nat
    /\ LastCheckpoint \in Checkpoint \cup {None}

\* The inductive invariant.
LadderInv == TypeOK /\ CheckpointIndex /\ LadderTop

LEMMA WriteType ==
    ASSUME TypeOK, NEW added, DOMAIN added \subseteq Nat, added \in [DOMAIN added -> Digest],
           WriteCheckpoints(added)
    PROVE  /\ DOMAIN Checkpoints' = DOMAIN Checkpoints \cup DOMAIN added
           /\ DOMAIN Checkpoints' \subseteq Nat
           /\ Checkpoints' \in [DOMAIN Checkpoints' -> Digest]
           /\ CheckpointBuckets' = CheckpointBuckets \cup DOMAIN added
           /\ CheckpointBuckets' \subseteq Nat
           /\ \A t \in DOMAIN added : Checkpoints'[t] = added[t]
           /\ \A t \in DOMAIN Checkpoints \ DOMAIN added : Checkpoints'[t] = Checkpoints[t]
  <1>1. DOMAIN Checkpoints \subseteq Nat /\ Checkpoints \in [DOMAIN Checkpoints -> Digest]
    BY DEF TypeOK
  <1>2. Checkpoints' = Insert(Checkpoints, added)
    BY DEF WriteCheckpoints
  <1>3. CheckpointBuckets' = CheckpointBuckets \cup DOMAIN added /\ CheckpointBuckets' \subseteq Nat
    BY DEF WriteCheckpoints, TypeOK
  <1> QED BY <1>1, <1>2, <1>3 DEF Insert

\* A commit's plan keeps the types and, when no pruning is pending, the ladder.
LEMMA ApplyPlanStep ==
    ASSUME LadderInv, Supported, LastCheckpoint # None, CheckpointPruningState = None,
           NEW atts, AttsType(atts), NEW plan, PlanType(plan), PlanTop(plan),
           ApplyPlan(atts, plan), UNCHANGED <<Supported, cleanup>>
    PROVE  /\ AttsType(Attestations')
           /\ CheckpointingQueue' \in Seq(Digest)
           /\ AttestationRemovalQueue' \in Seq(Digest)
           /\ LadderType'
           /\ CheckpointIndex'
           /\ LadderTop'
  <1> DEFINE last == LastCheckpoint.block_number
  <1>1. TypeOK /\ last \in Nat /\ DOMAIN plan.added \subseteq Nat
        /\ plan.added \in [DOMAIN plan.added -> Digest]
    BY SMTT(30) DEF LadderInv, TypeOK, Checkpoint, PlanType
  <1>2. /\ DOMAIN Checkpoints' = DOMAIN Checkpoints \cup DOMAIN plan.added
        /\ DOMAIN Checkpoints' \subseteq Nat
        /\ Checkpoints' \in [DOMAIN Checkpoints' -> Digest]
        /\ CheckpointBuckets' = CheckpointBuckets \cup DOMAIN plan.added
        /\ CheckpointBuckets' \subseteq Nat
        /\ \A t \in DOMAIN plan.added : Checkpoints'[t] = plan.added[t]
        /\ \A t \in DOMAIN Checkpoints \ DOMAIN plan.added : Checkpoints'[t] = Checkpoints[t]
    BY <1>1, WriteType, Zenon DEF ApplyPlan
  <1>3. AttsType(Attestations')
    <2>1. DOMAIN atts \subseteq Digest /\ atts \in [DOMAIN atts -> Attestation]
      BY DEF AttsType
    <2>2. Attestations' = Without(atts, Range(Expired(plan.removal)))
      BY DEF ApplyPlan
    <2> QED BY <2>1, <2>2, WithoutFacts, WithoutType, Zenon DEF AttsType
  <1>4. CheckpointingQueue' \in Seq(Digest) /\ AttestationRemovalQueue' \in Seq(Digest)
    BY RetainedType DEF ApplyPlan, PlanType
  <1>5. CheckpointIndex'
    BY <1>2 DEF LadderInv, CheckpointIndex, cleanup, cursors
  <1>6. /\ last \in DOMAIN Checkpoints
        /\ Checkpoints[last] = LastCheckpoint.digest
        /\ \A h \in DOMAIN Checkpoints : h <= last
    BY <1>1 DEF LadderInv, LadderTop, TypeOK
  <1>7. CheckpointPruningState' = None
    BY DEF cleanup
  <1>8. CASE DOMAIN plan.added = {}
    <2>1. LastCheckpoint' = LastCheckpoint
      BY <1>8 DEF ApplyPlan
    <2>2. LadderType'
      BY <1>1, <1>2, <2>1 DEF LadderType, TypeOK
    <2>3. LadderTop'
      BY <1>1, <1>2, <1>6, <1>7, <1>8, <2>1 DEF LadderTop
    <2> QED BY <1>3, <1>4, <1>5, <2>2, <2>3
  <1>9. CASE /\ plan.last \in DOMAIN plan.added
             /\ \A t \in DOMAIN plan.added : last < t /\ t <= plan.last
    <2>1. /\ LastCheckpoint' = [block_number |-> plan.last, digest |-> plan.added[plan.last]]
          /\ LastCheckpoint' \in Checkpoint
      BY <1>1, <1>9 DEF ApplyPlan, Checkpoint
    <2>2. LastCheckpoint' # None
      BY <2>1, NoneAssumption
    <2>3. LadderType'
      BY <1>2, <2>1 DEF LadderType
    <2>4. \A h \in DOMAIN Checkpoints' : h <= plan.last
      BY <1>1, <1>2, <1>6, <1>9
    <2>5. LadderTop'
      BY <1>1, <1>2, <1>7, <1>9, <2>1, <2>2, <2>4 DEF LadderTop
    <2> QED BY <1>3, <1>4, <1>5, <2>3, <2>5
  <1> QED BY <1>8, <1>9 DEF PlanTop

-----------------------------------------------------------------------------
(* Every action preserves the inductive invariant.                         *)

LEMMA KnownDigestType == TypeOK => KnownDigests \subseteq Digest
  <1> SUFFICES ASSUME TypeOK PROVE KnownDigests \subseteq Digest
    OBVIOUS
  <1>1. << >> \in Digest
    BY DEF Digest
  <1>2. \A h \in DOMAIN Checkpoints : Checkpoints[h] \in Digest
    BY DEF TypeOK
  <1>3. last_digest # None => last_digest \in Digest
    BY DEF TypeOK, last_digest, Checkpoint
  <1> QED BY <1>1, <1>2, <1>3 DEF KnownDigests, TypeOK

LEMMA CommitStep == LadderInv /\ commit_attestation => LadderInv'
  <1> SUFFICES ASSUME LadderInv, commit_attestation PROVE LadderInv'
    OBVIOUS
  <1>1. TypeOK
    BY DEF LadderInv
  <1>a. PICK tail \in KnownDigests, h \in Heights, root \in Roots :
            \E len \in 0..h : do_commit_attestation(tail, h, len, root)
    BY DEF commit_attestation
  <1>2. PICK len \in 0..h : do_commit_attestation(tail, h, len, root)
    BY <1>a
  <1> DEFINE d == Fold(tail, h, len, root)
             att == [header_number |-> h, len |-> len]
             atts == Insert(Attestations, [x \in {d} |-> att])
  <1>3. h \in Nat /\ len \in Nat /\ tail \in Digest
    BY <1>1, <1>2, HeightsAssumption, KnownDigestType
  <1>4. d \in Digest
    BY <1>2, <1>3, FoldType
  <1>5. /\ validate_attestation(tail, h, len, d)
        /\ AttestationsInBlock' = AttestationsInBlock + 1
        /\ LastDigest' = IF LastDigest = None \/ h > LastDigest.block_number
                         THEN [block_number |-> h, digest |-> d] ELSE LastDigest
        /\ \/ CommitFirst(atts, d, h)
           \/ CommitCatchUp(atts, d, h, len)
           \/ CommitQueued(atts, d, h, len)
        /\ UNCHANGED <<Supported, config, cleanup>>
    BY <1>2, SMTT(30) DEF do_commit_attestation
  <1> HIDE DEF d
  <1>6. /\ AttsType(atts)
        /\ d \in DOMAIN atts
        /\ atts[d].header_number = h
    <2>1. att \in Attestation
      BY <1>3 DEF Attestation
    <2> HIDE DEF att
    <2>2. DOMAIN Attestations \subseteq Digest /\ Attestations \in [DOMAIN Attestations -> Attestation]
      BY <1>1 DEF TypeOK
    <2>3. AttsType(atts) /\ d \in DOMAIN atts /\ atts[d] = att
      BY <1>4, <2>1, <2>2 DEF Insert, AttsType
    <2> QED BY <2>3 DEF att
  <1> HIDE DEF atts
  <1>7. /\ Supported
        /\ CheckpointPruningState = None
        /\ LastCheckpoint # None => h > LastCheckpoint.block_number
    BY <1>1, <1>3, <1>5 DEF validate_attestation, commit_blocked_by_cleanup, check_duplicate,
                             TypeOK, Checkpoint
  <1>8. DOMAIN Checkpoints # {} => LastCheckpoint # None
    BY <1>7 DEF LadderInv, LadderTop
  <1>9. /\ AttsType(Attestations')
        /\ CheckpointingQueue' \in Seq(Digest)
        /\ AttestationRemovalQueue' \in Seq(Digest)
        /\ LadderType'
        /\ CheckpointIndex'
        /\ LadderTop'
    <2>1. CASE CommitFirst(atts, d, h)
      <3> DEFINE one == [t \in {h} |-> d]
                 cp == [block_number |-> h, digest |-> d]
      <3>1. DOMAIN one = {h} /\ one[h] = d /\ DOMAIN one \subseteq Nat /\ one \in [DOMAIN one -> Digest]
        BY <1>3, <1>4
      <3>2. WriteCheckpoints(one) /\ DOMAIN Checkpoints = {} /\ LastCheckpoint' = cp
        BY <2>1 DEF CommitFirst
      <3> HIDE DEF one
      <3>3. /\ DOMAIN Checkpoints' = {h}
            /\ Checkpoints' \in [DOMAIN Checkpoints' -> Digest]
            /\ CheckpointBuckets' = CheckpointBuckets \cup {h}
            /\ CheckpointBuckets' \subseteq Nat
            /\ Checkpoints'[h] = d
        BY <1>1, <3>1, <3>2, WriteType
      <3>4. cp \in Checkpoint
        BY <1>3, <1>4 DEF Checkpoint
      <3>5. LastCheckpoint' # None /\ CheckpointPruningState' = None
        BY <1>5, <1>7, <3>2, <3>4, NoneAssumption DEF cleanup
      <3>6. LadderType'
        BY <1>3, <3>2, <3>3, <3>4 DEF LadderType
      <3>7. CheckpointIndex'
        BY <1>5, <3>2, <3>3 DEF LadderInv, CheckpointIndex, cleanup, cursors
      <3>8. LadderTop'
        BY <1>3, <3>2, <3>3, <3>5 DEF LadderTop
      <3>9. CheckpointingQueue' \in Seq(Digest) /\ AttestationRemovalQueue' \in Seq(Digest)
        BY <1>1, <1>4, <2>1 DEF CommitFirst, TypeOK
      <3>10. AttsType(Attestations')
        BY <1>6, <2>1, SMTT(30) DEF CommitFirst
      <3> QED BY <3>6, <3>7, <3>8, <3>9, <3>10
    <2>2. CASE CommitCatchUp(atts, d, h, len)
      <3> DEFINE plan == create_checkpoints_from_queue(atts, d, h)
      <3>1. /\ LastCheckpoint # None /\ CatchingUp(h, len) /\ BoundariesCovered(atts, d, h)
            /\ ApplyPlan(atts, plan)
        BY <1>8, <2>2, SMTT(30) DEF CommitCatchUp
      <3>2. PlanType(plan) /\ PlanTop(plan)
        BY <1>1, <1>3, <1>6, <3>1, CatchUpPlan, SMTT(30)
      <3> HIDE DEF plan
      <3> QED BY <1>5, <1>6, <1>7, <3>1, <3>2, ApplyPlanStep
    <2>3. CASE CommitQueued(atts, d, h, len)
      <3> DEFINE queue == Append(CheckpointingQueue, d)
                 legacy == try_make_checkpoint(queue, atts, h)
                 plan == IF Len(legacy.queue) > MaxQueueLen
                         THEN checkpoint_at_attestation(legacy, d, h) ELSE legacy
      <3>1. LastCheckpoint # None /\ ApplyPlan(atts, plan)
        BY <1>8, <2>3 DEF CommitQueued
      <3>2. queue \in Seq(Digest)
        BY <1>1, <1>4 DEF TypeOK
      <3> HIDE DEF queue
      <3>3. /\ PlanType(legacy) /\ PlanTop(legacy)
            /\ \A t \in DOMAIN legacy.added : t <= h
        BY <1>1, <1>3, <1>6, <3>1, <3>2, QueuePlan
      <3> HIDE DEF legacy
      <3>4. PlanType(plan) /\ PlanTop(plan)
        BY <1>1, <1>3, <1>4, <1>7, <3>1, <3>3, CondensedPlan
      <3> HIDE DEF plan
      <3> QED BY <1>5, <1>6, <1>7, <3>1, <3>4, ApplyPlanStep, Zenon
    <2> QED BY <1>5, <2>1, <2>2, <2>3
  <1>10. LastDigest' \in Checkpoint \cup {None}
    BY <1>1, <1>3, <1>4, <1>5 DEF TypeOK, Checkpoint
  <1>11. TypeOK'
    BY <1>1, <1>5, <1>9, <1>10 DEF TypeOK, AttsType, LadderType, config, cleanup, cursors
  <1> QED BY <1>9, <1>11 DEF LadderInv

LEMMA ClearAttestationsType ==
    ASSUME TypeOK, ClearAttestations
    PROVE  /\ AttsType(Attestations')
           /\ AttestationClearingCursor' \in BOOLEAN
           /\ CheckpointingQueue' \in Seq(Digest)
           /\ AttestationRemovalQueue' \in Seq(Digest)
  <1>1. PICK cleared \in SUBSET DOMAIN Attestations, cursor \in BOOLEAN :
            /\ Attestations' = Without(Attestations, cleared)
            /\ AttestationClearingCursor' = cursor
    BY DEF ClearAttestations
  <1>2. DOMAIN Attestations \subseteq Digest /\ Attestations \in [DOMAIN Attestations -> Attestation]
    BY DEF TypeOK
  <1>3. AttsType(Attestations')
    BY <1>1, <1>2, WithoutFacts, WithoutType, Zenon DEF AttsType
  <1>4. AttestationClearingCursor' \in BOOLEAN
    BY <1>1
  <1>5. CheckpointingQueue' \in Seq(Digest) /\ AttestationRemovalQueue' \in Seq(Digest)
    BY DEF ClearAttestations
  <1> QED BY <1>3, <1>4, <1>5

LEMMA BucketIsFloor == \A h : compute_block_index_for(h) = Floor(h, BucketSize)
  BY DEF compute_block_index_for, Floor

\* Above height, a row survives the purge only in a later bucket.
LEMMA PurgeFacts ==
    ASSUME TypeOK, CheckpointBuckets = DOMAIN Checkpoints, NEW height \in Nat,
           NEW h \in DOMAIN Checkpoints \ purge_bucket_above(height), h > height
    PROVE  compute_block_index_for(h) >= compute_block_index_for(height) + BucketSize
  <1>1. h \in Nat /\ BucketSize \in Nat \ {0}
    BY BucketAssumption DEF TypeOK
  <1>2. compute_block_index_for(h) # compute_block_index_for(height)
    BY DEF purge_bucket_above
  <1>3. /\ Floor(height, BucketSize) <= Floor(h, BucketSize)
        /\ Floor(height, BucketSize) \in Nat /\ Floor(h, BucketSize) \in Nat
    BY <1>1, FloorMonotone, FloorBounds
  <1>4. Floor(height, BucketSize) < Floor(h, BucketSize)
    BY <1>2, <1>3, BucketIsFloor
  <1>5. Floor(height, BucketSize) + BucketSize <= Floor(h, BucketSize)
    BY <1>1, <1>4, FloorGap
  <1> QED BY <1>1, <1>3, <1>5, BucketIsFloor

LEMMA BucketType ==
    ASSUME NEW h \in Nat
    PROVE  /\ compute_block_index_for(h) \in Nat
           /\ compute_block_index_for(h) <= h
           /\ compute_block_index_for(h) < compute_block_index_for(h) + BucketSize
  BY BucketAssumption, BucketIsFloor, FloorBounds

LEMMA RevertStep ==
    ASSUME LadderInv, NEW height \in DOMAIN Checkpoints, revert_to(height)
    PROVE  LadderInv'
  <1> DEFINE gone == purge_bucket_above(height)
             cp == [block_number |-> height, digest |-> Checkpoints[height]]
             state == [stop_height |-> LastCheckpoint.block_number,
                       next_pivot  |-> compute_block_index_for(height) + BucketSize]
  <1>1. /\ TypeOK /\ Supported /\ CheckpointPruningState = None /\ LastCheckpoint # None
        /\ ClearAttestations
        /\ Checkpoints' = Without(Checkpoints, gone)
        /\ CheckpointBuckets' = CheckpointBuckets \ gone
        /\ CheckpointPruningState' = state
        /\ LastCheckpoint' = cp
        /\ LastDigest' = cp
        /\ UNCHANGED <<Supported, config, cursors, AttestationsInBlock>>
    BY DEF LadderInv, revert_to, do_revert_to
  <1>2. /\ height \in Nat
        /\ LastCheckpoint.block_number \in Nat
        /\ Checkpoints[height] \in Digest
        /\ CheckpointBuckets = DOMAIN Checkpoints
        /\ \A h \in DOMAIN Checkpoints : h \in Nat /\ h <= LastCheckpoint.block_number
    BY <1>1 DEF LadderInv, CheckpointIndex, LadderTop, TypeOK, Checkpoint
  <1>3. cp \in Checkpoint /\ cp # None
    BY <1>2, NoneAssumption DEF Checkpoint
  <1>4. state \in PruningState /\ state # None
    BY <1>2, BucketType, BucketAssumption, NoneAssumption DEF PruningState
  <1>5. height \notin gone
    BY <1>2 DEF purge_bucket_above
  <1> HIDE DEF gone
  <1>6. /\ DOMAIN Checkpoints' = DOMAIN Checkpoints \ gone
        /\ Checkpoints' \in [DOMAIN Checkpoints' -> Digest]
        /\ Checkpoints'[height] = Checkpoints[height]
    BY <1>1, <1>5, WithoutFacts, WithoutType, Zenon DEF TypeOK
  <1>7. TypeOK'
    <2>1. LadderType'
      BY <1>1, <1>2, <1>3, <1>6, SMTT(30) DEF LadderType, TypeOK
    <2>2. CheckpointPruningState' \in PruningState \cup {None} /\ LastDigest' \in Checkpoint \cup {None}
      BY <1>1, <1>3, <1>4
    <2> QED BY <1>1, <2>1, <2>2, ClearAttestationsType
            DEF TypeOK, AttsType, LadderType, config, cursors
  <1>8. CheckpointIndex'
    BY <1>1, <1>2, <1>6 DEF LadderInv, CheckpointIndex, cursors
  <1>9. LadderTop'
    <2>1. \A h \in DOMAIN Checkpoints' : h > height =>
              compute_block_index_for(h) >= compute_block_index_for(height) + BucketSize
      BY <1>1, <1>2, <1>6, PurgeFacts DEF gone
    <2>2. compute_block_index_for(height) < compute_block_index_for(height) + BucketSize
      BY <1>2, BucketType
    <2> QED BY <1>1, <1>2, <1>3, <1>4, <1>5, <1>6, <2>1, <2>2 DEF LadderTop
  <1> QED BY <1>7, <1>8, <1>9 DEF LadderInv

LEMMA PatchStep ==
    ASSUME LadderInv, NEW wipe_suffix \in BOOLEAN, NEW batch \in Batches,
           forward_patch_checkpoints(wipe_suffix, batch)
    PROVE  LadderInv'
  <1> DEFINE tip == Max(DOMAIN batch)
             wiped == IF wipe_suffix THEN purge_bucket_above(tip) ELSE {}
             next == compute_block_index_for(tip) + BucketSize
             kept == Without(Checkpoints, wiped)
             cp == [block_number |-> tip, digest |-> batch[tip]]
             last == LastCheckpoint.block_number
             state == [stop_height |-> last, next_pivot |-> next]
  <1>1. /\ TypeOK /\ Supported /\ CheckpointPruningState = None
        /\ ClearAttestations
        /\ LastDigest' = None
        /\ Checkpoints' = Insert(kept, batch)
        /\ CheckpointBuckets' = (CheckpointBuckets \ wiped) \cup DOMAIN batch
        /\ CheckpointPruningState' =
               IF wipe_suffix /\ LastCheckpoint # None /\ last >= next
               THEN state ELSE CheckpointPruningState
        /\ LastCheckpoint' = IF ~wipe_suffix /\ LastCheckpoint # None /\ last > tip
                             THEN LastCheckpoint ELSE cp
        /\ UNCHANGED <<Supported, config, cursors, AttestationsInBlock>>
    BY DEF LadderInv, forward_patch_checkpoints, do_forward_patch_checkpoints
  <1>2. /\ DOMAIN batch \subseteq Nat /\ batch \in [DOMAIN batch -> Digest]
        /\ tip \in DOMAIN batch /\ \A h \in DOMAIN batch : h <= tip
    BY BatchAssumption, MaxOfBatch
  <1> HIDE DEF tip
  <1>3. /\ tip \in Nat /\ batch[tip] \in Digest
        /\ next \in Nat /\ compute_block_index_for(tip) < next
        /\ CheckpointBuckets = DOMAIN Checkpoints
        /\ DOMAIN Checkpoints \subseteq Nat
    BY <1>1, <1>2, BucketType, BucketAssumption, SMTT(30) DEF LadderInv, CheckpointIndex, TypeOK
  <1>4. LastCheckpoint # None =>
            /\ last \in Nat /\ last \in DOMAIN Checkpoints
            /\ Checkpoints[last] = LastCheckpoint.digest
            /\ \A h \in DOMAIN Checkpoints : h <= last
    BY <1>1, <1>3 DEF LadderInv, LadderTop, TypeOK, Checkpoint
  <1>5. LastCheckpoint = None => DOMAIN Checkpoints = {}
    BY <1>1 DEF LadderInv, LadderTop
  <1>6. cp \in Checkpoint /\ cp # None
    BY <1>3, NoneAssumption DEF Checkpoint
  <1>7. LastCheckpoint # None => state \in PruningState /\ state # None
    BY <1>3, <1>4, NoneAssumption DEF PruningState
  <1> HIDE DEF wiped, next
  <1>8. /\ DOMAIN kept = DOMAIN Checkpoints \ wiped
        /\ kept \in [DOMAIN kept -> Digest]
        /\ \A h \in DOMAIN kept : kept[h] = Checkpoints[h]
    BY <1>1, WithoutFacts, WithoutType, Zenon DEF TypeOK
  <1> HIDE DEF kept
  <1>9. /\ DOMAIN Checkpoints' = (DOMAIN Checkpoints \ wiped) \cup DOMAIN batch
        /\ Checkpoints' \in [DOMAIN Checkpoints' -> Digest]
        /\ Checkpoints'[tip] = batch[tip]
        /\ \A h \in (DOMAIN Checkpoints \ wiped) \ DOMAIN batch : Checkpoints'[h] = Checkpoints[h]
    BY <1>1, <1>2, <1>8 DEF Insert
  <1>10. TypeOK'
    <2>1. LastCheckpoint' \in Checkpoint \cup {None}
      BY <1>1, <1>6 DEF TypeOK
    <2>2. CheckpointPruningState' \in PruningState \cup {None}
      BY <1>1, <1>7
    <2>3. LadderType'
      BY <1>1, <1>2, <1>3, <1>9, <2>1 DEF LadderType
    <2> QED BY <1>1, <2>2, <2>3, ClearAttestationsType, SMTT(30)
            DEF TypeOK, AttsType, LadderType, config, cursors
  <1>11. CheckpointIndex'
    BY <1>1, <1>3, <1>9 DEF LadderInv, CheckpointIndex, cursors
  <1>12. LadderTop'
    <2>1. CASE ~wipe_suffix /\ LastCheckpoint # None /\ last > tip
      <3>1. LastCheckpoint' = LastCheckpoint /\ CheckpointPruningState' = None /\ wiped = {}
        BY <1>1, <2>1 DEF wiped
      <3>2. last \notin DOMAIN batch
        BY <1>2, <1>3, <1>4, <2>1
      <3>3. \A h \in DOMAIN Checkpoints' : h <= last
        BY <1>2, <1>3, <1>4, <1>9, <2>1, <3>1
      <3> QED BY <1>3, <1>4, <1>9, <1>10, <2>1, <3>1, <3>2, <3>3, SMTT(30) DEF LadderTop, TypeOK
    <2>2. CASE ~(~wipe_suffix /\ LastCheckpoint # None /\ last > tip)
      <3>1. LastCheckpoint' = cp
        BY <1>1, <2>2
      <3>2. CheckpointPruningState' # None => compute_block_index_for(tip) < CheckpointPruningState'.next_pivot
        BY <1>1, <1>3
      <3>3. \A h \in DOMAIN Checkpoints' : h > tip =>
                /\ CheckpointPruningState' # None
                /\ compute_block_index_for(h) >= CheckpointPruningState'.next_pivot
                /\ h <= CheckpointPruningState'.stop_height
        <4> SUFFICES ASSUME NEW h \in DOMAIN Checkpoints', h > tip
                     PROVE  /\ CheckpointPruningState' # None
                            /\ compute_block_index_for(h) >= CheckpointPruningState'.next_pivot
                            /\ h <= CheckpointPruningState'.stop_height
          OBVIOUS
        <4>1. h \in DOMAIN Checkpoints \ wiped /\ h \in Nat
          BY <1>2, <1>3, <1>9
        <4>2. LastCheckpoint # None /\ h <= last
          BY <1>4, <1>5, <4>1
        <4>3. wipe_suffix
          BY <1>3, <1>4, <2>2, <4>1, <4>2, SMTT(30)
        <4>4. compute_block_index_for(h) >= next
          BY <1>1, <1>3, <4>1, <4>3, PurgeFacts DEF wiped, next
        <4>5. last >= next
          BY <1>3, <1>4, <4>1, <4>2, <4>4, BucketType, SMTT(30)
        <4>6. CheckpointPruningState' = state
          BY <1>1, <4>2, <4>3, <4>5
        <4> QED BY <1>7, <4>2, <4>4, <4>6
      <3> QED BY <1>2, <1>6, <1>9, <3>1, <3>2, <3>3, SMTT(30) DEF LadderTop
    <2> QED BY <2>1, <2>2
  <1> QED BY <1>10, <1>11, <1>12, SMTT(30) DEF LadderInv

LEMMA ImportStep ==
    ASSUME LadderInv, NEW batch \in Batches, do_import_checkpoints(batch)
    PROVE  LadderInv'
  <1> DEFINE imported == Importable(batch)
             tip == Max(DOMAIN imported)
             cp == [block_number |-> tip, digest |-> imported[tip]]
             last == LastCheckpoint.block_number
  <1>1. /\ TypeOK /\ Supported
        /\ WriteCheckpoints(imported)
        /\ LastCheckpoint' = IF LastCheckpoint = None /\ DOMAIN imported # {}
                             THEN cp ELSE LastCheckpoint
        /\ UNCHANGED <<Supported, config, Attestations, LastDigest, queues, cleanup,
                       AttestationsInBlock>>
    BY DEF LadderInv, do_import_checkpoints
  <1>2. /\ DOMAIN batch \subseteq Nat /\ batch \in [DOMAIN batch -> Digest]
        /\ \E t \in DOMAIN batch : \A h \in DOMAIN batch : h <= t
    BY BatchAssumption
  <1>3. /\ DOMAIN imported \subseteq DOMAIN batch \ DOMAIN Checkpoints
        /\ imported \in [DOMAIN imported -> Digest]
        /\ LastCheckpoint # None => \A h \in DOMAIN imported : h < last
    BY <1>2, SMTT(30) DEF Importable
  <1>4. LastCheckpoint = None => /\ DOMAIN imported = DOMAIN batch
                                 /\ DOMAIN Checkpoints = {} /\ CheckpointPruningState = None
    BY <1>1, Zenon DEF LadderInv, LadderTop, Importable
  <1> HIDE DEF imported
  <1>5. /\ DOMAIN Checkpoints' = DOMAIN Checkpoints \cup DOMAIN imported
        /\ DOMAIN Checkpoints' \subseteq Nat
        /\ Checkpoints' \in [DOMAIN Checkpoints' -> Digest]
        /\ CheckpointBuckets' = CheckpointBuckets \cup DOMAIN imported
        /\ CheckpointBuckets' \subseteq Nat
        /\ \A t \in DOMAIN imported : Checkpoints'[t] = imported[t]
        /\ \A t \in DOMAIN Checkpoints \ DOMAIN imported : Checkpoints'[t] = Checkpoints[t]
    <2>1. DOMAIN imported \subseteq Nat
      BY <1>2, <1>3
    <2> QED BY <1>1, <1>3, <2>1, WriteType, Zenon
  <1>6. CheckpointIndex'
    BY <1>1, <1>5 DEF LadderInv, CheckpointIndex, cleanup, cursors
  <1>7. LadderType' /\ LadderTop'
    <2>1. CASE LastCheckpoint = None
      <3>1. /\ tip \in DOMAIN imported /\ \A h \in DOMAIN imported : h <= tip
            /\ DOMAIN imported # {}
        BY <1>2, <1>4, <2>1, MaxOfBatch
      <3> HIDE DEF tip
      <3>2. LastCheckpoint' = cp /\ CheckpointPruningState' = None
        BY <1>1, <1>4, <2>1, <3>1 DEF cleanup
      <3>3. cp \in Checkpoint /\ cp # None
        BY <1>2, <1>3, <3>1, NoneAssumption DEF Checkpoint
      <3>4. LadderType'
        BY <1>5, <3>2, <3>3 DEF LadderType
      <3>5. LadderTop'
        BY <1>2, <1>3, <1>4, <1>5, <2>1, <3>1, <3>2, <3>3 DEF LadderTop
      <3> QED BY <3>4, <3>5
    <2>2. CASE LastCheckpoint # None
      <3>1. LastCheckpoint' = LastCheckpoint /\ CheckpointPruningState' = CheckpointPruningState
        BY <1>1, <2>2 DEF cleanup
      <3>2. last \in Nat
        BY <1>1, <2>2 DEF TypeOK, Checkpoint
      <3>3. LadderType'
        BY <1>1, <1>5, <3>1, SMTT(30) DEF LadderType, TypeOK
      <3>4. LadderTop'
        BY <1>1, <1>2, <1>3, <1>5, <2>2, <3>1, <3>2, SMTT(30) DEF LadderInv, LadderTop
      <3> QED BY <3>3, <3>4
    <2> QED BY <2>1, <2>2
  <1>8. TypeOK'
    BY <1>1, <1>7 DEF TypeOK, LadderType, config, queues, cleanup, cursors
  <1> QED BY <1>6, <1>7, <1>8 DEF LadderInv

LEMMA RemoveStep ==
    ASSUME LadderInv, NEW remove_checkpoints \in BOOLEAN, remove_chain(remove_checkpoints)
    PROVE  LadderInv'
  <1>1. TypeOK /\ ClearAttestations /\ Supported' = FALSE
    BY DEF LadderInv, remove_chain
  <1>2. /\ DOMAIN Checkpoints' \subseteq Nat
        /\ Checkpoints' \in [DOMAIN Checkpoints' -> Digest]
        /\ CheckpointClearingCursor' \in BOOLEAN
        /\ CheckpointBuckets' \subseteq Nat
        /\ BucketClearingCursor' \in BOOLEAN
    <2>1. CASE remove_checkpoints
      <3>1. PICK cleared \in SUBSET DOMAIN Checkpoints, cursor \in BOOLEAN :
                Checkpoints' = Without(Checkpoints, cleared) /\ CheckpointClearingCursor' = cursor
        BY <2>1 DEF remove_chain
      <3>2. PICK rows \in SUBSET CheckpointBuckets, cursor2 \in BOOLEAN :
                CheckpointBuckets' = CheckpointBuckets \ rows /\ BucketClearingCursor' = cursor2
        BY <2>1 DEF remove_chain
      <3>3. CheckpointClearingCursor' \in BOOLEAN /\ BucketClearingCursor' \in BOOLEAN
        BY <3>1, <3>2
      <3>4. DOMAIN Checkpoints' \subseteq Nat /\ Checkpoints' \in [DOMAIN Checkpoints' -> Digest]
        BY <1>1, <3>1, WithoutFacts, WithoutType, Zenon DEF TypeOK
      <3>5. CheckpointBuckets' \subseteq Nat
        BY <1>1, <3>2 DEF TypeOK
      <3> QED BY <3>3, <3>4, <3>5
    <2>2. CASE ~remove_checkpoints
      BY <1>1, <2>2 DEF remove_chain, cursors, TypeOK
    <2> QED BY <2>1, <2>2
  <1>3. TypeOK'
    <2>1. /\ Genesis' \in Nat
          /\ ChainAttestationInterval' \in Nat \ {0}
          /\ AttestationCheckpointInterval' \in Nat \ {0}
          /\ MaxCatchup' \in Nat \ {0}
          /\ PendingAttestationInterval' = None /\ PendingMaxCatchup' = None
          /\ LastDigest' = None /\ LastCheckpoint' = None /\ CheckpointPruningState' = None
          /\ AttestationsInBlock' = 0
      BY <1>1, ConfigAssumption DEF remove_chain, TypeOK
    <2> QED BY <1>1, <1>2, <2>1, ClearAttestationsType, Zenon DEF TypeOK, AttsType
  <1>4. CheckpointIndex' /\ LadderTop'
    BY <1>1 DEF CheckpointIndex, LadderTop
  <1> QED BY <1>3, <1>4 DEF LadderInv

\* A pruning pass deletes rows of pivots from next_pivot on only, keeps no row of
\* a pivot it has passed, and ends the pruning when none can be left.
LEMMA PruneFacts ==
    ASSUME TypeOK, CheckpointPruningState # None, NEW pruned \in SUBSET CheckpointBuckets,
           on_init_prune_checkpoints(pruned)
    PROVE  LET state == CheckpointPruningState
           IN  /\ \A h \in pruned : compute_block_index_for(h) >= state.next_pivot
               /\ \/ /\ CheckpointPruningState' = None
                     /\ \A h \in CheckpointBuckets \ pruned :
                            compute_block_index_for(h) >= state.next_pivot => h > state.stop_height
                  \/ /\ CheckpointPruningState' \in PruningState
                     /\ CheckpointPruningState' # None
                     /\ CheckpointPruningState'.stop_height = state.stop_height
                     /\ CheckpointPruningState'.next_pivot >= state.next_pivot
                     /\ \A h \in CheckpointBuckets \ pruned :
                            compute_block_index_for(h) >= state.next_pivot =>
                                compute_block_index_for(h) >= CheckpointPruningState'.next_pivot
  <1> DEFINE state == CheckpointPruningState
  <1>1. PICK n \in 0..PrunePivots : prune_checkpoints_impl(n, pruned)
    BY DEF on_init_prune_checkpoints
  <1> DEFINE next == state.next_pivot + n * BucketSize
  <1>2. /\ state \in PruningState /\ state.next_pivot \in Nat /\ state.stop_height \in Nat
        /\ n \in Nat /\ BucketSize \in Nat \ {0} /\ n * BucketSize \in Nat
    BY <1>1, BucketAssumption, ClearAssumption DEF TypeOK, PruningState
  <1>3. \A h \in CheckpointBuckets : /\ h \in Nat
                                     /\ compute_block_index_for(h) \in Nat
                                     /\ compute_block_index_for(h) <= h
    BY BucketType DEF TypeOK
  <1>4. PivotRows(n) \subseteq pruned
    BY <1>1 DEF prune_checkpoints_impl
  <1>5. \A h \in CheckpointBuckets \ pruned :
            compute_block_index_for(h) >= state.next_pivot => compute_block_index_for(h) >= next
    BY <1>2, <1>3, <1>4 DEF PivotRows
  <1>6. \/ CheckpointPruningState' = None /\ next > state.stop_height /\ pruned = PivotRows(n)
        \/ /\ CheckpointPruningState' = [state EXCEPT !.next_pivot = next]
           /\ pruned \subseteq PivotRows(n + 1)
    BY <1>1 DEF prune_checkpoints_impl
  <1>7. \A h \in pruned : compute_block_index_for(h) >= state.next_pivot
    BY <1>6 DEF PivotRows
  <1>8. next \in Nat /\ next >= state.next_pivot
    BY <1>2
  <1> HIDE DEF next
  <1>9. CASE CheckpointPruningState' = None /\ next > state.stop_height
    <2>1. \A h \in CheckpointBuckets \ pruned :
              compute_block_index_for(h) >= state.next_pivot => h > state.stop_height
      BY <1>2, <1>3, <1>5, <1>8, <1>9
    <2> QED BY <1>7, <1>9, <2>1
  <1>10. CASE CheckpointPruningState' = [state EXCEPT !.next_pivot = next]
    <2>1. /\ CheckpointPruningState' \in PruningState
          /\ CheckpointPruningState'.stop_height = state.stop_height
          /\ CheckpointPruningState'.next_pivot = next
      BY <1>2, <1>8, <1>10 DEF PruningState
    <2>2. CheckpointPruningState' # None
      BY <2>1, NoneAssumption DEF PruningState
    <2> QED BY <1>5, <1>7, <1>8, <2>1, <2>2
  <1> QED BY <1>6, <1>9, <1>10

LEMMA InitializeStep == LadderInv /\ on_initialize => LadderInv'
  <1> SUFFICES ASSUME LadderInv, on_initialize PROVE LadderInv'
    OBVIOUS
  <1>1. TypeOK
    BY DEF LadderInv
  <1>2. PICK pruned \in SUBSET CheckpointBuckets :
        /\ on_init_prune_checkpoints(pruned)
        /\ \E cleared \in SUBSET (DOMAIN Checkpoints \ pruned) :
               /\ ClearBatchOf(DOMAIN Checkpoints \ pruned, CheckpointClearingCursor, cleared)
               /\ Checkpoints' = Without(Checkpoints, pruned \cup cleared)
               /\ CheckpointClearingCursor' = (CheckpointClearingCursor /\ DOMAIN Checkpoints' # {})
        /\ \E cleared \in SUBSET (CheckpointBuckets \ pruned) :
               /\ ClearBatchOf(CheckpointBuckets \ pruned, BucketClearingCursor, cleared)
               /\ CheckpointBuckets' = CheckpointBuckets \ (pruned \cup cleared)
               /\ BucketClearingCursor' = (BucketClearingCursor /\ CheckpointBuckets' # {})
        /\ \E cleared \in SUBSET DOMAIN Attestations :
               /\ Attestations' = Without(Attestations, cleared)
               /\ AttestationClearingCursor' =
                      (AttestationClearingCursor /\ DOMAIN Attestations' # {})
        /\ AttestationsInBlock' = 0
        /\ UNCHANGED <<Supported, config, LastDigest, queues, LastCheckpoint>>
    BY Zenon DEF on_initialize
  <1>3. PICK cpGone \in SUBSET (DOMAIN Checkpoints \ pruned) :
            /\ ClearBatchOf(DOMAIN Checkpoints \ pruned, CheckpointClearingCursor, cpGone)
            /\ Checkpoints' = Without(Checkpoints, pruned \cup cpGone)
            /\ CheckpointClearingCursor' = (CheckpointClearingCursor /\ DOMAIN Checkpoints' # {})
    BY <1>2, Zenon
  <1>4. PICK rowsGone \in SUBSET (CheckpointBuckets \ pruned) :
            /\ ClearBatchOf(CheckpointBuckets \ pruned, BucketClearingCursor, rowsGone)
            /\ CheckpointBuckets' = CheckpointBuckets \ (pruned \cup rowsGone)
            /\ BucketClearingCursor' = (BucketClearingCursor /\ CheckpointBuckets' # {})
    BY <1>2
  <1>5. PICK attsGone \in SUBSET DOMAIN Attestations :
            /\ Attestations' = Without(Attestations, attsGone)
            /\ AttestationClearingCursor' = (AttestationClearingCursor /\ DOMAIN Attestations' # {})
    BY <1>2
  <1>6. AttsType(Attestations')
    <2>1. DOMAIN Attestations \subseteq Digest /\ Attestations \in [DOMAIN Attestations -> Attestation]
      BY <1>1 DEF TypeOK
    <2> QED BY <1>5, <2>1, WithoutFacts, WithoutType, Zenon DEF AttsType
  <1>7. /\ DOMAIN Checkpoints' = DOMAIN Checkpoints \ (pruned \cup cpGone)
        /\ \A h \in DOMAIN Checkpoints' : Checkpoints'[h] = Checkpoints[h]
        /\ DOMAIN Checkpoints' \subseteq Nat
        /\ Checkpoints' \in [DOMAIN Checkpoints' -> Digest]
        /\ CheckpointBuckets' \subseteq Nat
    <2>1. DOMAIN Checkpoints \subseteq Nat /\ Checkpoints \in [DOMAIN Checkpoints -> Digest]
      BY <1>1 DEF TypeOK
    <2>2. CheckpointBuckets' \subseteq Nat
      BY <1>1, <1>4 DEF TypeOK
    <2> DEFINE gone == pruned \cup cpGone
    <2>3. Checkpoints' = Without(Checkpoints, gone)
      BY <1>3
    <2> HIDE DEF gone
    <2>4. /\ DOMAIN Checkpoints' = DOMAIN Checkpoints \ gone
          /\ \A h \in DOMAIN Checkpoints \ gone : Checkpoints'[h] = Checkpoints[h]
      <3>1. /\ DOMAIN Without(Checkpoints, gone) = DOMAIN Checkpoints \ gone
            /\ \A h \in DOMAIN Checkpoints \ gone :
                   Without(Checkpoints, gone)[h] = Checkpoints[h]
        BY WithoutFacts, Zenon
      <3> QED BY <2>3, <3>1
    <2>5. Checkpoints' \in [DOMAIN Checkpoints' -> Digest]
      BY <2>1, <2>3, WithoutType
    <2> QED BY <2>1, <2>2, <2>4, <2>5 DEF gone
  <1>8. /\ CheckpointClearingCursor' \in BOOLEAN
        /\ BucketClearingCursor' \in BOOLEAN
        /\ AttestationClearingCursor' \in BOOLEAN
    BY <1>3, <1>4, <1>5
  <1>9. CheckpointPruningState' \in PruningState \cup {None}
    <2>1. CASE CheckpointPruningState = None
      BY <1>2, <2>1 DEF on_init_prune_checkpoints
    <2>2. CASE CheckpointPruningState # None
      BY <1>1, <1>2, <2>2, PruneFacts
    <2> QED BY <2>1, <2>2
  <1>10. TypeOK'
    BY <1>1, <1>2, <1>6, <1>7, <1>8, <1>9, Zenon DEF TypeOK, AttsType, config, queues
  <1>11. CASE ~Supported
    <2>1. CheckpointIndex' /\ LadderTop'
      BY <1>2, <1>11, Zenon DEF CheckpointIndex, LadderTop
    <2> QED BY <1>10, <2>1 DEF LadderInv
  <1>12. CASE Supported
    <2>1. /\ CheckpointBuckets = DOMAIN Checkpoints
          /\ ~CheckpointClearingCursor /\ ~BucketClearingCursor
      BY <1>12 DEF LadderInv, CheckpointIndex
    <2>2. cpGone = {} /\ rowsGone = {}
      BY <1>3, <1>4, <2>1 DEF ClearBatchOf
    <2>3. /\ DOMAIN Checkpoints' = DOMAIN Checkpoints \ pruned
          /\ CheckpointBuckets' = CheckpointBuckets \ pruned
      BY <1>4, <1>7, <2>2, SMTT(30)
    <2>4. CheckpointIndex'
      BY <1>3, <1>4, <2>1, <2>3, Zenon DEF CheckpointIndex
    <2>5. LadderTop'
      <3>1. CASE CheckpointPruningState = None
        <4>1. pruned = {} /\ CheckpointPruningState' = None
          BY <1>2, <3>1 DEF on_init_prune_checkpoints
        <4> QED BY <1>2, <1>7, <1>12, <2>3, <3>1, <4>1 DEF LadderInv, LadderTop
      <3>2. CASE CheckpointPruningState # None
        <4> DEFINE last == LastCheckpoint.block_number
        <4>1. /\ LastCheckpoint # None /\ last \in DOMAIN Checkpoints
              /\ Checkpoints[last] = LastCheckpoint.digest
              /\ compute_block_index_for(last) < CheckpointPruningState.next_pivot
              /\ \A h \in DOMAIN Checkpoints : h > last =>
                    /\ compute_block_index_for(h) >= CheckpointPruningState.next_pivot
                    /\ h <= CheckpointPruningState.stop_height
          BY <1>12, <3>2 DEF LadderInv, LadderTop
        <4>2. /\ CheckpointPruningState.next_pivot \in Nat
              /\ CheckpointPruningState.stop_height \in Nat
              /\ last \in Nat /\ compute_block_index_for(last) \in Nat
              /\ \A h \in DOMAIN Checkpoints : h \in Nat /\ compute_block_index_for(h) \in Nat
          BY <1>1, <3>2, <4>1, BucketType DEF TypeOK, PruningState
        <4>3. last \notin pruned
          <5>1. \A h \in pruned :
                    compute_block_index_for(h) >= CheckpointPruningState.next_pivot
            BY <1>1, <1>2, <3>2, PruneFacts
          <5> QED BY <4>1, <4>2, <5>1
        <4>4. last \in DOMAIN Checkpoints' /\ Checkpoints'[last] = LastCheckpoint.digest
          BY <1>7, <2>3, <4>1, <4>3, SMTT(30)
        <4>5. CASE CheckpointPruningState' = None
          <5>1. \A h \in CheckpointBuckets \ pruned :
                    compute_block_index_for(h) >= CheckpointPruningState.next_pivot
                        => h > CheckpointPruningState.stop_height
            BY <1>1, <1>2, <3>2, <4>5, PruneFacts, SMTT(30)
          <5>2. \A h \in DOMAIN Checkpoints' : ~(h > last)
            BY <2>1, <2>3, <4>1, <4>2, <5>1, SMTT(30)
          <5> QED BY <1>2, <4>1, <4>4, <4>5, <5>2, Zenon DEF LadderTop
        <4>6. CASE CheckpointPruningState' # None
          <5>1. /\ CheckpointPruningState' \in PruningState
                /\ CheckpointPruningState'.stop_height = CheckpointPruningState.stop_height
                /\ CheckpointPruningState'.next_pivot >= CheckpointPruningState.next_pivot
                /\ \A h \in CheckpointBuckets \ pruned :
                    compute_block_index_for(h) >= CheckpointPruningState.next_pivot
                        => compute_block_index_for(h) >= CheckpointPruningState'.next_pivot
            BY <1>1, <1>2, <3>2, <4>6, PruneFacts
          <5>2. CheckpointPruningState'.next_pivot \in Nat
            BY <5>1 DEF PruningState
          <5>3. compute_block_index_for(last) < CheckpointPruningState'.next_pivot
            BY <4>1, <4>2, <5>1, <5>2, SMTT(30)
          <5>4. \A h \in DOMAIN Checkpoints' : h > last =>
                    /\ compute_block_index_for(h) >= CheckpointPruningState'.next_pivot
                    /\ h <= CheckpointPruningState'.stop_height
            BY <2>1, <2>3, <4>1, <4>2, <5>1
          <5> QED BY <1>2, <4>1, <4>4, <4>6, <5>3, <5>4, SMTT(30) DEF LadderTop
        <4> QED BY <4>5, <4>6
      <3> QED BY <3>1, <3>2, SMTT(30)
    <2> QED BY <1>10, <2>4, <2>5 DEF LadderInv
  <1> QED BY <1>11, <1>12

LEMMA SettingsStep ==
    ASSUME LadderInv,
           \/ \E i \in Intervals : set_chain_attestation_interval(i)
           \/ \E m \in CatchupBounds : set_max_catchup(m)
           \/ \E c \in CheckpointIntervals : set_attestations_per_checkpoint(c)
           \/ \E g \in GenesisHeights : set_attestation_chain_genesis_block_number(g)
           \/ apply_interval_updates
           \/ UNCHANGED vars
    PROVE  LadderInv'
  <1>1. UNCHANGED <<Supported, Attestations, LastDigest, queues, ladder, cleanup,
                    AttestationsInBlock>>
    BY DEF set_chain_attestation_interval, set_max_catchup, set_attestations_per_checkpoint,
           set_attestation_chain_genesis_block_number, apply_interval_updates, vars
  <1>2. TypeOK
    BY SMTT(30) DEF LadderInv
  <1>3. /\ Genesis' \in Nat
        /\ ChainAttestationInterval' \in Nat \ {0}
        /\ AttestationCheckpointInterval' \in Nat \ {0}
        /\ MaxCatchup' \in Nat \ {0}
        /\ PendingAttestationInterval' \in (Nat \ {0}) \cup {None}
        /\ PendingMaxCatchup' \in (Nat \ {0}) \cup {None}
    BY <1>2, ConfigAssumption, HeightsAssumption, SMTT(30)
    DEF TypeOK, set_chain_attestation_interval, set_max_catchup, set_attestations_per_checkpoint,
        set_attestation_chain_genesis_block_number, apply_interval_updates, vars, config,
        effective_attestation_interval, effective_max_catchup
  <1>4. TypeOK'
    BY <1>1, <1>2, <1>3, SMTT(30) DEF TypeOK, queues, ladder, cleanup, cursors
  <1>5. CheckpointIndex' /\ LadderTop'
    BY <1>1, Zenon DEF LadderInv, CheckpointIndex, LadderTop, ladder, cleanup, cursors,
                compute_block_index_for
  <1> QED BY <1>4, <1>5 DEF LadderInv

LEMMA LadderInit == Init => LadderInv
  <1> SUFFICES ASSUME Init PROVE LadderInv
    OBVIOUS
  <1>1. /\ CheckpointIndex
        /\ LadderTop
    BY DEF Init, CheckpointIndex, LadderTop
  <1> QED BY <1>1, InitType DEF LadderInv

LEMMA LadderNext == LadderInv /\ [Next]_vars => LadderInv'
  <1> SUFFICES ASSUME LadderInv, [Next]_vars PROVE LadderInv'
    OBVIOUS
  <1>1. CASE commit_attestation
    BY <1>1, CommitStep
  <1>2. CASE on_initialize
    BY <1>2, InitializeStep
  <1>3. CASE \E h \in DOMAIN Checkpoints : revert_to(h)
    BY <1>3, RevertStep
  <1>4. CASE \E wipe_suffix \in BOOLEAN, b \in Batches : forward_patch_checkpoints(wipe_suffix, b)
    BY <1>4, PatchStep
  <1>5. CASE \E b \in Batches : do_import_checkpoints(b)
    BY <1>5, ImportStep
  <1>6. CASE \E remove_checkpoints \in Removals : remove_chain(remove_checkpoints)
    BY <1>6, RemoveStep, RemovalsAssumption
  <1>7. CASE \/ \E i \in Intervals : set_chain_attestation_interval(i)
             \/ \E m \in CatchupBounds : set_max_catchup(m)
             \/ \E c \in CheckpointIntervals : set_attestations_per_checkpoint(c)
             \/ \E g \in GenesisHeights : set_attestation_chain_genesis_block_number(g)
             \/ apply_interval_updates
             \/ UNCHANGED vars
    BY <1>7, SettingsStep
  <1> QED BY <1>1, <1>2, <1>3, <1>4, <1>5, <1>6, <1>7 DEF Next

-----------------------------------------------------------------------------
(* Theorems *)

\* The inductive invariant: types, the bucket index and the top of the ladder.
THEOREM LadderInvariant == Spec => []LadderInv
  <1>1. Init => LadderInv
    BY LadderInit
  <1>2. LadderInv /\ [Next]_vars => LadderInv'
    BY LadderNext
  <1> QED BY <1>1, <1>2, PTL DEF Spec

\* Every storage item of the chain keeps a value of its type.
THEOREM TypeCorrect == Spec => []TypeOK
  <1>1. LadderInv => TypeOK
    BY DEF LadderInv
  <1> QED BY <1>1, LadderInvariant, PTL

\* The bucket index of a supported chain lists exactly its checkpoints, whatever
\* commits, reversions, patches, imports and pruning passes are interleaved.
THEOREM BucketsMirrorCheckpoints == Spec => []CheckpointIndex
  <1>1. LadderInv => CheckpointIndex
    BY DEF LadderInv
  <1> QED BY <1>1, LadderInvariant, PTL

\* LastCheckpoint is the highest checkpoint that the pruning pass is not going
\* to delete.
THEOREM LastCheckpointOnTop == Spec => []LadderTop
  <1>1. LadderInv => LadderTop
    BY DEF LadderInv
  <1> QED BY <1>1, LadderInvariant, PTL

\* checkpoint_if_stable never serves a checkpoint above LastCheckpoint: not
\* during a reversion, and not after it.
THEOREM StableReadsAreCurrent == Spec => []NoStaleAnchor
  <1>1. LadderInv => NoStaleAnchor
    <2> SUFFICES ASSUME LadderInv, Supported, NEW h \in DOMAIN Checkpoints,
                        checkpoint_if_stable(h) # None
                 PROVE  LastCheckpoint # None /\ h <= LastCheckpoint.block_number
      BY DEF NoStaleAnchor
    <2>1. /\ LastCheckpoint # None
          /\ h > LastCheckpoint.block_number =>
                /\ CheckpointPruningState # None
                /\ compute_block_index_for(h) >= CheckpointPruningState.next_pivot
      BY DEF LadderInv, LadderTop
    <2>2. h \in Nat /\ LastCheckpoint.block_number \in Nat
      BY <2>1 DEF LadderInv, TypeOK, Checkpoint
    <2>3. ~(h > LastCheckpoint.block_number)
      BY <2>1 DEF checkpoint_if_stable
    <2> QED BY <2>1, <2>2, <2>3
  <1> QED BY <1>1, LadderInvariant, PTL

=============================================================================
