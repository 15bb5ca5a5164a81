---------------------- MODULE AttestationStreamProofs -----------------------
(***************************************************************************)
(* Proofs about AttestationStream, for every interval, catch-up bound and  *)
(* source, and any number of rebuilds.                                     *)
(***************************************************************************)
EXTENDS AttestationStream, TLAPS

(* The range lies in the run of cached blocks and the next root continues  *)
(* the run (or is still behind the anchor, while nothing is cached).  The  *)
(* catch-up bound limits the range except when finality is reported again  *)
(* at the anchor of a full cache, and then nothing is fetched.             *)
RangeInv ==
    /\ prev <= lo /\ lo <= hi
    /\ Backpressured \/ hi <= lo + max_catchup
    /\ fetching => hi <= prev + max_catchup
    /\ hi <= prev + Len(cache)
    /\ cursor <= hi
    /\ Len(cache) <= max_catchup + 1
    /\ IF cache = <<>> THEN root_next <= prev + 1
                       ELSE root_next = prev + Len(cache) + 1

(* What was yielded lies in the range or below it, above the cursor. *)
SentInv == \A s \in sent : s <= hi /\ (s > lo => s > cursor)

StreamInv == TypeOK /\ ProofIsAnchored /\ RangeInv /\ SentInv

-----------------------------------------------------------------------------
LEMMA FloorFacts ==
    ASSUME NEW h \in Nat, NEW i \in Nat \ {0}
    PROVE  /\ Floor(h, i) \in Nat
           /\ Floor(h, i) <= h
           /\ h < Floor(h, i) + i
  <1>1. h % i \in 0 .. i - 1
    OBVIOUS
  <1>2. h % i <= h
    OBVIOUS
  <1> QED BY <1>1, <1>2 DEF Floor

LEMMA AlignedFacts ==
    ASSUME NEW m \in Nat, NEW i \in Nat \ {0}
    PROVE  Aligned(m, i) \in Nat \ {0}
  <1>1. m \div i \in Nat
    OBVIOUS
  <1>2. PICK k \in Nat \ {0} : k = MaxOf(m \div i, 1)
    BY <1>1 DEF MaxOf
  <1>3. i * k \in Nat \ {0}
    OBVIOUS
  <1> QED BY <1>2, <1>3 DEF Aligned

LEMMA InitInv == ASSUME Init PROVE StreamInv
  <1>1. max_catchup \in Nat \ {0}
    BY AlignedFacts, StreamAssumption DEF Init
  <1>2. TypeOK
    <2>1. prev \in Nat /\ interval \in Nat \ {0}
      BY StreamAssumption DEF Init
    <2>2. root_next \in Nat
      BY <2>1 DEF Init
    <2>3. cache \in Seq(Nat) /\ sent \subseteq Nat
      BY DEF Init
    <2>4. tip_last \in Nat \cup {None} /\ fetching \in BOOLEAN
      BY Zenon DEF Init
    <2> QED BY <1>1, <2>1, <2>2, <2>3, <2>4 DEF Init, TypeOK
  <1>3. Len(cache) = 0
    BY DEF Init
  <1> QED BY <1>1, <1>2, <1>3, StreamAssumption
      DEF Init, StreamInv, ProofIsAnchored, RangeInv, SentInv, TypeOK

(* A rebuild leaves an empty cache and a range that is only its anchor. *)
LEMMA RebuildStep ==
    ASSUME StreamInv, NEW p \in Nat, NEW i \in Nat \ {0}, NEW m \in Nat \ {0},
           NEW start \in Nat, start <= p + 1, Rebuild(p, i, m, start)
    PROVE  StreamInv'
  <1>1. Aligned(m, i) \in Nat \ {0}
    BY AlignedFacts
  <1>2. TypeOK'
    <2>1. cache' \in Seq(Nat) /\ sent' \subseteq Nat
      BY DEF Rebuild
    <2>2. tip_last' \in Nat \cup {None} /\ fetching' \in BOOLEAN
      BY Zenon DEF Rebuild
    <2> QED BY <1>1, <2>1, <2>2 DEF Rebuild, StreamInv, TypeOK
  <1>3. Len(cache') = 0
    BY DEF Rebuild
  <1> QED BY <1>1, <1>2, <1>3
      DEF Rebuild, StreamInv, ProofIsAnchored, RangeInv, SentInv, TypeOK

LEMMA EmitStep == ASSUME StreamInv, emit PROVE StreamInv'
  <1>1. Cursor = cursor /\ cursor > lo /\ cursor >= prev + interval
    BY DEF emit, Cursor, StreamInv, TypeOK
  <1>2. cursor' = cursor - interval /\ cursor' \in Nat /\ cursor' < cursor
    BY <1>1 DEF emit, MaxOf, StreamInv, TypeOK
  <1>3. TypeOK'
    BY <1>1, <1>2 DEF emit, StreamInv, TypeOK, environment
  <1>4. SentInv'
    BY <1>1, <1>2 DEF emit, StreamInv, SentInv, RangeInv, TypeOK
  <1> QED BY <1>1, <1>2, <1>3, <1>4
      DEF emit, StreamInv, ProofIsAnchored, RangeInv, TypeOK, environment, Backpressured

(* A root that is cached continues the run. *)
LEMMA CachedFacts ==
    ASSUME StreamInv, NEW root \in BOOLEAN, root => has_space_left,
           NEW c, c = IF root /\ root_next > lo THEN Append(cache, root_next) ELSE cache,
           NEW n, n = IF root THEN root_next + 1 ELSE root_next
    PROVE  /\ c \in Seq(Nat) /\ n \in Nat
           /\ Len(c) >= Len(cache) /\ Len(c) <= max_catchup + 1
           /\ \A j \in 1 .. Len(c) : c[j] = prev + j
           /\ IF c = <<>> THEN n <= prev + 1 ELSE n = prev + Len(c) + 1
  <1> USE DEF StreamInv, TypeOK, RangeInv, ProofIsAnchored, has_space_left
  <1>1. CASE root /\ root_next > lo
    <2>1. root_next = prev + Len(cache) + 1
      <3>1. CASE cache = <<>>
        <4>1. Len(cache) = 0
          BY <3>1
        <4> QED BY <1>1, <3>1, <4>1
      <3>2. CASE cache # <<>>
        BY <3>2
      <3> QED BY <3>1, <3>2
    <2>2. c = Append(cache, root_next) /\ n = root_next + 1
      BY <1>1
    <2>3. c \in Seq(Nat) /\ Len(c) = Len(cache) + 1 /\ c # <<>>
      BY <2>2
    <2>4. \A j \in 1 .. Len(c) : c[j] = prev + j
      <3>1. \A j \in 1 .. Len(cache) : c[j] = cache[j]
        BY <2>2
      <3>2. c[Len(cache) + 1] = root_next
        BY <2>2
      <3>3. ASSUME NEW j \in 1 .. Len(c) PROVE c[j] = prev + j
        <4>1. j \in 1 .. Len(cache) \/ j = Len(cache) + 1
          BY <2>3
        <4>2. CASE j \in 1 .. Len(cache)
          BY <3>1, <4>2
        <4>3. CASE j = Len(cache) + 1
          BY <2>1, <3>2, <4>3
        <4> QED BY <4>1, <4>2, <4>3
      <3> QED BY <3>3
    <2>5. Len(c) <= max_catchup + 1
      BY <1>1, <2>3
    <2>6. n \in Nat /\ n = prev + Len(c) + 1
      BY <2>1, <2>2, <2>3
    <2>7. Len(c) >= Len(cache)
      BY <2>3
    <2> QED BY <2>3, <2>4, <2>5, <2>6, <2>7, Zenon
  <1>2. CASE ~(root /\ root_next > lo)
    <2>1. c = cache
      BY <1>2
    <2>2. IF c = <<>> THEN n <= prev + 1 ELSE n = prev + Len(c) + 1
      <3>1. CASE cache = <<>>
        <4>1. Len(cache) = 0
          BY <3>1
        <4> QED BY <1>2, <2>1, <3>1, <4>1
      <3>2. CASE cache # <<>>
        <4>1. root_next > lo
          BY <3>2
        <4> QED BY <1>2, <2>1, <3>2, <4>1
      <3> QED BY <3>1, <3>2
    <2>3. n \in Nat
      OBVIOUS
    <2> QED BY <2>1, <2>2, <2>3
  <1> QED BY <1>1, <1>2

(* A complete window ends past the last one, at a cached root. *)
LEMMA CompleteFacts ==
    ASSUME StreamInv, NEW c \in Seq(Nat), NEW t \in Nat,
           \A j \in 1 .. Len(c) : c[j] = prev + j,
           Complete(c, t), ~Backpressured
    PROVE  LET stop == MinOf(lo + max_catchup, t)
           IN /\ stop \in Nat
              /\ hi <= stop
              /\ stop <= hi + max_catchup
              /\ stop <= prev + Len(c)
  <1> DEFINE stop == MinOf(lo + max_catchup, t)
  <1>0. /\ lo \in Nat /\ hi \in Nat /\ prev \in Nat
        /\ interval \in Nat \ {0} /\ max_catchup \in Nat \ {0}
        /\ lo <= hi /\ hi <= lo + max_catchup
    BY DEF StreamInv, TypeOK, RangeInv
  <1>1. Target \in Nat /\ Target > hi
    <2>1. hi + interval \in Nat
      BY <1>0
    <2>2. Target \in Nat /\ hi + interval < Target + interval
      BY <1>0, <2>1, FloorFacts, Zenon DEF Target
    <2> QED BY <1>0, <2>2
  <1>2. t >= Target /\ ~missing_roots(c, t)
    BY <1>1 DEF Complete
  <1>3. stop \in Nat /\ hi <= stop /\ stop <= hi + max_catchup /\ stop > 0
    BY <1>0, <1>1, <1>2 DEF MinOf
  <1>4. c # <<>>
    BY <1>2, <1>3 DEF missing_roots
  <1>5. Len(c) \in Nat \ {0}
    BY <1>4
  <1>6. c[Len(c)] = prev + Len(c)
    BY <1>5
  <1>7. stop <= prev + Len(c)
    BY <1>0, <1>2, <1>3, <1>4, <1>5, <1>6 DEF missing_roots
  <1> QED BY <1>3, <1>7

LEMMA FetchStep ==
    ASSUME StreamInv, NEW root \in BOOLEAN, NEW t \in Tips \cup {None}, fetch(root, t)
    PROVE  StreamInv'
  <1> DEFINE seen == IF t = None THEN tip ELSE Floor(t, interval)
  <1>0. /\ cache' = IF root /\ root_next > lo THEN Append(cache, root_next) ELSE cache
        /\ root_next' = IF root THEN root_next + 1 ELSE root_next
        /\ tip' = seen
        /\ root => has_space_left
        /\ UNCHANGED <<environment, max_catchup, interval, prev, sent>>
    BY DEF fetch
  <1>1. /\ cache' \in Seq(Nat) /\ root_next' \in Nat
        /\ Len(cache') >= Len(cache) /\ Len(cache') <= max_catchup + 1
        /\ \A j \in 1 .. Len(cache') : cache'[j] = prev + j
        /\ IF cache' = <<>> THEN root_next' <= prev + 1
                            ELSE root_next' = prev + Len(cache') + 1
    BY <1>0, CachedFacts, Zenon
  <1>2. t # None => t \in Nat
    BY StreamAssumption DEF Tips, Heights
  <1>3. seen \in Nat /\ tip_last' \in Nat \cup {None}
    BY <1>2, FloorFacts DEF fetch, StreamInv, TypeOK
  <1>f. ~Backpressured /\ Len(cache) \in Nat
    BY DEF fetch, StreamInv, TypeOK
  <1>g. hi <= lo + max_catchup /\ hi <= prev + max_catchup
    BY <1>f DEF Backpressured, StreamInv, TypeOK, RangeInv
  <1>4. CASE Complete(cache', seen)
    <2>1. fetching' = FALSE /\ NextWindow(MinOf(lo + max_catchup, seen))
      BY <1>0, <1>4 DEF fetch
    <2>2. /\ lo' = hi /\ cursor' = hi' /\ hi' \in Nat
          /\ hi <= hi' /\ hi' <= hi + max_catchup /\ hi' <= prev + Len(cache')
      BY <1>1, <1>3, <1>4, <1>f, <2>1, CompleteFacts DEF NextWindow
    <2>3. TypeOK'
      BY <1>0, <1>1, <1>3, <2>1, <2>2, Zenon DEF StreamInv, TypeOK, environment
    <2>4. RangeInv'
      BY <1>0, <1>1, <2>1, <2>2, SMTT(30) DEF StreamInv, TypeOK, RangeInv
    <2>5. SentInv'
      BY <1>0, <2>2 DEF StreamInv, TypeOK, SentInv
    <2> QED BY <1>0, <1>1, <2>3, <2>4, <2>5 DEF StreamInv, ProofIsAnchored
  <1>5. CASE ~Complete(cache', seen)
    <2>1. fetching' = TRUE /\ cursor' = lo /\ UNCHANGED <<lo, hi>>
      BY <1>0, <1>5 DEF fetch
    <2>2. TypeOK'
      BY <1>0, <1>1, <1>3, <2>1 DEF StreamInv, TypeOK, environment
    <2>3. RangeInv'
      BY <1>0, <1>1, <1>g, <2>1, <2>2, SMTT(30) DEF StreamInv, TypeOK, RangeInv
    <2>4. SentInv'
      BY <1>0, <2>1 DEF StreamInv, SentInv
    <2> QED BY <1>0, <1>1, <2>2, <2>3, <2>4 DEF StreamInv, ProofIsAnchored
  <1> QED BY <1>4, <1>5

(* What is left of the cache is the run after the finalized height. *)
LEMMA DrainedFacts ==
    ASSUME StreamInv, NEW h \in Nat, h >= prev
    PROVE  /\ Drained(cache, h) \in Seq(Nat)
           /\ Len(Drained(cache, h)) <= Len(cache)
           /\ \A j \in 1 .. Len(Drained(cache, h)) : Drained(cache, h)[j] = h + j
           /\ prev + Len(cache) <= h + Len(Drained(cache, h))
           /\ Drained(cache, h) # <<>> =>
                cache # <<>> /\ h + Len(Drained(cache, h)) = prev + Len(cache)
  <1> DEFINE c == Drained(cache, h)
  <1> USE DEF StreamInv, TypeOK, ProofIsAnchored
  <1>1. CASE cache = <<>>
    <2>1. c = <<>> /\ Len(c) = 0 /\ Len(cache) = 0
      BY <1>1 DEF Drained
    <2> QED BY <2>1
  <1>2. CASE cache # <<>> /\ h = prev
    <2>1. Len(cache) \in Nat \ {0} /\ cache[1] = prev + 1
      BY <1>2
    <2>2. c = cache
      BY <1>2, <2>1 DEF Drained
    <2> QED BY <1>2, <2>1, <2>2
  <1>3. CASE cache # <<>> /\ h > prev
    <2>1. Len(cache) \in Nat \ {0} /\ cache[1] = prev + 1 /\ h >= cache[1]
      BY <1>3
    <2>a. prev \in Nat /\ h - prev \in Nat /\ h - prev >= 1 /\ h - cache[1] + 1 = h - prev
      BY <1>3, <2>1
    <2>2. PICK k \in Nat : k = MinOf(h - prev, Len(cache))
      BY <2>1, <2>a, Zenon DEF MinOf
    <2>3. c = SubSeq(cache, k + 1, Len(cache))
      BY <1>3, <2>1, <2>2, <2>a, Zenon DEF Drained
    <2>4. k <= Len(cache) /\ k >= 1 /\ k <= h - prev
      BY <2>1, <2>2, <2>a DEF MinOf
    <2>5. c \in Seq(Nat) /\ Len(c) = Len(cache) - k
      BY <2>1, <2>3, <2>4
    <2>6. \A j \in 1 .. Len(c) : c[j] = cache[k + j]
      BY <2>1, <2>3, <2>4, <2>5
    <2>7. Len(c) > 0 => k = h - prev
      BY <2>1, <2>2, <2>5 DEF MinOf
    <2>8. \A j \in 1 .. Len(c) : c[j] = h + j
      <3>1. \A j \in 1 .. Len(c) : k + j \in 1 .. Len(cache)
        BY <2>1, <2>4, <2>5
      <3>2. \A j \in 1 .. Len(c) : c[j] = prev + (k + j)
        BY <2>6, <3>1
      <3>3. ASSUME NEW j \in 1 .. Len(c) PROVE c[j] = h + j
        <4>1. Len(c) > 0 /\ c[j] = prev + (k + j)
          BY <2>5, <3>2
        <4>2. k = h - prev
          BY <2>7, <4>1
        <4> QED BY <2>a, <4>1, <4>2
      <3> QED BY <3>3
    <2>9. prev + Len(cache) <= h + Len(c)
      BY <2>1, <2>4, <2>5, <2>a
    <2>10. c # <<>> => h + Len(c) = prev + Len(cache)
      <3>1. c # <<>> => Len(c) > 0
        BY <2>5
      <3>2. Len(c) > 0 => h + Len(c) = prev + Len(cache)
        <4>1. CASE k = h - prev
          BY <2>1, <2>5, <2>a, <4>1
        <4> QED BY <2>7, <4>1
      <3> QED BY <3>1, <3>2
    <2> QED BY <1>3, <2>1, <2>4, <2>5, <2>8, <2>9, <2>10
  <1> QED BY <1>1, <1>2, <1>3

LEMMA FinalizationStep ==
    ASSUME StreamInv, NEW h \in Heights, note_attestation_finalization(h)
    PROVE  StreamInv'
  <1>0. h \in Nat /\ h >= prev
    BY StreamAssumption DEF note_attestation_finalization, Heights
  <1>1. /\ cache' = Drained(cache, h) /\ prev' = h /\ lo' = h /\ sent' = {}
        /\ hi' = MaxOf(h, hi) /\ cursor' = hi'
        /\ UNCHANGED <<environment, root_next, tip_last, fetching, max_catchup,
                       interval, tip>>
    BY DEF note_attestation_finalization
  <1>2. /\ cache' \in Seq(Nat) /\ Len(cache') <= Len(cache)
        /\ \A j \in 1 .. Len(cache') : cache'[j] = h + j
        /\ prev + Len(cache) <= h + Len(cache')
        /\ cache' # <<>> => cache # <<>> /\ h + Len(cache') = prev + Len(cache)
    BY <1>0, <1>1, DrainedFacts, SMTT(30)
  <1>3. TypeOK'
    BY <1>0, <1>1, <1>2 DEF StreamInv, TypeOK, environment, MaxOf
  <1>4. hi' >= h /\ hi' <= h + Len(cache')
    BY <1>0, <1>1, <1>2, <1>3 DEF StreamInv, TypeOK, RangeInv, MaxOf
  <1>a. fetching => hi' <= h + max_catchup
    BY <1>0, <1>1 DEF StreamInv, TypeOK, RangeInv, MaxOf
  <1>b. hi' <= h + max_catchup \/ Len(cache') > max_catchup
    <2>1. Len(cache) \in Nat /\ Len(cache') \in Nat
      BY <1>2 DEF StreamInv, TypeOK
    <2> QED BY <1>0, <1>1, <1>2, <2>1 DEF StreamInv, TypeOK, RangeInv, MaxOf
  <1>5. IF cache' = <<>> THEN root_next' <= h + 1 ELSE root_next' = h + Len(cache') + 1
    <2>1. CASE cache' = <<>>
      <3>1. Len(cache') = 0
        BY <2>1
      <3>2. root_next <= prev + Len(cache) + 1
        <4>1. CASE cache = <<>>
          <5>1. Len(cache) = 0
            BY <4>1
          <5> QED BY <4>1, <5>1 DEF StreamInv, RangeInv, TypeOK
        <4>2. CASE cache # <<>>
          BY <4>2 DEF StreamInv, RangeInv, TypeOK
        <4> QED BY <4>1, <4>2
      <3> QED BY <1>0, <1>1, <1>2, <2>1, <3>1, <3>2 DEF StreamInv, TypeOK
    <2>2. CASE cache' # <<>>
      BY <1>1, <1>2, <2>2 DEF StreamInv, RangeInv, TypeOK
    <2> QED BY <2>1, <2>2
  <1>6. RangeInv'
    <2>1. Len(cache) \in Nat /\ Len(cache') \in Nat /\ Len(cache') <= max_catchup' + 1
      BY <1>1, <1>2 DEF StreamInv, TypeOK, RangeInv
    <2>2. Backpressured' \/ hi' <= lo' + max_catchup'
      BY <1>1, <1>3, <1>a, <1>b DEF TypeOK, Backpressured
    <2>3. prev' <= lo' /\ lo' <= hi' /\ hi' <= prev' + Len(cache') /\ cursor' <= hi'
      BY <1>1, <1>3, <1>4 DEF TypeOK
    <2>4. fetching' => hi' <= prev' + max_catchup'
      BY <1>1, <1>a
    <2>5. IF cache' = <<>> THEN root_next' <= prev' + 1
                           ELSE root_next' = prev' + Len(cache') + 1
      BY <1>1, <1>5
    <2> QED BY <2>1, <2>2, <2>3, <2>4, <2>5 DEF RangeInv
  <1> QED BY <1>1, <1>2, <1>3, <1>6 DEF StreamInv, SentInv, ProofIsAnchored

-----------------------------------------------------------------------------
LEMMA NextStep == ASSUME StreamInv, [Next]_streamVars PROVE StreamInv'
  <1>1. CASE mature
    BY <1>1 DEF mature, StreamInv, TypeOK, RangeInv, SentInv, ProofIsAnchored, Backpressured
  <1>2. CASE emit
    BY <1>2, EmitStep
  <1>3. CASE poll_sources
    BY <1>3, FetchStep DEF poll_sources
  <1>4. CASE Report
    <2>1. ASSUME NEW h \in Heights, note_attestation_finalization(h) PROVE StreamInv'
      BY <2>1, FinalizationStep
    <2>2. ASSUME NEW h \in Heights, note_attestation_chain_reversion(h) PROVE StreamInv'
      <3>1. h \in Nat
        BY StreamAssumption DEF Heights
      <3> QED BY <2>2, <3>1, RebuildStep
          DEF note_attestation_chain_reversion, StreamInv, TypeOK
    <2>3. ASSUME NEW i \in Intervals, note_attestation_interval_change(i) PROVE StreamInv'
      BY <2>3, RebuildStep, StreamAssumption
         DEF note_attestation_interval_change, StreamInv, TypeOK
    <2>4. ASSUME NEW m \in Catchups, note_max_catchup_change(m) PROVE StreamInv'
      BY <2>4, RebuildStep, StreamAssumption
         DEF note_max_catchup_change, StreamInv, TypeOK
    <2> QED BY <1>4, <2>1, <2>2, <2>3, <2>4 DEF Report
  <1>5. CASE UNCHANGED streamVars
    BY <1>5 DEF streamVars, environment, StreamInv, TypeOK, RangeInv, SentInv,
                ProofIsAnchored, Backpressured
  <1> QED BY <1>1, <1>2, <1>3, <1>4, <1>5 DEF Next

(* The inductive invariant holds throughout. *)
THEOREM StreamInvariant == Spec => []StreamInv
  BY InitInv, NextStep, PTL DEF Spec

LEMMA InvImplies == ASSUME StreamInv PROVE AssertsHold /\ EachHeightOnce
  <1>1. Cursor > lo => Cursor = cursor
    BY DEF Cursor, StreamInv, TypeOK
  <1>2. EachHeightOnce
    BY <1>1 DEF EachHeightOnce, StreamInv, SentInv, TypeOK
  <1>3. ASSUME Cursor > lo
        PROVE  /\ cache # <<>>
               /\ Cursor <= hi
               /\ cache[1] <= Cursor /\ Cursor <= cache[Len(cache)]
               /\ cache[Cursor - cache[1] + 1] = Cursor
    <2>1. Cursor \in Nat /\ prev < Cursor /\ Cursor <= hi /\ Cursor <= prev + Len(cache)
      BY <1>1, <1>3 DEF StreamInv, RangeInv, TypeOK
    <2>2. Len(cache) \in Nat /\ Len(cache) > 0
      BY <2>1 DEF StreamInv, TypeOK
    <2>3. cache # <<>>
      BY <2>2
    <2>4. cache[1] = prev + 1 /\ cache[Len(cache)] = prev + Len(cache)
      BY <2>2 DEF StreamInv, ProofIsAnchored
    <2>5. Cursor - cache[1] + 1 \in 1 .. Len(cache)
      BY <2>1, <2>2, <2>4 DEF StreamInv, TypeOK
    <2>6. cache[Cursor - cache[1] + 1] = prev + (Cursor - cache[1] + 1)
      BY <2>5 DEF StreamInv, ProofIsAnchored
    <2> QED BY <2>1, <2>2, <2>3, <2>4, <2>6 DEF StreamInv, TypeOK
  <1> QED BY <1>2, <1>3 DEF AssertsHold, StreamInv, RangeInv

(* No assertion of the stream fires, in any order of polls and reports. *)
THEOREM AssertionsNeverFire == Spec => []AssertsHold
  BY StreamInvariant, InvImplies, PTL

(* Every continuity proof is the unbroken run of blocks after its anchor. *)
THEOREM ProofsAreAnchored == Spec => []ProofIsAnchored
  <1>1. StreamInv => ProofIsAnchored
    BY DEF StreamInv
  <1> QED BY StreamInvariant, <1>1, PTL

(* No height is yielded twice on one anchor. *)
THEOREM HeightsEmittedOnce == Spec => []EachHeightOnce
  BY StreamInvariant, InvImplies, PTL
=============================================================================
