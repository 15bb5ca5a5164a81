------------------------- MODULE AttestationStream --------------------------
(***************************************************************************)
(* The stream of local attestations (common/streams/attestation/src/lib.rs),*)
(* as the production task drives it.                                       *)
(*                                                                         *)
(* The stream pulls block roots, in order, and source tips, and yields     *)
(* attestations backwards from the highest height the catch-up bound       *)
(* allows.  Between two polls the production task reports finality, new     *)
(* settings and reversions, each of which rewrites the range, the cursor   *)
(* and the cache that the next poll asserts about.                          *)
(*                                                                         *)
(* Abstractions.  A root is its height; digests and signatures follow from *)
(* the heights a proof is folded over and from the anchor `prev`.  The     *)
(* source streams are what they promise: roots one after the other from    *)
(* their start, tips that only rise until the stream is reset.             *)
(***************************************************************************)
EXTENDS Integers, Sequences

CONSTANTS
    None,          \* Rust's None
    MaxHeight,     \* bound on source heights
    Intervals,     \* values of the attestation interval, positive
    Catchups,      \* values of MaxCatchup, positive
    Boots,         \* heights of the last attestation at boot
    MaxRebuilds    \* bound on setting changes and reversions

ASSUME StreamAssumption ==
    /\ MaxHeight \in Nat
    /\ None \notin Nat
    /\ Intervals \subseteq Nat \ {0}
    /\ Catchups \subseteq Nat \ {0}
    /\ Boots \subseteq 0 .. MaxHeight
    /\ MaxRebuilds \in Nat

VARIABLES
    source,        \* highest mature block of the source node
    root_next,     \* next height stream_roots yields
    tip_last,      \* last height stream_tip yielded, or None
    fetching,
    cache,         \* heights of the cached roots
    max_catchup,   \* aligned to the interval
    interval,
    prev,          \* attestation_prev
    lo, hi,        \* computed
    tip,
    cursor,
    sent,          \* history: heights yielded since the last report
    rebuilds       \* history: rebuilds so far

environment == <<source, rebuilds>>
streamVars == <<environment, root_next, tip_last, fetching, cache, max_catchup,
                interval, prev, lo, hi, tip, cursor, sent>>

Heights == 0 .. MaxHeight
MinOf(x, y) == IF x <= y THEN x ELSE y
MaxOf(x, y) == IF x >= y THEN x ELSE y

Floor(h, i) == h - (h % i)

(* A multiple of the interval, at least one. *)
Aligned(m, i) == i * MaxOf(m \div i, 1)

(* The roots start after the last attestation, or at the genesis block     *)
(* when there is none.                                                     *)
Init ==
    /\ source = 0
    /\ interval \in Intervals
    /\ prev \in Boots
    /\ root_next \in {prev, prev + 1}
    /\ tip_last = None
    /\ fetching = FALSE
    /\ cache = <<>>
    /\ \E m \in Catchups : max_catchup = Aligned(m, interval)
    /\ lo = prev /\ hi = prev
    /\ tip = 0
    /\ cursor = 0
    /\ sent = {}
    /\ rebuilds = 0

(* StreamAttestation::new on source streams that start over at `start`. *)
Rebuild(p, i, m, start) ==
    /\ interval' = i
    /\ max_catchup' = Aligned(m, i)
    /\ prev' = p
    /\ lo' = p /\ hi' = p
    /\ root_next' = start
    /\ tip_last' = None
    /\ fetching' = FALSE
    /\ cache' = <<>>
    /\ tip' = 0
    /\ cursor' = 0
    /\ sent' = {}
    /\ rebuilds < MaxRebuilds
    /\ rebuilds' = rebuilds + 1
    /\ UNCHANGED source

-----------------------------------------------------------------------------
(* The source chain *)

mature ==
    /\ source < MaxHeight
    /\ source' = source + 1
    /\ UNCHANGED <<rebuilds, root_next, tip_last, fetching, cache,
                   max_catchup, interval, prev, lo, hi, tip, cursor, sent>>

-----------------------------------------------------------------------------
(* poll_next *)

(* Below an interval past the last attestation nothing would be accepted. *)
Cursor == IF cursor < prev + interval THEN lo ELSE cursor

emit ==
    /\ Cursor > lo
    /\ cursor' = MaxOf(Cursor - interval, 0)
    /\ sent' = sent \cup {Cursor}
    /\ UNCHANGED <<environment, root_next, tip_last, fetching, cache,
                   max_catchup, interval, prev, lo, hi, tip>>

(* Mutant: the tip alone decides that the roots are there. *)
MutantNoneMissing(c, t) == FALSE

missing_roots(c, t) ==
    (IF c = <<>> THEN 0 ELSE c[Len(c)]) < MinOf(lo + max_catchup, t)

has_space_left == Len(cache) <= max_catchup

Target == Floor(hi + interval, interval)

(* The roots and the tip suffice for the next window. *)
Complete(c, t) == ~(t < Target \/ missing_roots(c, t))

(* Mutant: the window starts where the last one did. *)
MutantSameStart(stop) == hi' = stop /\ cursor' = stop /\ UNCHANGED lo

NextWindow(stop) == lo' = hi /\ hi' = stop /\ cursor' = stop

(* The cache is full of roots that wait for an attestation to finalize. *)
Backpressured == ~fetching /\ Len(cache) > max_catchup

(* One round over both source streams, of which either may be pending, and *)
(* the next window once it is complete.  Roots behind finality are skipped.*)
fetch(root, t) ==
    LET cached == IF root /\ root_next > lo THEN Append(cache, root_next) ELSE cache
        seen   == IF t = None THEN tip ELSE Floor(t, interval)
    IN /\ ~(Cursor > lo)
       /\ ~Backpressured
       /\ root => has_space_left /\ root_next <= source
       /\ (root \/ t # None) <=> ~Complete(cache, tip)
       /\ cache' = cached
       /\ root_next' = IF root THEN root_next + 1 ELSE root_next
       /\ tip' = seen
       /\ tip_last' = IF t = None THEN tip_last ELSE t
       /\ IF Complete(cached, seen)
          THEN /\ fetching' = FALSE
               /\ NextWindow(MinOf(lo + max_catchup, seen))
          ELSE /\ fetching' = TRUE
               /\ cursor' = lo
               /\ UNCHANGED <<lo, hi>>
       /\ UNCHANGED <<environment, max_catchup, interval, prev, sent>>

Tips == {t \in Heights : t <= source /\ (tip_last = None \/ t > tip_last)}

poll_sources == \E root \in BOOLEAN, t \in Tips \cup {None} : fetch(root, t)

-----------------------------------------------------------------------------
(* What production reports *)

(* Mutant: the root of the finalized block itself stays. *)
MutantDrainedBelow(c, h) ==
    IF c = <<>> THEN c
    ELSE IF h >= c[1] THEN SubSeq(c, MinOf(h - c[1], Len(c)) + 1, Len(c))
    ELSE c

(* Roots at or below the finalized height are drained from the cache. *)
Drained(c, h) ==
    IF c = <<>> THEN c
    ELSE IF h >= c[1] THEN SubSeq(c, MinOf(h - c[1] + 1, Len(c)) + 1, Len(c))
    ELSE c

(* Mutant: the cursor stays where it is. *)
MutantCursorKept(h) ==
    /\ h >= prev
    /\ prev' = h
    /\ lo' = h
    /\ hi' = MaxOf(h, hi)
    /\ cache' = Drained(cache, h)
    /\ sent' = {}
    /\ UNCHANGED <<environment, root_next, tip_last, fetching, max_catchup,
                   interval, tip, cursor>>

(* Attestations are generated again on the new anchor, which is the old    *)
(* one when the genesis attestation finalizes.                             *)
note_attestation_finalization(h) ==
    /\ h >= prev
    /\ prev' = h
    /\ lo' = h
    /\ hi' = MaxOf(h, hi)
    /\ cursor' = MaxOf(h, hi)
    /\ cache' = Drained(cache, h)
    /\ sent' = {}
    /\ UNCHANGED <<environment, root_next, tip_last, fetching, max_catchup,
                   interval, tip>>

note_attestation_interval_change(i) ==
    Rebuild(prev, i, max_catchup, prev + 1)

note_max_catchup_change(m) ==
    Rebuild(prev, interval, m, prev + 1)

note_attestation_chain_reversion(h) ==
    /\ h <= prev
    /\ Rebuild(h, interval, max_catchup, h)

Report ==
    \/ \E h \in Heights : \/ note_attestation_finalization(h)
                          \/ note_attestation_chain_reversion(h)
    \/ \E i \in Intervals : note_attestation_interval_change(i)
    \/ \E m \in Catchups : note_max_catchup_change(m)

Next == mature \/ emit \/ poll_sources \/ Report

Spec == /\ Init /\ [][Next]_streamVars
        /\ WF_streamVars(emit) /\ WF_streamVars(poll_sources)

-----------------------------------------------------------------------------
(* Properties *)

(* Every variable keeps its type and `computed` is a range. *)
TypeOK ==
    /\ source \in Nat /\ rebuilds \in Nat
    /\ root_next \in Nat /\ tip_last \in Nat \cup {None}
    /\ fetching \in BOOLEAN /\ cache \in Seq(Nat)
    /\ max_catchup \in Nat \ {0} /\ interval \in Nat \ {0}
    /\ prev \in Nat /\ tip \in Nat /\ cursor \in Nat
    /\ lo \in Nat /\ hi \in Nat /\ lo <= hi
    /\ sent \subseteq Nat

(* No assert! of generate_attestation and poll_next fires, whatever is     *)
(* reported between two polls: what the cursor points at is in the range   *)
(* and in the cache, at the index it is looked up, and the cache is never  *)
(* longer than the catch-up bound and one.                                 *)
AssertsHold ==
    /\ Cursor > lo => /\ cache # <<>>
                      /\ Cursor <= hi
                      /\ cache[1] <= Cursor /\ Cursor <= cache[Len(cache)]
                      /\ cache[Cursor - cache[1] + 1] = Cursor
    /\ Len(cache) <= max_catchup + 1

(* The continuity proof of what is yielded next begins at the block after  *)
(* the last finalized attestation and skips none: the cache is the run of  *)
(* blocks that follows `attestation_prev`, through finality ahead of and   *)
(* behind the cache, rebuilds and interrupted fetches.                     *)
ProofIsAnchored == \A j \in 1 .. Len(cache) : cache[j] = prev + j

(* No height is yielded twice on one anchor: the windows do not overlap    *)
(* and the cursor only descends in each.  (poll_next)                      *)
EachHeightOnce == Cursor > lo => Cursor \notin sent

(* The last attestation is on the schedule of the interval and the source  *)
(* has matured an interval past it.                                        *)
Due == prev % interval = 0 /\ Floor(source, interval) >= prev + interval

(* The stream yields an attestation on the last one once it is due, unless *)
(* finality or a setting overtakes it.  (poll_next)                        *)
DueEmitted == Due ~> (sent # {} \/ ~Due)

(* "If the stream is interrupted during polling, then restarted, it will   *)
(* either return the next attestation or resume its fetching process":     *)
(* backpressure holds only behind an attestation that was yielded on this  *)
(* anchor and may finalize.                                                *)
BackpressureHasCause == Backpressured /\ ~(Cursor > lo) => sent # {}
=============================================================================
