---------------------------- MODULE AttestorPool ----------------------------
(***************************************************************************)
(* The vote pool of one attestor process (attestor/pool/src/lib.rs).       *)
(*                                                                         *)
(* Production, p2p and the event handler push votes and chain news through *)
(* `Sender`; the validation task is the only `Receiver`.  Both sides run   *)
(* on different tasks and meet at one mutex, so every call is one action.  *)
(* The receiver takes a quorum out with a permit, decides on it over       *)
(* several awaits (while the senders keep changing the pool) and then      *)
(* hands the permit back: what the pool looks like by then is the hard     *)
(* part, together with who wakes a parked receiver.                        *)
(*                                                                         *)
(* Abstractions.  A vote is its (height, digest, attestor): signatures are *)
(* checked before `send`.  A fork's `votes` and `signers` are one set:     *)
(* OneVotePerHeight shows that `push` never reaches a fork with a signer   *)
(* it already has.  `validation_generation` is compared only with the one  *)
(* permit that is out, so it is that permit's flag `current`.  The delay   *)
(* metrics are left out.                                                   *)
(***************************************************************************)
EXTENDS Integers, FiniteSets, Functions

CONSTANTS
    None,            \* Rust's None
    Attestors,       \* every attestor that may ever be elected
    Heights,         \* source heights, naturals
    Digests,         \* digests an attestation may have
    StartHeight,     \* Config::start_height: one above the last attestation
                     \* at boot, or the genesis height of the source chain
    Targets,         \* quorum thresholds the chain may announce, positive
    Windows,         \* values of MaxCatchup and of the interval, positive
    Committees       \* active sets the chain may elect

ASSUME PoolAssumption ==
    /\ Heights \subseteq Nat
    /\ StartHeight \in Nat
    /\ None \notin Nat \cup Digests
    /\ Targets \subseteq Nat \ {0} /\ Targets # {}
    /\ Windows \subseteq Nat \ {0} /\ Windows # {}
    /\ Committees \subseteq SUBSET Attestors /\ Committees # {}
    /\ \A c \in Committees : IsFiniteSet(c)

VARIABLES
    open,                      \* State::Open, until the last Sender is dropped
    by_digest,                 \* fork (height, digest) -> its signers
    by_height_size,            \* index of rows (height, signer count, digest)
    seen,                      \* (height, attestor) -> the digest it voted for
    invalid,                   \* tombstoned forks
    deferred,                  \* forks suppressed until a vote or a refresh
    last_finalized_height,
    valid,                     \* the stash: height -> validated quorum
    active,                    \* ValidateAttestor::set
    target,                    \* ValidateQuorum::target
    interval,
    max_catchup,
    digest_local,
    locally_validated_height,  \* the lock
    permit,                    \* the permit the receiver holds, or None
    parked,                    \* the receiver awaits a notification
    notified                   \* Notify holds a token for the receiver

index == <<by_digest, by_height_size, seen, invalid, deferred>>
settings == <<active, target, interval, max_catchup>>
lock == <<digest_local, locally_validated_height>>
poolVars == <<open, index, last_finalized_height, valid, settings, lock,
              permit, parked, notified>>

Forks == Heights \X Digests

Init ==
    /\ open = TRUE
    /\ by_digest = <<>>
    /\ by_height_size = {}
    /\ seen = <<>>
    /\ invalid = {}
    /\ deferred = {}
    /\ last_finalized_height \in {None} \cup {h \in Heights : h + 1 = StartHeight}
    /\ valid = <<>>
    /\ active \in Committees
    /\ target \in Targets
    /\ interval \in Windows
    /\ max_catchup \in Windows
    /\ digest_local = None
    /\ locally_validated_height = None
    /\ permit = None
    /\ parked = FALSE
    /\ notified = FALSE

-----------------------------------------------------------------------------
(* Forks *)

Above(h, x) == IF x = None THEN TRUE ELSE h > x

HigherOf(x, y) ==
    IF x = None THEN y ELSE IF y = None \/ x >= y THEN x ELSE y

(* Mutant: only finality closes a height, not the local lock. *)
MutantFinalityOnly == last_finalized_height

lower_bound == HigherOf(last_finalized_height, locally_validated_height)

(* ValidateQuorum::height_admissible against the lower bound of `push`. *)
height_admissible(h) ==
    /\ Above(h, lower_bound)
    /\ h >= StartHeight
    /\ h <= (IF lower_bound = None THEN StartHeight ELSE lower_bound)
              + (IF max_catchup >= interval THEN max_catchup ELSE interval)

Row(k, signers) == <<k[1], Cardinality(signers), k[2]>>

(* Mutant: the row of the old size stays in the index. *)
MutantOldRowKept(h, d, a) ==
    LET k   == <<h, d>>
        old == IF k \in DOMAIN by_digest THEN by_digest[k] ELSE {}
        new == old \cup {a}
    IN /\ seen' = [x \in DOMAIN seen \cup {<<h, a>>} |->
                     IF x = <<h, a>> THEN d ELSE seen[x]]
       /\ by_digest' = [x \in DOMAIN by_digest \cup {k} |->
                          IF x = k THEN new ELSE by_digest[x]]
       /\ by_height_size' = by_height_size \cup {Row(k, new)}
       /\ deferred' = deferred \ {k}

(* The vote of a new (height, attestor) joins its fork, which is indexed   *)
(* again under its new size and considered again if it was deferred.       *)
Count(h, d, a) ==
    LET k   == <<h, d>>
        old == IF k \in DOMAIN by_digest THEN by_digest[k] ELSE {}
        new == old \cup {a}
    IN /\ seen' = [x \in DOMAIN seen \cup {<<h, a>>} |->
                     IF x = <<h, a>> THEN d ELSE seen[x]]
       /\ by_digest' = [x \in DOMAIN by_digest \cup {k} |->
                          IF x = k THEN new ELSE by_digest[x]]
       /\ by_height_size' = (by_height_size \ {Row(k, old)}) \cup {Row(k, new)}
       /\ deferred' = deferred \ {k}

(* The rows of a height that are not deferred. *)
Live(h) == {r \in by_height_size : r[1] = h /\ <<h, r[3]>> \notin deferred}

(* The row is the largest of its height, has a quorum, and no tie. *)
Dominant(r) ==
    /\ r \in Live(r[1])
    /\ r[2] >= target
    /\ \A s \in Live(r[1]) \ {r} : s[2] < r[2]

(* Forks::best: the dominant row of the highest height that has one. *)
Best(r) == /\ Dominant(r)
           /\ \A s \in by_height_size : Dominant(s) => s[1] <= r[1]

Ready == \E r \in by_height_size : Best(r)

drop_fork(k) ==
    /\ deferred' = deferred \ {k}
    /\ by_digest' = Restrict(by_digest, DOMAIN by_digest \ {k})
    /\ by_height_size' = IF k \in DOMAIN by_digest
                         THEN by_height_size \ {Row(k, by_digest[k])}
                         ELSE by_height_size

(* Forks::split_off: everything at or below h goes, tombstones excepted. *)
split_off(h) ==
    /\ by_digest' = Restrict(by_digest, {k \in DOMAIN by_digest : k[1] > h})
    /\ by_height_size' = {r \in by_height_size : r[1] > h}
    /\ deferred' = {k \in deferred : k[1] > h}
    /\ seen' = Restrict(seen, {k \in DOMAIN seen : k[1] > h})

clear ==
    /\ by_digest' = <<>>
    /\ by_height_size' = {}
    /\ seen' = <<>>
    /\ invalid' = {}
    /\ deferred' = {}

(* Mutant: the votes of those who left go, the record of who voted too. *)
MutantVotersForgotten(keep) ==
    LET left == {k \in DOMAIN by_digest : by_digest[k] \cap keep # {}}
    IN /\ deferred' = {}
       /\ by_digest' = [k \in left |-> by_digest[k] \cap keep]
       /\ by_height_size' = {Row(k, by_digest[k] \cap keep) : k \in left}
       /\ seen' = <<>>

(* Forks::retain_signers: only votes of `keep` stay, in every structure. *)
retain_signers(keep) ==
    LET left == {k \in DOMAIN by_digest : by_digest[k] \cap keep # {}}
    IN /\ deferred' = {}
       /\ by_digest' = [k \in left |-> by_digest[k] \cap keep]
       /\ by_height_size' =
            (by_height_size \ {Row(k, by_digest[k]) :
                                 k \in {j \in DOMAIN by_digest :
                                          ~(by_digest[j] \subseteq keep)}})
            \cup {Row(k, by_digest[k] \cap keep) : k \in left}
       /\ seen' = Restrict(seen, {k \in DOMAIN seen : k[2] \in keep})

-----------------------------------------------------------------------------
(* Sender *)

notify == notified' = TRUE

(* A bump of validation_generation outdates the permit that is out. *)
NewGeneration ==
    permit' = IF permit = None THEN None ELSE [permit EXCEPT !.current = FALSE]

(* A vote the pool accepts: counted, or a repetition that changes nothing. *)
(* Every other vote is refused and leaves the pool as it is.               *)
send(h, d, a) ==
    /\ open
    /\ a \in active
    /\ height_admissible(h)
    /\ <<h, d>> \notin invalid
    /\ \/ /\ <<h, a>> \notin DOMAIN seen
          /\ Count(h, d, a)
       \/ /\ <<h, a>> \in DOMAIN seen
          /\ seen[<<h, a>>] = d
          /\ UNCHANGED <<by_digest, by_height_size, seen, deferred>>
    /\ notify
    /\ UNCHANGED <<open, invalid, last_finalized_height, valid, settings, lock,
                   permit, parked>>

(* Production calls this only for a height above the last it has noted. *)
note_attestation_finalization(h) ==
    /\ open
    /\ Above(h, last_finalized_height)
    /\ valid' = Restrict(valid, {x \in DOMAIN valid : x > h})
    /\ split_off(h)
    /\ invalid' = {k \in invalid : k[1] > h}
    /\ last_finalized_height' = h
    /\ notify
    /\ UNCHANGED <<open, settings, lock, permit, parked>>

Unlock == digest_local' = None /\ locally_validated_height' = None

note_attestation_interval_change(i) ==
    /\ open
    /\ NewGeneration
    /\ clear
    /\ valid' = <<>>
    /\ interval' = i
    /\ Unlock
    /\ UNCHANGED <<open, last_finalized_height, active, target, max_catchup,
                   parked, notified>>

(* Mutant: the receiver is not woken after the refresh. *)
MutantElectionSilent(set) ==
    /\ open
    /\ NewGeneration
    /\ active' = set
    /\ retain_signers(set)
    /\ UNCHANGED <<open, invalid, last_finalized_height, valid, target,
                   interval, max_catchup, lock, parked, notified>>

note_attestors_elected(set) ==
    /\ open
    /\ NewGeneration
    /\ active' = set
    /\ retain_signers(set)
    /\ notify
    /\ UNCHANGED <<open, invalid, last_finalized_height, valid, target,
                   interval, max_catchup, lock, parked>>

note_max_catchup_change(m) ==
    /\ open
    /\ max_catchup' = m
    /\ notify
    /\ UNCHANGED <<open, index, last_finalized_height, valid, active, target,
                   interval, lock, permit, parked>>

note_quorum_change(threshold) ==
    /\ open
    /\ target' = threshold
    /\ NewGeneration
    /\ deferred' = {}
    /\ notify
    /\ UNCHANGED <<open, by_digest, by_height_size, seen, invalid,
                   last_finalized_height, valid, active, interval, max_catchup,
                   lock, parked>>

note_majority_not_reached(h) ==
    /\ open
    /\ locally_validated_height = h
    /\ Unlock
    /\ notify
    /\ UNCHANGED <<open, index, last_finalized_height, valid, settings, permit,
                   parked>>

(* The chain goes back to an attestation at or below its head, which the   *)
(* BlockAttested events have noted before.                                 *)
note_attestation_chain_reversion(h) ==
    /\ open
    /\ last_finalized_height # None
    /\ h <= last_finalized_height
    /\ NewGeneration
    /\ clear
    /\ valid' = <<>>
    /\ Unlock
    /\ last_finalized_height' = h
    /\ UNCHANGED <<open, settings, parked, notified>>

drop_last_sender ==
    /\ open
    /\ open' = FALSE
    /\ notify
    /\ UNCHANGED <<index, last_finalized_height, valid, settings, lock, permit,
                   parked>>

-----------------------------------------------------------------------------
(* Receiver *)

(* Mutant: the receiver awaits a notification before it looks. *)
MutantAwaitsFirst ==
    /\ open /\ permit = None /\ ~parked /\ notified
    /\ \E r \in by_height_size :
         /\ Best(r)
         /\ permit' = [height  |-> r[1], digest |-> r[3],
                       votes   |-> by_digest[<<r[1], r[3]>>],
                       current |-> TRUE]
    /\ notified' = FALSE
    /\ UNCHANGED <<open, index, last_finalized_height, valid, settings, lock,
                   parked>>

(* One turn of the loop of `recv`: it subscribes and peeks, and either     *)
(* returns the best quorum with its permit or awaits the notification.     *)
recv ==
    /\ open /\ permit = None /\ ~parked
    /\ \/ \E r \in by_height_size :
             /\ Best(r)
             /\ <<r[1], r[3]>> \in DOMAIN by_digest
             /\ permit' = [height  |-> r[1], digest |-> r[3],
                           votes   |-> by_digest[<<r[1], r[3]>>],
                           current |-> TRUE]
             /\ parked' = FALSE
             /\ notified' = FALSE
       \/ /\ ~Ready
          /\ parked' = TRUE
          /\ UNCHANGED <<permit, notified>>
    /\ UNCHANGED <<open, index, last_finalized_height, valid, settings, lock>>

wake ==
    /\ parked /\ notified
    /\ parked' = FALSE
    /\ notified' = FALSE
    /\ UNCHANGED <<open, index, last_finalized_height, valid, settings, lock,
                   permit>>

(* The select! of the validation task drops a parked `recv` when the       *)
(* submission that is in flight completes.                                 *)
cancel_recv ==
    /\ parked
    /\ parked' = FALSE
    /\ UNCHANGED <<open, index, last_finalized_height, valid, settings, lock,
                   permit, notified>>

(* Pool::mark_valid: forks up to the height go and the height is locked. *)
LockHeight ==
    /\ split_off(permit.height)
    /\ digest_local' = permit.digest
    /\ locally_validated_height' =
         HigherOf(locally_validated_height, permit.height)

mark_valid ==
    /\ open /\ permit # None
    /\ LockHeight
    /\ permit' = None
    /\ UNCHANGED <<open, invalid, last_finalized_height, valid, settings,
                   parked, notified>>

mark_invalid ==
    /\ open /\ permit # None
    /\ drop_fork(<<permit.height, permit.digest>>)
    /\ invalid' = invalid \cup {<<permit.height, permit.digest>>}
    /\ permit' = None
    /\ UNCHANGED <<open, seen, last_finalized_height, valid, settings, lock,
                   parked, notified>>

mark_skipped ==
    /\ open /\ permit # None
    /\ drop_fork(<<permit.height, permit.digest>>)
    /\ permit' = None
    /\ UNCHANGED <<open, seen, invalid, last_finalized_height, valid, settings,
                   lock, parked, notified>>

(* Mutant: only the number of votes is compared. *)
MutantCountOnly(k) ==
    /\ k \in DOMAIN by_digest
    /\ Cardinality(by_digest[k]) = Cardinality(permit.votes)

(* The fork is as the permit saw it: no refresh and no vote since. *)
Unchanged(k) ==
    /\ permit.current
    /\ k \in DOMAIN by_digest
    /\ Cardinality(by_digest[k]) = Cardinality(permit.votes)

defer ==
    /\ open /\ permit # None
    /\ LET k == <<permit.height, permit.digest>>
       IN deferred' = IF Unchanged(k) THEN deferred \cup {k} ELSE deferred
    /\ permit' = None
    /\ UNCHANGED <<open, by_digest, by_height_size, seen, invalid,
                   last_finalized_height, valid, settings, lock, parked,
                   notified>>

mark_for_later(signed) ==
    /\ open /\ permit # None
    /\ valid' = [x \in DOMAIN valid \cup {permit.height} |->
                   IF x = permit.height THEN signed ELSE valid[x]]
    /\ LockHeight
    /\ permit' = None
    /\ UNCHANGED <<open, invalid, last_finalized_height, settings, parked,
                   notified>>

(* ValidBatch::pop: the lowest height of the stash. *)
take_next_validated ==
    /\ open /\ permit = None /\ ~parked
    /\ \E h \in DOMAIN valid :
         /\ \A x \in DOMAIN valid : h <= x
         /\ valid' = Restrict(valid, DOMAIN valid \ {h})
    /\ UNCHANGED <<open, index, last_finalized_height, settings, lock, permit,
                   parked, notified>>

-----------------------------------------------------------------------------
(* The pool under every order of calls its two sides may make. *)

SenderStep ==
    \/ \E h \in Heights, d \in Digests, a \in Attestors : send(h, d, a)
    \/ \E h \in Heights : \/ note_attestation_finalization(h)
                          \/ note_majority_not_reached(h)
                          \/ note_attestation_chain_reversion(h)
    \/ \E w \in Windows : \/ note_attestation_interval_change(w)
                          \/ note_max_catchup_change(w)
    \/ \E c \in Committees : note_attestors_elected(c)
    \/ \E t \in Targets : note_quorum_change(t)
    \/ drop_last_sender

Decide ==
    \/ mark_valid
    \/ mark_invalid
    \/ mark_skipped
    \/ defer
    \/ /\ permit # None
       /\ mark_for_later([digest |-> permit.digest, votes |-> permit.votes])

ReceiverStep ==
    \/ recv
    \/ wake
    \/ cancel_recv
    \/ Decide
    \/ take_next_validated

Next == SenderStep \/ ReceiverStep

Spec == Init /\ [][Next]_poolVars /\ WF_poolVars(recv) /\ WF_poolVars(wake)

-----------------------------------------------------------------------------
(* Properties *)

Permits == [height : Heights, digest : Digests, votes : SUBSET Attestors,
            current : BOOLEAN]

(* Every variable keeps its type; a receiver that holds a permit is not    *)
(* parked in `recv`.                                                       *)
TypeOK ==
    /\ open \in BOOLEAN /\ parked \in BOOLEAN /\ notified \in BOOLEAN
    /\ DOMAIN by_digest \subseteq Forks
    /\ \A k \in DOMAIN by_digest : by_digest[k] \subseteq Attestors
    /\ DOMAIN seen \subseteq Heights \X Attestors
    /\ \A k \in DOMAIN seen : seen[k] \in Digests
    /\ invalid \subseteq Forks /\ deferred \subseteq Forks
    /\ last_finalized_height \in Heights \cup {None}
    /\ locally_validated_height \in Heights \cup {None}
    /\ digest_local \in Digests \cup {None}
    /\ DOMAIN valid \subseteq Heights
    /\ active \in Committees /\ target \in Targets
    /\ interval \in Windows /\ max_catchup \in Windows
    /\ permit \in Permits \cup {None}
    /\ permit # None => ~parked

(* No attestor counts twice at one height: whoever signs a fork is recorded *)
(* in `seen` with exactly that digest, so the forks of a height have no     *)
(* signer in common, through elections, skips, unlocks and reversions.      *)
(* (Forks::push, drop_fork, retain_signers, split_off)                      *)
OneVotePerHeight ==
    /\ \A k \in DOMAIN by_digest : \A a \in by_digest[k] :
          <<k[1], a>> \in DOMAIN seen /\ seen[<<k[1], a>>] = k[2]
    /\ \A j, k \in DOMAIN by_digest :
          j[1] = k[1] /\ j # k => by_digest[j] \cap by_digest[k] = {}

(* The size index that `best` walks has one row per fork, with the number  *)
(* of signers the fork has now, and no other; no fork is empty and only    *)
(* forks that exist are deferred.                                          *)
IndexExact ==
    /\ by_height_size = {Row(k, by_digest[k]) : k \in DOMAIN by_digest}
    /\ \A k \in DOMAIN by_digest : by_digest[k] # {}
    /\ deferred \subseteq DOMAIN by_digest

(* Whatever `recv` hands out, at whatever moment, is for a height that is   *)
(* neither finalized nor locked, for a digest that is not tombstoned, and   *)
(* signed by enough members of the committee in force.                      *)
(* (Pool::push, note_attestors_elected, invalidate_fork, best)              *)
DeliveredQuorumIsCurrent ==
    [][permit = None /\ permit' # None =>
         /\ permit'.votes \subseteq active
         /\ Cardinality(permit'.votes) >= target
         /\ <<permit'.height, permit'.digest>> \notin invalid
         /\ Above(permit'.height, last_finalized_height)
         /\ Above(permit'.height, locally_validated_height)]_poolVars

(* A parked receiver with no notification under way has nothing to do: the *)
(* pool is open and no quorum is ready.  Every sender operation that can   *)
(* surface a quorum (a vote, a committee, a threshold, an unlock) or close *)
(* the pool therefore notifies.                                            *)
NoMissedWake == parked /\ ~notified => open /\ ~Ready

(* `defer` suppresses a fork only on the votes that were validated: the    *)
(* comparison of one counter and one length is enough to see that the set  *)
(* of votes is still the one the permit was issued for.                    *)
DeferKeepsNewVotes ==
    [][\A k \in deferred' \ deferred : by_digest[k] = permit.votes]_poolVars

(* A quorum that is ready is handed to the validation task, unless it      *)
(* stops being ready or the pool closes.                                   *)
ReadyQuorumSeen == (Ready /\ open) ~> (permit # None \/ ~Ready \/ ~open)

(* "`max(interval)` keeps the next interval-aligned target admissible": as *)
(* long as nothing is locked, the attestation due next after the last      *)
(* finalized one may enter the pool.                                       *)
NextTargetAdmissible ==
    locally_validated_height = None /\ last_finalized_height # None
      => height_admissible(last_finalized_height + interval)
=============================================================================
