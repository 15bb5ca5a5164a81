------------------------- MODULE AttestorPoolProofs -------------------------
(***************************************************************************)
(* Proofs about AttestorPool, for any number of attestors, heights and     *)
(* digests and any committees, thresholds and windows.                     *)
(***************************************************************************)
EXTENDS AttestorPool, FiniteSetTheorems, TLAPS

(* No fork is left at a height that is finalized or locked. *)
DecidedClosed == \A k \in DOMAIN by_digest : Above(k[1], lower_bound)

MembersOnly == \A k \in DOMAIN by_digest : by_digest[k] \subseteq active

TombstonesOut == invalid \cap DOMAIN by_digest = {}

(* While its generation is the current one, the fork of the permit only    *)
(* grows, and if it is gone then finality has closed its height for good.  *)
PermitInv ==
    permit # None /\ permit.current =>
      IF <<permit.height, permit.digest>> \in DOMAIN by_digest
      THEN permit.votes \subseteq by_digest[<<permit.height, permit.digest>>]
      ELSE last_finalized_height # None /\ last_finalized_height >= permit.height

PoolInv == /\ TypeOK
           /\ OneVotePerHeight
           /\ IndexExact
           /\ DecidedClosed
           /\ MembersOnly
           /\ TombstonesOut
           /\ PermitInv
           /\ NoMissedWake

-----------------------------------------------------------------------------
(* Rows of different forks differ, whatever their sizes. *)
LEMMA RowFacts ==
    ASSUME NEW j \in Forks, NEW k \in Forks, NEW S, NEW T
    PROVE  /\ Row(j, S) = Row(k, T) => j = k
           /\ Row(j, S)[1] = j[1]
           /\ Row(j, S)[3] = j[2]
  BY DEF Row, Forks

LEMMA InitInv == ASSUME Init PROVE PoolInv
  <1>0. DOMAIN by_digest = {} /\ DOMAIN seen = {} /\ DOMAIN valid = {}
    BY DEF Init
  <1>1. TypeOK
    <2>1. /\ DOMAIN by_digest \subseteq Forks
          /\ \A k \in DOMAIN by_digest : by_digest[k] \subseteq Attestors
          /\ DOMAIN seen \subseteq Heights \X Attestors
          /\ \A k \in DOMAIN seen : seen[k] \in Digests
          /\ DOMAIN valid \subseteq Heights
      BY <1>0
    <2>2. /\ open \in BOOLEAN /\ parked \in BOOLEAN /\ notified \in BOOLEAN
          /\ permit \in Permits \cup {None}
          /\ permit # None => ~parked
      BY Zenon DEF Init
    <2> QED BY <2>1, <2>2 DEF Init, TypeOK
  <1>2. OneVotePerHeight /\ DecidedClosed /\ MembersOnly /\ TombstonesOut
    BY <1>0 DEF Init, OneVotePerHeight, DecidedClosed, MembersOnly, TombstonesOut
  <1>3. IndexExact
    BY <1>0 DEF Init, IndexExact
  <1>4. PermitInv /\ NoMissedWake
    BY DEF Init, PermitInv, NoMissedWake
  <1> QED BY <1>1, <1>2, <1>3, <1>4 DEF PoolInv

-----------------------------------------------------------------------------
(* The ways a step changes the votes and their index. *)
Same == /\ UNCHANGED <<by_digest, by_height_size, seen>>
        /\ deferred' \subseteq deferred \cup DOMAIN by_digest

Counted == \E h \in Heights, d \in Digests, a \in active :
             /\ <<h, a>> \notin DOMAIN seen
             /\ Above(h, lower_bound)
             /\ <<h, d>> \notin invalid
             /\ Count(h, d, a)

Dropped == \E k \in Forks : drop_fork(k) /\ UNCHANGED seen

Split == \E h \in Heights : split_off(h)

Retained == \E c \in Committees : retain_signers(c)

(* Every step is of one of these kinds. *)
LEMMA StepKinds ==
    ASSUME TypeOK, [Next]_poolVars
    PROVE  Same \/ Counted \/ Dropped \/ Split \/ Retained \/ clear
  <1>1. CASE UNCHANGED poolVars
    BY <1>1 DEF poolVars, index, Same
  <1>2. CASE \E h \in Heights, d \in Digests, a \in Attestors : send(h, d, a)
    BY <1>2 DEF send, Same, Counted, height_admissible
  <1>3. CASE \E h \in Heights : note_attestation_finalization(h)
    BY <1>3 DEF note_attestation_finalization, Split
  <1>4. CASE \E h \in Heights : note_majority_not_reached(h)
    BY <1>4 DEF note_majority_not_reached, Same, index
  <1>5. CASE \E h \in Heights : note_attestation_chain_reversion(h)
    BY <1>5 DEF note_attestation_chain_reversion
  <1>6. CASE \E w \in Windows : note_attestation_interval_change(w)
    BY <1>6 DEF note_attestation_interval_change
  <1>7. CASE \E w \in Windows : note_max_catchup_change(w)
    BY <1>7 DEF note_max_catchup_change, Same, index
  <1>8. CASE \E c \in Committees : note_attestors_elected(c)
    BY <1>8 DEF note_attestors_elected, Retained
  <1>9. CASE \E t \in Targets : note_quorum_change(t)
    BY <1>9 DEF note_quorum_change, Same
  <1>10. CASE drop_last_sender
    BY <1>10 DEF drop_last_sender, Same, index
  <1>11. CASE recv
    BY <1>11 DEF recv, Same, index
  <1>12. CASE wake \/ cancel_recv
    BY <1>12 DEF wake, cancel_recv, Same, index
  <1>13. CASE mark_valid
    BY <1>13 DEF mark_valid, LockHeight, Split, TypeOK, Permits
  <1>14. CASE mark_invalid \/ mark_skipped
    BY <1>14 DEF mark_invalid, mark_skipped, Dropped, TypeOK, Permits, Forks
  <1>15. CASE defer
    BY <1>15 DEF defer, Same, Unchanged
  <1>16. CASE permit # None /\ mark_for_later([digest |-> permit.digest, votes |-> permit.votes])
    BY <1>16 DEF mark_for_later, LockHeight, Split, TypeOK, Permits
  <1>17. CASE take_next_validated
    BY <1>17 DEF take_next_validated, Same, index
  <1> QED
    BY <1>1, <1>2, <1>3, <1>4, <1>5, <1>6, <1>7, <1>8, <1>9, <1>10, <1>11,
       <1>12, <1>13, <1>14, <1>15, <1>16, <1>17
       DEF Next, SenderStep, ReceiverStep, Decide

-----------------------------------------------------------------------------
(* Forks stay forks. *)
LEMMA DomainStep ==
    ASSUME PoolInv, [Next]_poolVars
    PROVE  DOMAIN by_digest' \subseteq Forks
  <1>0. TypeOK /\ DOMAIN by_digest \subseteq Forks
    BY DEF PoolInv, TypeOK
  <1>1. CASE Same
    BY <1>0, <1>1 DEF Same
  <1>2. CASE Counted
    BY <1>0, <1>2 DEF Counted, Count, Forks
  <1>3. CASE Dropped
    BY <1>0, <1>3 DEF Dropped, drop_fork, Restrict
  <1>4. CASE Split
    BY <1>0, <1>4 DEF Split, split_off, Restrict
  <1>5. CASE Retained
    BY <1>0, <1>5 DEF Retained, retain_signers
  <1>6. CASE clear
    <2>1. DOMAIN by_digest' = {}
      BY <1>6 DEF clear
    <2> QED BY <2>1
  <1> QED BY <1>0, <1>1, <1>2, <1>3, <1>4, <1>5, <1>6, StepKinds

LEMMA OneVoteStep ==
    ASSUME PoolInv, [Next]_poolVars
    PROVE  OneVotePerHeight'
  <1> USE DEF PoolInv
  <1>0. \A k \in DOMAIN by_digest : k = <<k[1], k[2]>>
    BY DEF TypeOK, Forks
  <1>1. SUFFICES \A k \in DOMAIN by_digest' : \A a \in by_digest'[k] :
                   <<k[1], a>> \in DOMAIN seen' /\ seen'[<<k[1], a>>] = k[2]
    <2> SUFFICES ASSUME NEW j \in DOMAIN by_digest', NEW k \in DOMAIN by_digest',
                        j[1] = k[1], j # k, NEW a \in by_digest'[j], a \in by_digest'[k]
                 PROVE  FALSE
      BY DEF OneVotePerHeight
    <2>1. j = <<j[1], j[2]>> /\ k = <<k[1], k[2]>>
      BY DomainStep DEF Forks
    <2> QED BY <2>1, Zenon
  <1>2. CASE Same
    BY <1>2, Zenon DEF Same, OneVotePerHeight
  <1>3. CASE Counted
    <2>1. PICK h \in Heights, d \in Digests, a \in active :
            <<h, a>> \notin DOMAIN seen /\ Count(h, d, a)
      BY <1>3 DEF Counted
    <2> SUFFICES ASSUME NEW k \in DOMAIN by_digest', NEW b \in by_digest'[k]
                 PROVE  <<k[1], b>> \in DOMAIN seen' /\ seen'[<<k[1], b>>] = k[2]
      BY Zenon
    <2>2. CASE k = <<h, d>> /\ b = a
      BY <2>1, <2>2 DEF Count
    <2>3. CASE ~(k = <<h, d>> /\ b = a)
      <3>1. k \in DOMAIN by_digest /\ b \in by_digest[k]
        BY <2>1, <2>3 DEF Count
      <3>2. <<k[1], b>> \in DOMAIN seen /\ seen[<<k[1], b>>] = k[2]
        BY <3>1 DEF OneVotePerHeight
      <3> QED BY <3>2, <2>1 DEF Count
    <2> QED BY <2>2, <2>3
  <1>4. CASE Dropped
    BY <1>4, Zenon DEF Dropped, drop_fork, OneVotePerHeight, Restrict
  <1>5. CASE Split
    BY <1>5, <1>0, Zenon DEF Split, split_off, OneVotePerHeight, Restrict
  <1>6. CASE Retained
    <2>1. PICK c \in Committees : retain_signers(c)
      BY <1>6 DEF Retained
    <2> SUFFICES ASSUME NEW k \in DOMAIN by_digest', NEW a \in by_digest'[k]
                 PROVE  <<k[1], a>> \in DOMAIN seen' /\ seen'[<<k[1], a>>] = k[2]
      BY Zenon
    <2>2. k \in DOMAIN by_digest /\ a \in by_digest[k] /\ a \in c
      BY <2>1 DEF retain_signers
    <2>3. <<k[1], a>> \in DOMAIN seen /\ seen[<<k[1], a>>] = k[2]
      BY <2>2 DEF OneVotePerHeight
    <2> QED BY <2>1, <2>2, <2>3 DEF retain_signers, Restrict
  <1>7. CASE clear
    BY <1>7 DEF clear
  <1> QED BY <1>2, <1>3, <1>4, <1>5, <1>6, <1>7, StepKinds, Zenon

LEMMA IndexStep ==
    ASSUME PoolInv, [Next]_poolVars
    PROVE  IndexExact'
  <1> USE DEF PoolInv
  <1>0. /\ DOMAIN by_digest \subseteq Forks
        /\ \A k \in DOMAIN by_digest : by_digest[k] # {}
        /\ deferred \subseteq DOMAIN by_digest
        /\ by_height_size = {Row(k, by_digest[k]) : k \in DOMAIN by_digest}
    BY DEF TypeOK, IndexExact
  <1>1. \A j, k \in Forks : \A S, T : Row(j, S) = Row(k, T) => j = k
    BY RowFacts
  <1>2. CASE Same
    BY <1>0, <1>2 DEF Same, IndexExact
  <1>3. CASE Counted
    <2>1. PICK h \in Heights, d \in Digests, a \in active : Count(h, d, a)
      BY <1>3 DEF Counted
    <2> DEFINE k == <<h, d>>
               old == IF k \in DOMAIN by_digest THEN by_digest[k] ELSE {}
               new == old \cup {a}
    <2>2. k \in Forks
      BY DEF Forks
    <2>3. /\ by_digest' = [x \in DOMAIN by_digest \cup {k} |->
                              IF x = k THEN new ELSE by_digest[x]]
          /\ by_height_size' = (by_height_size \ {Row(k, old)}) \cup {Row(k, new)}
          /\ deferred' = deferred \ {k}
      BY <2>1 DEF Count
    <2>4. new # {}
      OBVIOUS
    <2> HIDE DEF k, new
    <2>5. DOMAIN by_digest' = DOMAIN by_digest \cup {k} /\ by_digest'[k] = new
          /\ \A x \in DOMAIN by_digest \ {k} : by_digest'[x] = by_digest[x]
      BY <2>3
    <2>6. by_height_size \ {Row(k, old)}
            = {Row(x, by_digest[x]) : x \in DOMAIN by_digest \ {k}}
      <3>1. k \in DOMAIN by_digest => old = by_digest[k]
        BY DEF old
      <3> HIDE DEF old
      <3> QED BY <1>0, <1>1, <2>2, <3>1
    <2>7. by_height_size' = {Row(x, by_digest'[x]) : x \in DOMAIN by_digest'}
      <3> HIDE DEF old
      <3>1. by_height_size' = {Row(x, by_digest[x]) : x \in DOMAIN by_digest \ {k}}
                                \cup {Row(k, new)}
        BY <2>3, <2>6
      <3> QED BY <3>1, <2>5
    <2>8. \A x \in DOMAIN by_digest' : by_digest'[x] # {}
      BY <1>0, <2>4, <2>5
    <2>9. deferred' \subseteq DOMAIN by_digest'
      BY <1>0, <2>3, <2>5
    <2>10. \A x \in DOMAIN by_digest' : Row(x, by_digest[x])' = Row(x, by_digest'[x])
      BY DEF Row
    <2> QED BY <2>7, <2>8, <2>9, <2>10 DEF IndexExact
  <1>4. CASE Dropped
    <2>1. PICK k \in Forks : drop_fork(k)
      BY <1>4 DEF Dropped
    <2>2. /\ DOMAIN by_digest' = DOMAIN by_digest \ {k}
          /\ \A x \in DOMAIN by_digest' : by_digest'[x] = by_digest[x]
      BY <2>1 DEF drop_fork, Restrict
    <2>3. by_height_size' = {Row(x, by_digest[x]) : x \in DOMAIN by_digest \ {k}}
      BY <1>0, <1>1, <2>1 DEF drop_fork
    <2>4. by_height_size' = {Row(x, by_digest'[x]) : x \in DOMAIN by_digest'}
      BY <2>2, <2>3
    <2>5. (\A x \in DOMAIN by_digest' : by_digest'[x] # {})
          /\ deferred' \subseteq DOMAIN by_digest'
      BY <1>0, <2>1, <2>2, Zenon DEF drop_fork
    <2> QED BY <2>4, <2>5 DEF IndexExact, Row
  <1>5. CASE Split
    <2>1. PICK h \in Heights : split_off(h)
      BY <1>5 DEF Split
    <2>2. /\ DOMAIN by_digest' = {x \in DOMAIN by_digest : x[1] > h}
          /\ \A x \in DOMAIN by_digest' : by_digest'[x] = by_digest[x]
      BY <2>1 DEF split_off, Restrict
    <2>3. \A x \in DOMAIN by_digest : Row(x, by_digest[x])[1] = x[1]
      BY <1>0, RowFacts
    <2>4. by_height_size' = {Row(x, by_digest'[x]) : x \in DOMAIN by_digest'}
      <3>1. by_height_size' = {r \in by_height_size : r[1] > h}
        BY <2>1 DEF split_off
      <3>2. \A r \in by_height_size' : \E x \in DOMAIN by_digest' : r = Row(x, by_digest'[x])
        BY <1>0, <2>2, <2>3, <3>1
      <3>3. \A x \in DOMAIN by_digest' : Row(x, by_digest'[x]) \in by_height_size'
        BY <1>0, <2>2, <2>3, <3>1
      <3> QED BY <3>2, <3>3
    <2>5. (\A x \in DOMAIN by_digest' : by_digest'[x] # {})
          /\ deferred' \subseteq DOMAIN by_digest'
      BY <1>0, <2>1, <2>2, Zenon DEF split_off
    <2> QED BY <2>4, <2>5 DEF IndexExact, Row
  <1>6. CASE Retained
    <2>1. PICK c \in Committees : retain_signers(c)
      BY <1>6 DEF Retained
    <2> DEFINE left == {x \in DOMAIN by_digest : by_digest[x] \cap c # {}}
               cut  == {x \in DOMAIN by_digest : ~(by_digest[x] \subseteq c)}
    <2>2. /\ DOMAIN by_digest' = left
          /\ \A x \in left : by_digest'[x] = by_digest[x] \cap c
      BY <2>1 DEF retain_signers
    <2>3. by_height_size' = (by_height_size \ {Row(x, by_digest[x]) : x \in cut})
                              \cup {Row(x, by_digest[x] \cap c) : x \in left}
      BY <2>1 DEF retain_signers
    <2>4. by_height_size \ {Row(x, by_digest[x]) : x \in cut}
            \subseteq {Row(x, by_digest[x] \cap c) : x \in left}
      <3> SUFFICES ASSUME NEW x \in DOMAIN by_digest, x \notin cut
                   PROVE  x \in left /\ by_digest[x] \cap c = by_digest[x]
        BY <1>0, Zenon
      <3> QED BY <1>0
    <2>5. by_height_size' = {Row(x, by_digest'[x]) : x \in DOMAIN by_digest'}
      BY <2>2, <2>3, <2>4, Zenon
    <2> QED BY <2>1, <2>2, <2>5, Zenon DEF IndexExact, retain_signers
  <1>7. CASE clear
    BY <1>7 DEF clear, IndexExact
  <1> QED BY <1>2, <1>3, <1>4, <1>5, <1>6, <1>7, StepKinds

-----------------------------------------------------------------------------
(* The variables beside the index keep their types, by action. *)
Rest == /\ open \in BOOLEAN /\ parked \in BOOLEAN /\ notified \in BOOLEAN
        /\ invalid \subseteq Forks
        /\ last_finalized_height \in Heights \cup {None}
        /\ locally_validated_height \in Heights \cup {None}
        /\ digest_local \in Digests \cup {None}
        /\ DOMAIN valid \subseteq Heights
        /\ active \in Committees /\ target \in Targets
        /\ interval \in Windows /\ max_catchup \in Windows
        /\ permit \in Permits \cup {None}
        /\ permit # None => ~parked

(* A new generation leaves a permit a permit. *)
LEMMA GenerationFacts ==
    ASSUME TypeOK, NewGeneration
    PROVE  /\ permit' \in Permits \cup {None}
           /\ permit' # None => permit # None
           /\ permit' # None => permit'.current = FALSE
  <1>1. CASE permit = None
    BY <1>1 DEF NewGeneration
  <1>2. CASE permit # None
    <2>1. permit \in Permits /\ permit' = [permit EXCEPT !.current = FALSE]
      BY <1>2 DEF NewGeneration, TypeOK
    <2> QED BY <2>1, <1>2, Zenon DEF Permits
  <1> QED BY <1>1, <1>2, Zenon

LEMMA RestStep ==
    ASSUME TypeOK, [Next]_poolVars
    PROVE  Rest'
  <1>0. Rest
    BY DEF TypeOK, Rest
  <1> USE DEF Rest, index, settings, lock
  <1>1. CASE UNCHANGED poolVars
    BY <1>0, <1>1 DEF poolVars, Permits, Forks
  <1>2. CASE \E h \in Heights, d \in Digests, a \in Attestors : send(h, d, a)
    BY <1>0, <1>2 DEF send, notify, Permits, Forks
  <1>3. CASE \E h \in Heights : note_attestation_finalization(h)
    BY <1>0, <1>3, SMTT(30) DEF note_attestation_finalization, notify, Restrict, Permits, Forks
  <1>4. CASE \E h \in Heights : note_majority_not_reached(h)
    BY <1>0, <1>4 DEF note_majority_not_reached, Unlock, notify, Permits, Forks
  <1>5. CASE \E h \in Heights : note_attestation_chain_reversion(h)
    <2>1. NewGeneration /\ valid' = <<>>
      BY <1>5 DEF note_attestation_chain_reversion
    <2>2. DOMAIN valid' = {}
      BY <2>1
    <2> QED BY <1>0, <1>5, <2>1, <2>2, GenerationFacts DEF note_attestation_chain_reversion, clear, Unlock
  <1>6. CASE \E w \in Windows : note_attestation_interval_change(w)
    <2>1. NewGeneration /\ valid' = <<>>
      BY <1>6 DEF note_attestation_interval_change
    <2>2. DOMAIN valid' = {}
      BY <2>1
    <2> QED BY <1>0, <1>6, <2>1, <2>2, GenerationFacts DEF note_attestation_interval_change, clear, Unlock
  <1>7. CASE \E w \in Windows : note_max_catchup_change(w)
    BY <1>0, <1>7 DEF note_max_catchup_change, notify, Permits, Forks
  <1>8. CASE \E c \in Committees : note_attestors_elected(c)
    BY <1>0, <1>8, GenerationFacts DEF note_attestors_elected, notify
  <1>9. CASE \E t \in Targets : note_quorum_change(t)
    BY <1>0, <1>9, GenerationFacts DEF note_quorum_change, notify
  <1>10. CASE drop_last_sender
    BY <1>0, <1>10, Zenon DEF drop_last_sender, notify, Permits, Forks
  <1>11. CASE recv
    <2>1. \A r : <<r[1], r[3]>> \in DOMAIN by_digest =>
            [height |-> r[1], digest |-> r[3], votes |-> by_digest[<<r[1], r[3]>>],
             current |-> TRUE] \in Permits
      BY DEF TypeOK, Permits, Forks
    <2> QED BY <1>0, <1>11, <2>1, Zenon DEF recv
  <1>12. CASE wake \/ cancel_recv
    BY <1>0, <1>12, Zenon DEF wake, cancel_recv, Permits, Forks
  <1>13. CASE mark_valid
    BY <1>0, <1>13 DEF mark_valid, LockHeight, HigherOf, Permits, Forks
  <1>14. CASE mark_invalid \/ mark_skipped
    BY <1>0, <1>14 DEF mark_invalid, mark_skipped, Permits, Forks
  <1>15. CASE defer
    BY <1>0, <1>15, SMTT(30) DEF defer, Permits, Forks
  <1>16. CASE permit # None /\ mark_for_later([digest |-> permit.digest, votes |-> permit.votes])
    BY <1>0, <1>16 DEF mark_for_later, LockHeight, HigherOf, Permits, Forks
  <1>17. CASE take_next_validated
    BY <1>0, <1>17, SMTT(30) DEF take_next_validated, Restrict, Permits, Forks
  <1> QED
    BY <1>1, <1>2, <1>3, <1>4, <1>5, <1>6, <1>7, <1>8, <1>9, <1>10, <1>11,
       <1>12, <1>13, <1>14, <1>15, <1>16, <1>17, Zenon
       DEF Next, SenderStep, ReceiverStep, Decide

LEMMA TypeStep ==
    ASSUME PoolInv, [Next]_poolVars
    PROVE  TypeOK'
  <1>0. TypeOK
    BY DEF PoolInv
  <1>1. \A k \in DOMAIN by_digest' : by_digest'[k] \subseteq Attestors
    <2>0. /\ \A k \in DOMAIN by_digest : by_digest[k] \subseteq Attestors
          /\ active \subseteq Attestors
      BY <1>0, PoolAssumption DEF TypeOK
    <2>1. CASE Same
      BY <2>0, <2>1 DEF Same
    <2>2. CASE Counted
      BY <2>0, <2>2 DEF Counted, Count
    <2>3. CASE Dropped
      BY <2>0, <2>3 DEF Dropped, drop_fork, Restrict
    <2>4. CASE Split
      BY <2>0, <2>4 DEF Split, split_off, Restrict
    <2>5. CASE Retained
      BY <2>0, <2>5 DEF Retained, retain_signers
    <2>6. CASE clear
      BY <2>6 DEF clear
    <2> QED BY <1>0, <2>1, <2>2, <2>3, <2>4, <2>5, <2>6, StepKinds
  <1>2. DOMAIN seen' \subseteq Heights \X Attestors /\ \A k \in DOMAIN seen' : seen'[k] \in Digests
    <2>0. /\ DOMAIN seen \subseteq Heights \X Attestors
          /\ \A k \in DOMAIN seen : seen[k] \in Digests
          /\ active \subseteq Attestors
      BY <1>0, PoolAssumption DEF TypeOK
    <2>1. CASE Same \/ Dropped
      BY <2>0, <2>1 DEF Same, Dropped
    <2>2. CASE Counted
      BY <2>0, <2>2 DEF Counted, Count
    <2>3. CASE Split
      BY <2>0, <2>3 DEF Split, split_off, Restrict
    <2>4. CASE Retained
      BY <2>0, <2>4 DEF Retained, retain_signers, Restrict
    <2>5. CASE clear
      <3>1. DOMAIN seen' = {}
        BY <2>5 DEF clear
      <3> QED BY <3>1
    <2> QED BY <1>0, <2>1, <2>2, <2>3, <2>4, <2>5, StepKinds
  <1>3. deferred' \subseteq Forks
    BY DomainStep, IndexStep DEF IndexExact
  <1> QED BY <1>0, <1>1, <1>2, <1>3, DomainStep, RestStep DEF TypeOK, Rest

-----------------------------------------------------------------------------
(* To be above the lower bound is to be above finality and above the lock. *)
LEMMA AboveBoth ==
    ASSUME NEW h \in Nat, NEW x \in Nat \cup {None}, NEW y \in Nat \cup {None}
    PROVE  Above(h, HigherOf(x, y)) <=> Above(h, x) /\ Above(h, y)
  BY PoolAssumption DEF Above, HigherOf

LEMMA BoundFacts ==
    ASSUME TypeOK
    PROVE  \A h \in Nat : Above(h, lower_bound) <=>
             Above(h, last_finalized_height) /\ Above(h, locally_validated_height)
  <1>1. /\ last_finalized_height \in Nat \cup {None}
        /\ locally_validated_height \in Nat \cup {None}
    BY PoolAssumption DEF TypeOK
  <1> QED BY <1>1, AboveBoth DEF lower_bound

(* Neither finality nor the lock has decided the height. *)
OpenHeight(h) == Above(h, last_finalized_height) /\ Above(h, locally_validated_height)

LEMMA DecidedStep ==
    ASSUME PoolInv, [Next]_poolVars
    PROVE  DecidedClosed'
  <1>0. /\ TypeOK /\ TypeOK'
        /\ DOMAIN by_digest \subseteq Forks
        /\ \A k \in Forks : k[1] \in Nat
        /\ \A k \in DOMAIN by_digest : OpenHeight(k[1])
    <2>1. TypeOK /\ TypeOK'
      BY TypeStep DEF PoolInv
    <2>2. DOMAIN by_digest \subseteq Forks /\ \A k \in Forks : k[1] \in Nat
      BY <2>1, PoolAssumption, Zenon DEF TypeOK, Forks
    <2> QED BY <2>1, <2>2, BoundFacts DEF PoolInv, DecidedClosed, OpenHeight
  <1>1. SUFFICES \A k \in DOMAIN by_digest' : OpenHeight(k[1])'
    <2>1. \A k \in DOMAIN by_digest' : k[1] \in Nat
      BY <1>0, DomainStep
    <2>2. \A h \in Nat : Above(h, lower_bound') <=>
            Above(h, last_finalized_height') /\ Above(h, locally_validated_height')
      BY <1>0, PoolAssumption, AboveBoth DEF TypeOK, lower_bound
    <2> QED BY <2>1, <2>2 DEF DecidedClosed, OpenHeight, Above
  <1> USE DEF index, settings, lock
  <1>2. CASE /\ UNCHANGED <<last_finalized_height, lock>>
             /\ DOMAIN by_digest' \subseteq DOMAIN by_digest
    BY <1>0, <1>2 DEF OpenHeight, Above
  <1>3. CASE \E h \in Heights, d \in Digests, a \in Attestors : send(h, d, a)
    <2>1. PICK h \in Heights, d \in Digests, a \in Attestors : send(h, d, a)
      BY <1>3, SMTT(30)
    <2>2. OpenHeight(h)
      BY <1>0, <2>1, BoundFacts, PoolAssumption DEF send, height_admissible, OpenHeight
    <2>3. \A k \in DOMAIN by_digest' : k \in DOMAIN by_digest \/ k[1] = h
      BY <2>1, SMTT(30) DEF send, Count
    <2> QED BY <1>0, <2>1, <2>2, <2>3 DEF send, OpenHeight, Above
  <1>4. CASE \E h \in Heights : note_attestation_finalization(h)
    BY <1>0, <1>4 DEF note_attestation_finalization, split_off, Restrict, OpenHeight, Above
  <1>5. CASE \E h \in Heights : note_majority_not_reached(h)
    BY <1>0, <1>5 DEF note_majority_not_reached, Unlock, OpenHeight, Above
  <1>6. CASE clear
    BY <1>6 DEF clear
  <1>7. CASE permit # None /\ LockHeight /\ UNCHANGED last_finalized_height
    <2>1. permit.height \in Nat /\ locally_validated_height \in Nat \cup {None}
      BY <1>0, <1>7, PoolAssumption, Zenon DEF TypeOK, Permits
    <2>2. \A k \in DOMAIN by_digest' : k \in DOMAIN by_digest /\ k[1] > permit.height
      BY <1>7 DEF LockHeight, split_off, Restrict
    <2>3. \A k \in DOMAIN by_digest' : Above(k[1], permit.height) /\ k[1] \in Nat
      BY <1>0, <2>1, <2>2, PoolAssumption DEF Above
    <2>4. locally_validated_height' = HigherOf(locally_validated_height, permit.height)
      BY <1>7 DEF LockHeight
    <2>5. \A k \in DOMAIN by_digest' : Above(k[1], locally_validated_height')
      BY <1>0, <2>1, <2>2, <2>3, <2>4, AboveBoth DEF OpenHeight
    <2>6. \A k \in DOMAIN by_digest' : Above(k[1], last_finalized_height')
      BY <1>0, <1>7, <2>2, SMTT(30) DEF OpenHeight
    <2> QED BY <2>5, <2>6 DEF OpenHeight, Above
  <1>8. CASE Decide \/ ReceiverStep
    BY <1>2, <1>7, <1>8, Zenon DEF Decide, ReceiverStep, recv, wake, cancel_recv, mark_valid,
       mark_invalid, mark_skipped, defer, mark_for_later, take_next_validated,
       drop_fork, Restrict
  <1>9. CASE \E w \in Windows : note_attestation_interval_change(w)
    BY <1>6, <1>9 DEF note_attestation_interval_change
  <1>10. CASE \E h \in Heights : note_attestation_chain_reversion(h)
    BY <1>6, <1>10, SMTT(30) DEF note_attestation_chain_reversion
  <1>11. CASE \/ \E w \in Windows : note_max_catchup_change(w)
              \/ \E t \in Targets : note_quorum_change(t)
              \/ drop_last_sender
              \/ UNCHANGED poolVars
    BY <1>2, <1>11, Zenon DEF note_max_catchup_change, note_quorum_change, drop_last_sender, poolVars
  <1>12. CASE \E c \in Committees : note_attestors_elected(c)
    BY <1>2, <1>12, Zenon DEF note_attestors_elected, retain_signers
  <1> QED BY <1>3, <1>4, <1>5, <1>8, <1>9, <1>10, <1>11, <1>12 DEF Next, SenderStep

(* What an election leaves of the forks. *)
LEMMA RetainFacts ==
    ASSUME NEW keep, retain_signers(keep)
    PROVE  /\ DOMAIN by_digest' \subseteq DOMAIN by_digest
           /\ \A k \in DOMAIN by_digest' : by_digest'[k] = by_digest[k] \cap keep
           /\ deferred' = {}
  <1> DEFINE left == {k \in DOMAIN by_digest : by_digest[k] \cap keep # {}}
  <1>1. deferred' = {} /\ by_digest' = [k \in left |-> by_digest[k] \cap keep]
    BY Zenon DEF retain_signers
  <1> QED BY <1>1

LEMMA MembersStep ==
    ASSUME PoolInv, [Next]_poolVars
    PROVE  MembersOnly'
  <1>0. TypeOK /\ MembersOnly
    BY DEF PoolInv
  <1> USE DEF MembersOnly
  <1>1. CASE \E c \in Committees : note_attestors_elected(c)
    <2>1. PICK c \in Committees : active' = c /\ retain_signers(c)
      BY <1>1, Zenon DEF note_attestors_elected
    <2> QED BY <2>1, RetainFacts
  <1>2. CASE UNCHANGED active /\ ~Retained
    <2>1. CASE Same
      BY <1>0, <1>2, <2>1, SMTT(30) DEF Same
    <2>2. CASE Counted
      BY <1>0, <1>2, <2>2 DEF Counted, Count
    <2>3. CASE Dropped
      BY <1>0, <1>2, <2>3 DEF Dropped, drop_fork, Restrict
    <2>4. CASE Split
      BY <1>0, <1>2, <2>4 DEF Split, split_off, Restrict
    <2>5. CASE clear
      BY <2>5 DEF clear
    <2> QED BY <1>0, <1>2, <2>1, <2>2, <2>3, <2>4, <2>5, StepKinds
  <1>3. CASE UNCHANGED active /\ Retained
    <2>1. PICK c \in Committees : retain_signers(c)
      BY <1>3, SMTT(30) DEF Retained
    <2> QED BY <1>0, <1>3, <2>1, RetainFacts
  <1>4. \/ \E c \in Committees : note_attestors_elected(c)
        \/ UNCHANGED active
    BY Zenon DEF Next, SenderStep, ReceiverStep, Decide, poolVars, settings, send,
       note_attestation_finalization, note_majority_not_reached,
       note_attestation_chain_reversion, note_attestation_interval_change,
       note_max_catchup_change, note_quorum_change, drop_last_sender, recv, wake,
       cancel_recv, mark_valid, mark_invalid, mark_skipped, defer, mark_for_later,
       take_next_validated
  <1> QED BY <1>1, <1>2, <1>3, <1>4

LEMMA TombstonesStep ==
    ASSUME PoolInv, [Next]_poolVars
    PROVE  TombstonesOut'
  <1>0. TypeOK /\ invalid \cap DOMAIN by_digest = {}
    BY SMTT(30) DEF PoolInv, TombstonesOut
  <1> USE DEF TombstonesOut
  <1>1. CASE mark_invalid
    BY <1>0, <1>1 DEF mark_invalid, drop_fork, Restrict
  <1>2. CASE invalid' \subseteq invalid
    <2>1. CASE Same
      BY <1>0, <1>2, <2>1, SMTT(30) DEF Same
    <2>2. CASE Counted
      BY <1>0, <1>2, <2>2 DEF Counted, Count
    <2>3. CASE Dropped
      BY <1>0, <1>2, <2>3 DEF Dropped, drop_fork, Restrict
    <2>4. CASE Split
      BY <1>0, <1>2, <2>4 DEF Split, split_off, Restrict
    <2>5. CASE Retained
      <3>1. PICK c \in Committees : retain_signers(c)
        BY <2>5 DEF Retained
      <3> QED BY <1>0, <1>2, <3>1, RetainFacts
    <2>6. CASE clear
      BY <2>6, SMTT(30) DEF clear
    <2> QED BY <1>0, <2>1, <2>2, <2>3, <2>4, <2>5, <2>6, StepKinds
  <1>3. mark_invalid \/ invalid' \subseteq invalid
    BY Zenon DEF Next, SenderStep, ReceiverStep, Decide, poolVars, index, send, clear,
       note_attestation_finalization, note_majority_not_reached,
       note_attestation_chain_reversion, note_attestation_interval_change,
       note_max_catchup_change, note_attestors_elected, note_quorum_change,
       drop_last_sender, recv, wake, cancel_recv, mark_valid, mark_skipped, defer,
       mark_for_later, take_next_validated
  <1> QED BY <1>1, <1>2, <1>3

LEMMA PermitStep ==
    ASSUME PoolInv, [Next]_poolVars
    PROVE  PermitInv'
  <1>0. TypeOK /\ PermitInv
    BY DEF PoolInv
  <1>1. CASE permit' = None
    BY <1>1, SMTT(30) DEF PermitInv
  <1>2. CASE NewGeneration
    BY <1>0, <1>2, GenerationFacts DEF PermitInv
  <1>3. CASE UNCHANGED <<permit, by_digest, last_finalized_height>>
    BY <1>0, <1>3 DEF PermitInv
  <1>4. CASE \E h \in Heights, d \in Digests, a \in Attestors : send(h, d, a)
    <2>1. PICK h \in Heights, d \in Digests, a \in Attestors : send(h, d, a)
      BY <1>4
    <2>2. UNCHANGED <<permit, last_finalized_height>>
      BY <2>1, SMTT(30) DEF send
    <2>3. Above(h, last_finalized_height)
      BY <1>0, <2>1, BoundFacts, PoolAssumption, Zenon DEF send, height_admissible
    <2>4. /\ DOMAIN by_digest \subseteq DOMAIN by_digest'
          /\ DOMAIN by_digest' \subseteq DOMAIN by_digest \cup {<<h, d>>}
          /\ \A k \in DOMAIN by_digest : by_digest[k] \subseteq by_digest'[k]
      BY <2>1 DEF send, Count
    <2> SUFFICES ASSUME permit # None, permit.current
                 PROVE  IF <<permit.height, permit.digest>> \in DOMAIN by_digest'
                        THEN permit.votes \subseteq by_digest'[<<permit.height, permit.digest>>]
                        ELSE last_finalized_height # None /\ last_finalized_height >= permit.height
      BY <2>2, SMTT(30) DEF PermitInv
    <2> DEFINE k == <<permit.height, permit.digest>>
    <2>5. CASE k \in DOMAIN by_digest
      BY <1>0, <2>4, <2>5 DEF PermitInv
    <2>6. CASE k \notin DOMAIN by_digest
      <3>1. last_finalized_height # None /\ last_finalized_height >= permit.height
        BY <1>0, <2>6 DEF PermitInv
      <3>2. last_finalized_height \in Nat /\ permit.height \in Nat /\ h \in Nat
        BY <1>0, <3>1, PoolAssumption, Zenon DEF TypeOK, Permits
      <3>3. k # <<h, d>>
        BY <2>3, <3>1, <3>2 DEF Above
      <3> QED BY <2>4, <2>6, <3>1, <3>3
    <2> QED BY <2>5, <2>6, SMTT(30)
  <1>5. CASE \E h \in Heights : note_attestation_finalization(h)
    <2>1. PICK h \in Heights : note_attestation_finalization(h)
      BY <1>5
    <2> SUFFICES ASSUME permit # None, permit.current
                 PROVE  IF <<permit.height, permit.digest>> \in DOMAIN by_digest'
                        THEN permit.votes \subseteq by_digest'[<<permit.height, permit.digest>>]
                        ELSE h # None /\ h >= permit.height
      BY <2>1 DEF PermitInv, note_attestation_finalization
    <2> DEFINE k == <<permit.height, permit.digest>>
    <2>2. permit.height \in Nat /\ h \in Nat /\ h # None /\ k[1] = permit.height
      BY <1>0, PoolAssumption DEF TypeOK, Permits
    <2>3. /\ DOMAIN by_digest' = {x \in DOMAIN by_digest : x[1] > h}
          /\ \A x \in DOMAIN by_digest' : by_digest'[x] = by_digest[x]
      <3>1. by_digest' = Restrict(by_digest, {x \in DOMAIN by_digest : x[1] > h})
        BY <2>1, Zenon DEF note_attestation_finalization, split_off
      <3> QED BY <3>1 DEF Restrict
    <2>4. CASE k \in DOMAIN by_digest
      BY <1>0, <2>2, <2>3, <2>4 DEF PermitInv
    <2>5. CASE k \notin DOMAIN by_digest
      <3>1. last_finalized_height # None /\ last_finalized_height >= permit.height
        BY <1>0, <2>5 DEF PermitInv
      <3>2. last_finalized_height \in Nat /\ h > last_finalized_height
        BY <1>0, <2>1, <3>1, PoolAssumption, SMTT(30) DEF TypeOK, note_attestation_finalization, Above
      <3> QED BY <2>2, <2>3, <2>5, <3>1, <3>2
    <2> QED BY <2>4, <2>5
  <1>6. CASE recv
    <2>1. CASE UNCHANGED permit
      BY <1>3, <1>6, <2>1, Zenon DEF recv, index
    <2>2. CASE \E r \in by_height_size :
             /\ <<r[1], r[3]>> \in DOMAIN by_digest
             /\ permit' = [height  |-> r[1], digest |-> r[3],
                           votes   |-> by_digest[<<r[1], r[3]>>],
                           current |-> TRUE]
      BY <1>6, <2>2, SMTT(30) DEF recv, index, PermitInv
    <2> QED BY <1>6, <2>1, <2>2, SMTT(30) DEF recv
  <1>7. \/ permit' = None
        \/ NewGeneration
        \/ UNCHANGED <<permit, by_digest, last_finalized_height>>
        \/ recv
        \/ \E h \in Heights : note_attestation_finalization(h)
        \/ \E h \in Heights, d \in Digests, a \in Attestors : send(h, d, a)
    BY Zenon DEF Next, SenderStep, ReceiverStep, Decide, poolVars, index,
       note_majority_not_reached, note_attestation_chain_reversion,
       note_attestation_interval_change, note_max_catchup_change,
       note_attestors_elected, note_quorum_change, drop_last_sender, wake,
       cancel_recv, mark_valid, mark_invalid, mark_skipped, defer, mark_for_later,
       take_next_validated
  <1> QED BY <1>1, <1>2, <1>3, <1>4, <1>5, <1>6, <1>7

LEMMA WakeStep ==
    ASSUME PoolInv, [Next]_poolVars
    PROVE  NoMissedWake'
  <1>0. TypeOK /\ NoMissedWake
    BY DEF PoolInv
  <1>1. CASE notified' = TRUE \/ parked' = FALSE
    BY <1>1 DEF NoMissedWake
  <1>2. CASE clear /\ open /\ UNCHANGED open
    BY <1>2 DEF clear, NoMissedWake, Ready
  <1>3. CASE UNCHANGED poolVars
    BY <1>0, <1>3, Zenon DEF poolVars, index, settings, NoMissedWake, Ready, Best, Dominant, Live
  <1>4. CASE recv
    <2>1. CASE parked' = TRUE /\ ~Ready /\ open
      <3>1. UNCHANGED <<open, by_height_size, deferred, target>>
        BY <1>4 DEF recv, index, settings
      <3>2. Ready' = Ready
        BY <3>1 DEF Ready, Best, Dominant, Live
      <3> QED BY <2>1, <3>1, <3>2 DEF NoMissedWake
    <2> QED BY <1>1, <1>4, <2>1, Zenon DEF recv
  <1>5. CASE Decide
    <2>1. permit # None /\ UNCHANGED parked
      BY <1>5 DEF Decide, mark_valid, mark_invalid, mark_skipped, defer, mark_for_later
    <2> QED BY <1>0, <1>1, <2>1, Zenon DEF TypeOK
  <1>6. CASE wake \/ cancel_recv \/ take_next_validated
    BY <1>0, <1>1, <1>6, Zenon DEF wake, cancel_recv, take_next_validated, TypeOK
  <1>7. CASE SenderStep
    BY <1>1, <1>2, <1>7, Zenon DEF SenderStep, send, note_attestation_finalization,
       note_majority_not_reached, note_attestation_chain_reversion,
       note_attestation_interval_change, note_max_catchup_change,
       note_attestors_elected, note_quorum_change, drop_last_sender, notify
  <1> QED BY <1>3, <1>4, <1>5, <1>6, <1>7 DEF Next, ReceiverStep

-----------------------------------------------------------------------------
LEMMA PoolInvStep ==
    ASSUME PoolInv, [Next]_poolVars
    PROVE  PoolInv'
  BY TypeStep, OneVoteStep, IndexStep, DecidedStep, MembersStep, TombstonesStep,
     PermitStep, WakeStep DEF PoolInv

(* The inductive invariant of the pool. *)
THEOREM PoolInvariant == Spec => []PoolInv
  <1>1. Init => PoolInv
    BY InitInv
  <1>2. PoolInv /\ [Next]_poolVars => PoolInv'
    BY PoolInvStep
  <1> QED BY <1>1, <1>2, PTL DEF Spec

(* No attestor is counted in two forks of one height, for any committee    *)
(* and any sequence of elections, skips, unlocks and reversions.           *)
THEOREM VotesCountOnce == Spec => []OneVotePerHeight
  <1>1. PoolInv => OneVotePerHeight
    BY DEF PoolInv
  <1> QED BY <1>1, PoolInvariant, PTL

(* The index that `best` walks is exact in every reachable state. *)
THEOREM IndexIsExact == Spec => []IndexExact
  <1>1. PoolInv => IndexExact
    BY DEF PoolInv
  <1> QED BY <1>1, PoolInvariant, PTL

(* A parked receiver never sleeps over a quorum or over the close. *)
THEOREM ReceiverIsWoken == Spec => []NoMissedWake
  <1>1. PoolInv => NoMissedWake
    BY SMTT(30) DEF PoolInv
  <1> QED BY <1>1, PoolInvariant, PTL

LEMMA DeliveryStep ==
    ASSUME PoolInv, [Next]_poolVars, permit = None, permit' # None
    PROVE  /\ permit'.votes \subseteq active
           /\ Cardinality(permit'.votes) >= target
           /\ <<permit'.height, permit'.digest>> \notin invalid
           /\ Above(permit'.height, last_finalized_height)
           /\ Above(permit'.height, locally_validated_height)
  <1>1. recv
    BY Zenon DEF Next, SenderStep, ReceiverStep, Decide, poolVars, NewGeneration, send,
       note_attestation_finalization, note_majority_not_reached,
       note_attestation_chain_reversion, note_attestation_interval_change,
       note_max_catchup_change, note_attestors_elected, note_quorum_change,
       drop_last_sender, wake, cancel_recv, mark_valid, mark_invalid, mark_skipped,
       defer, mark_for_later, take_next_validated
  <1>2. PICK r \in by_height_size :
          /\ Best(r)
          /\ <<r[1], r[3]>> \in DOMAIN by_digest
          /\ permit' = [height  |-> r[1], digest |-> r[3],
                        votes   |-> by_digest[<<r[1], r[3]>>],
                        current |-> TRUE]
    BY <1>1, Zenon DEF recv
  <1>3. PICK k \in DOMAIN by_digest : r = Row(k, by_digest[k])
    BY <1>2 DEF PoolInv, IndexExact
  <1>4. k \in Forks /\ k = <<r[1], r[3]>> /\ r[2] = Cardinality(by_digest[k])
    BY <1>3 DEF PoolInv, TypeOK, Forks, Row
  <1>5. permit'.height = k[1] /\ permit'.digest = k[2] /\ permit'.votes = by_digest[k]
        /\ <<permit'.height, permit'.digest>> = k
    BY <1>2, <1>4
  <1>6. r[2] >= target
    BY <1>2 DEF Best, Dominant
  <1>7. Above(k[1], last_finalized_height) /\ Above(k[1], locally_validated_height)
    <2>1. k[1] \in Nat /\ Above(k[1], lower_bound)
      BY <1>3, <1>4, PoolAssumption, Zenon DEF PoolInv, DecidedClosed, Forks
    <2> QED BY <2>1, BoundFacts, SMTT(30) DEF PoolInv
  <1> QED BY <1>3, <1>4, <1>5, <1>6, <1>7, Zenon DEF PoolInv, MembersOnly, TombstonesOut

(* Every quorum the pool delivers is one of the committee, the threshold   *)
(* and the finality in force when it is delivered.                         *)
THEOREM DeliveryIsCurrent == Spec => DeliveredQuorumIsCurrent
  <1>1. PoolInv /\ [Next]_poolVars =>
          [permit = None /\ permit' # None =>
             /\ permit'.votes \subseteq active
             /\ Cardinality(permit'.votes) >= target
             /\ <<permit'.height, permit'.digest>> \notin invalid
             /\ Above(permit'.height, last_finalized_height)
             /\ Above(permit'.height, locally_validated_height)]_poolVars
    BY DeliveryStep
  <1> QED BY <1>1, PoolInvariant, PTL DEF Spec, DeliveredQuorumIsCurrent

LEMMA DeferStep ==
    ASSUME PoolInv, [Next]_poolVars, NEW k \in deferred' \ deferred
    PROVE  by_digest[k] = permit.votes
  <1>1. defer \/ deferred' \subseteq deferred
    <2>1. CASE \E h \in Heights, d \in Digests, a \in Attestors : send(h, d, a)
      <3>1. PICK h \in Heights, d \in Digests, a \in Attestors : send(h, d, a)
        BY <2>1
      <3>2. deferred' = deferred \/ deferred' = deferred \ {<<h, d>>}
        BY <3>1 DEF send, Count
      <3> QED BY <3>2
    <2>2. CASE \E h \in Heights : note_attestation_finalization(h)
      BY <2>2, Zenon DEF note_attestation_finalization, split_off
    <2>3. CASE \/ \E h \in Heights : note_attestation_chain_reversion(h)
               \/ \E w \in Windows : note_attestation_interval_change(w)
      BY <2>3, Zenon DEF note_attestation_chain_reversion,
         note_attestation_interval_change, clear
    <2>4. CASE \E c \in Committees : note_attestors_elected(c)
      BY <2>4, RetainFacts, Zenon DEF note_attestors_elected
    <2>5. CASE \/ \E h \in Heights : note_majority_not_reached(h)
               \/ \E w \in Windows : note_max_catchup_change(w)
               \/ \E t \in Targets : note_quorum_change(t)
               \/ drop_last_sender
      BY <2>5, SMTT(30) DEF note_majority_not_reached, note_max_catchup_change,
         note_quorum_change, drop_last_sender, index
    <2>6. CASE recv \/ wake \/ cancel_recv \/ take_next_validated \/ UNCHANGED poolVars
      BY <2>6, Zenon DEF recv, wake, cancel_recv, take_next_validated, poolVars, index
    <2>7. CASE mark_invalid \/ mark_skipped
      BY <2>7, Zenon DEF mark_invalid, mark_skipped, drop_fork
    <2>8. CASE mark_valid \/ \E x : mark_for_later(x)
      BY <2>8, Zenon DEF mark_valid, mark_for_later, LockHeight, split_off
    <2> QED BY <2>1, <2>2, <2>3, <2>4, <2>5, <2>6, <2>7, <2>8, Zenon
        DEF Next, SenderStep, ReceiverStep, Decide
  <1>2. /\ permit # None /\ k = <<permit.height, permit.digest>>
        /\ Unchanged(k)
    BY <1>1 DEF defer
  <1>3. k \in DOMAIN by_digest /\ permit.votes \subseteq by_digest[k]
    BY <1>2 DEF Unchanged, PoolInv, PermitInv
  <1>4. IsFiniteSet(by_digest[k])
    <2>1. IsFiniteSet(active) /\ by_digest[k] \in SUBSET active
      BY <1>3, PoolAssumption DEF PoolInv, TypeOK, MembersOnly
    <2> QED BY <2>1, FS_Subset
  <1>5. Cardinality(by_digest[k]) = Cardinality(permit.votes)
    BY <1>2 DEF Unchanged
  <1> QED BY <1>3, <1>4, <1>5, FS_Subset

(* One generation and one length are enough for `defer` to act only on the *)
(* very votes that were validated.                                         *)
THEOREM DeferIsSafe == Spec => DeferKeepsNewVotes
  <1>1. PoolInv /\ [Next]_poolVars =>
          [\A k \in deferred' \ deferred : by_digest[k] = permit.votes]_poolVars
    BY DeferStep
  <1> QED BY <1>1, PoolInvariant, PTL DEF Spec, DeferKeepsNewVotes

=============================================================================
