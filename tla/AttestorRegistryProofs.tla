------------------------- MODULE AttestorRegistryProofs -------------------------
(***************************************************************************)
(* The quorum of pallet-attestation for committees of any size: two        *)
(* quorums of one committee share more than a third of its keys, whatever  *)
(* elections, kicks, rotations and removals led to that committee.         *)
(***************************************************************************)
EXTENDS AttestorRegistry, FiniteSetTheorems, TLAPS

\* Rows and committees are of known chains and controllers, so committees are finite.
RosterInv ==
    /\ Supported \subseteq Chains
    /\ DOMAIN Attestors \subseteq Pairs
    /\ ActiveAttestors \in [Chains -> SUBSET Controllers]

RosterUntouched == UNCHANGED <<Supported, DOMAIN Attestors, ActiveAttestors>>

\* An action that leaves chains, rows and committees alone, whatever it does inside a row.
LEMMA UntouchedStep ==
    ASSUME RosterInv, RosterUntouched
    PROVE  RosterInv'
  BY Zenon DEF RosterInv, RosterUntouched, Pairs

\* A change of status keeps the rows.
LEMMA SetStatusRows ==
    ASSUME NEW atts, NEW pairs, NEW status
    PROVE  DOMAIN SetStatus(atts, pairs, status) = DOMAIN atts
  BY Zenon DEF SetStatus

\* An attestor that is registered is a row of its chain.
LEMMA RegisterStep ==
    ASSUME RosterInv, NEW c \in Chains, NEW s \in Stashes, NEW id \in Controllers,
           register_attestor(c, s, id)
    PROVE  RosterInv'
  <1>1. /\ Supported' = Supported /\ ActiveAttestors' = ActiveAttestors
        /\ Attestors' = Put(Attestors, <<c, id>>, [stash |-> s, status |-> "Idle", key |-> None])
    BY Zenon DEF register_attestor
  <1>2. DOMAIN Attestors' = DOMAIN Attestors \cup {<<c, id>>}
    BY <1>1, Zenon DEF Put
  <1>3. <<c, id>> \in Pairs
    BY Zenon DEF Pairs
  <1>4. DOMAIN Attestors' \subseteq Pairs
    BY <1>2, <1>3, Zenon DEF RosterInv
  <1> QED BY <1>1, <1>4, Zenon DEF RosterInv, Pairs

\* Leaving the registry leaves the committee too.
LEMMA RemoveStep ==
    ASSUME RosterInv, NEW c \in Chains, NEW id \in Controllers, remove_attestor(c, id)
    PROVE  RosterInv'
  <1>1. /\ Supported' = Supported
        /\ ActiveAttestors' = [ActiveAttestors EXCEPT ![c] = @ \ {id}]
        /\ Attestors' = Without(Attestors, {<<c, id>>})
    BY Zenon DEF remove_attestor
  <1>2. DOMAIN Attestors' \subseteq DOMAIN Attestors
    BY <1>1, Zenon DEF Without, Restrict
  <1>3. ActiveAttestors' \in [Chains -> SUBSET Controllers]
    BY <1>1 DEF RosterInv
  <1> QED BY <1>1, <1>2, <1>3, Zenon DEF RosterInv, Pairs

\* attest changes the content of one row.
LEMMA StartStep ==
    ASSUME RosterInv, NEW c \in Chains, NEW id \in Controllers, NEW key \in Keys,
           start_attesting(c, id, key)
    PROVE  RosterInv'
  <1>1. /\ Supported' = Supported /\ ActiveAttestors' = ActiveAttestors
        /\ Attestors' = [Attestors EXCEPT ![<<c, id>>].status = "Waiting",
                                          ![<<c, id>>].key = key]
    BY Zenon DEF start_attesting
  <1>2. DOMAIN Attestors' = DOMAIN Attestors
    BY <1>1
  <1> QED BY <1>1, <1>2, UntouchedStep, Zenon DEF RosterUntouched

\* A chill takes at most one controller out of the committee.
LEMMA IdleStep ==
    ASSUME RosterInv, NEW c \in Chains, NEW id \in Controllers,
           do_chill_attestor_immediate(c, id), Supported' = Supported
    PROVE  RosterInv'
  <1>1. DOMAIN Attestors' = DOMAIN Attestors
    BY SetStatusRows, Zenon DEF do_chill_attestor_immediate
  <1>2. ActiveAttestors' = [ActiveAttestors EXCEPT ![c] = @ \ {id}]
    BY Zenon DEF do_chill_attestor_immediate
  <1>3. ActiveAttestors' \in [Chains -> SUBSET Controllers]
    BY <1>2 DEF RosterInv
  <1> QED BY <1>1, <1>3, Zenon DEF RosterInv, Pairs

\* A chill of a waiting attestor acts at once, that of an active one is scheduled.
LEMMA ChillStep ==
    ASSUME RosterInv, NEW c \in Chains, NEW s \in Stashes, NEW id \in Controllers, chill(c, s, id)
    PROVE  RosterInv'
  <1>1. Supported' = Supported
    BY Zenon DEF chill
  <1>2. CASE do_chill_attestor_immediate(c, id)
    BY <1>1, <1>2, IdleStep, Zenon
  <1>3. CASE schedule_voluntary_chill(c, id)
    <2>1. DOMAIN Attestors' = DOMAIN Attestors /\ ActiveAttestors' = ActiveAttestors
      BY <1>3, SetStatusRows, Zenon DEF schedule_voluntary_chill
    <2> QED BY <1>1, <2>1, UntouchedStep, Zenon DEF RosterUntouched
  <1> QED BY <1>2, <1>3, Zenon DEF chill

\* A kick removes the attestor or idles it.
LEMMA KickStep ==
    ASSUME RosterInv, NEW c \in Chains, NEW id \in Controllers, NEW unregister \in BOOLEAN,
           kick_active_attestor(c, id, unregister)
    PROVE  RosterInv'
  <1>1. CASE unregister
    BY <1>1, RemoveStep, Zenon DEF kick_active_attestor
  <1>2. CASE ~unregister
    BY <1>2, IdleStep, Zenon DEF kick_active_attestor
  <1> QED BY <1>1, <1>2, Zenon

\* An election seats controllers that are rows of the chain.
LEMMA ElectStep ==
    ASSUME RosterInv, NEW elected, elect_attestors_for_chain(elected), Supported' = Supported
    PROVE  RosterInv'
  <1> DEFINE Seated(c) == Admitted(c) \cup WithStatus(c, "Active")
  <1>1. DOMAIN Attestors' = DOMAIN Attestors
    <2>1. PICK first, second :
             Attestors' = SetStatus(SetStatus(Attestors, first, "Active"), second, "Idle")
      BY Zenon DEF elect_attestors_for_chain
    <2> DEFINE seated == SetStatus(Attestors, first, "Active")
    <2>2. DOMAIN seated = DOMAIN Attestors
      BY SetStatusRows, Zenon
    <2> HIDE DEF seated
    <2>3. DOMAIN SetStatus(seated, second, "Idle") = DOMAIN seated
      BY SetStatusRows, Zenon
    <2> USE DEF seated
    <2> QED BY <2>1, <2>2, <2>3, Zenon
  <1>2. \A c \in Chains : Seated(c) \subseteq Pairs
    BY Zenon DEF Admitted, WithStatus, OfChain, RosterInv
  <1>3. \A c \in Chains : {p[2] : p \in Seated(c)} \subseteq Controllers
    BY <1>2 DEF Pairs
  <1>4. ActiveAttestors' = [c \in Chains |-> IF c \in elected THEN {p[2] : p \in Seated(c)}
                                             ELSE ActiveAttestors[c]]
    BY Zenon DEF elect_attestors_for_chain
  <1> HIDE DEF Seated
  <1>5. ActiveAttestors' \in [Chains -> SUBSET Controllers]
    BY <1>3, <1>4 DEF RosterInv
  <1> QED BY <1>1, <1>5, Zenon DEF RosterInv, Pairs

\* A batch of a removed chain's cleanup changes the content of rows only.
LEMMA BatchRows ==
    ASSUME NEW c, NEW work, NEW done, run_removed_chain_cleanup(c, work, done)
    PROVE  DOMAIN Attestors' = DOMAIN Attestors
  BY SetStatusRows, Zenon DEF run_removed_chain_cleanup

\* The removal of a chain empties its committee.
LEMMA RemovalStep ==
    ASSUME RosterInv, NEW c \in Chains, on_supported_chain_removed(c)
    PROVE  RosterInv'
  <1>1. Supported' = Supported \ {c} /\ ActiveAttestors' = [ActiveAttestors EXCEPT ![c] = {}]
    BY Zenon DEF on_supported_chain_removed
  <1>2. DOMAIN Attestors' = DOMAIN Attestors
    BY BatchRows, Zenon DEF on_supported_chain_removed
  <1>3. ActiveAttestors' \in [Chains -> SUBSET Controllers]
    BY <1>1 DEF RosterInv
  <1> QED BY <1>1, <1>2, <1>3, Zenon DEF RosterInv, Pairs

\* A cleanup batch at the start of a block.
LEMMA CleanupStep ==
    ASSUME RosterInv, on_init_cleanup_removed_chains
    PROVE  RosterInv'
  <1>1. Supported' = Supported /\ ActiveAttestors' = ActiveAttestors
    BY Zenon DEF on_init_cleanup_removed_chains
  <1>2. DOMAIN Attestors' = DOMAIN Attestors
    BY BatchRows, Zenon DEF on_init_cleanup_removed_chains
  <1> QED BY <1>1, <1>2, UntouchedStep, Zenon DEF RosterUntouched

\* Settings touch neither rows nor committees.
LEMMA SettingsStep ==
    ASSUME RosterInv, NEW c \in Chains,
           \/ \E n \in AttestorLimits : set_max_attestors(c, n)
           \/ \E bond \in MinBonds : set_min_bond_requirement(c, bond)
           \/ \E policy \in Policies : set_election_policy(c, policy)
           \/ \E id \in AuthorizedIds :
                 authorize_attestor(c, id) \/ remove_authorized_attestor(c, id)
           \/ \E id \in InvulnerableIds :
                 register_invulnerable(c, id) \/ unregister_invulnerable(c, id)
    PROVE  RosterInv'
  <1>1. UNCHANGED <<Supported, Attestors, ActiveAttestors>>
    BY Zenon DEF set_max_attestors, set_min_bond_requirement, set_election_policy,
       authorize_attestor, remove_authorized_attestor, register_invulnerable,
       unregister_invulnerable, roster
  <1> QED BY <1>1, UntouchedStep, Zenon DEF RosterUntouched

\* At genesis there is no attestor.
LEMMA InitRoster == Init => RosterInv
  <1> SUFFICES ASSUME Init PROVE RosterInv
    OBVIOUS
  <1>1. DOMAIN Attestors = {}
    BY Zenon DEF Init, NoRows
  <1>2. ActiveAttestors \in [Chains -> SUBSET Controllers]
    BY DEF Init
  <1> QED BY <1>1, <1>2, Zenon DEF Init, RosterInv

\* Every step keeps the roster within the known chains and controllers.
LEMMA NextRoster == RosterInv /\ [Next]_vars => RosterInv'
  <1> SUFFICES ASSUME RosterInv, [Next]_vars PROVE RosterInv'
    OBVIOUS
  <1>1. CASE StashCall
    <2> PICK s \in Stashes :
           \/ withdraw_unbonded(s)
           \/ \E amount \in Amounts : transfer(s, amount)
           \/ \E c \in Chains, id \in Controllers :
                 register_attestor(c, s, id) \/ unregister_attestor(c, s, id) \/ chill(c, s, id)
      BY <1>1, Zenon DEF StashCall
    <2>1. CASE withdraw_unbonded(s) \/ \E amount \in Amounts : transfer(s, amount)
      <3>1. UNCHANGED <<Supported, Attestors, ActiveAttestors>>
        BY <2>1, Zenon DEF withdraw_unbonded, transfer, roster
      <3> QED BY <3>1, UntouchedStep, Zenon DEF RosterUntouched
    <2>2. ASSUME NEW c \in Chains, NEW id \in Controllers, unregister_attestor(c, s, id)
          PROVE  RosterInv'
      BY <2>2, RemoveStep, Zenon DEF unregister_attestor
    <2> QED BY <2>1, <2>2, RegisterStep, ChillStep, Zenon
  <1>2. CASE ControllerCall
    BY <1>2, StartStep, Zenon DEF ControllerCall
  <1>3. CASE OperatorCall
    <2>1. ASSUME NEW c \in Chains, force_election(c)
          PROVE  RosterInv'
      BY <2>1, ElectStep, Zenon DEF force_election
    <2> QED BY <1>3, <2>1, KickStep, SettingsStep, RemovalStep, Zenon DEF OperatorCall
  <1>4. CASE on_new_epoch_randomness
    BY <1>4, ElectStep, Zenon DEF on_new_epoch_randomness
  <1>5. CASE new_era \/ UNCHANGED vars
    <2>1. UNCHANGED <<Supported, Attestors, ActiveAttestors>>
      BY <1>5, Zenon DEF new_era, vars, roster
    <2> QED BY <2>1, UntouchedStep, Zenon DEF RosterUntouched
  <1>6. CASE on_init_cleanup_removed_chains
    BY <1>6, CleanupStep, Zenon
  <1> QED BY <1>1, <1>2, <1>3, <1>4, <1>5, <1>6, Zenon DEF Next

-----------------------------------------------------------------------------
(* Quorums *)

\* Two thirds, rounded down, plus one: two quorums overlap in more than a third.
LEMMA QuorumArithmetic ==
    ASSUME NEW n \in Nat
    PROVE  calculate_quorum(n) \in Nat /\ 3 * (2 * calculate_quorum(n) - n) > n
  BY DEF calculate_quorum

\* A committee has at most as many keys as members.
LEMMA CommitteeKeys ==
    ASSUME RosterInv, NEW c \in Supported
    PROVE  LET A == ActiveAttestors[c]
               pubkeys == {gather_attestor_public_key(c, id) : id \in A}
           IN  /\ Cardinality(A) \in Nat
               /\ IsFiniteSet(pubkeys)
               /\ Cardinality(pubkeys) <= Cardinality(A)
  <1> DEFINE A == ActiveAttestors[c]
             pubkeys == {gather_attestor_public_key(c, id) : id \in A}
             f == [id \in A |-> gather_attestor_public_key(c, id)]
  <1>1. A \subseteq Controllers
    BY DEF RosterInv
  <1>2. IsFiniteSet(A) /\ Cardinality(A) \in Nat
    BY <1>1, AccountAssumption, FS_Subset, FS_CardinalityType, Zenon
  <1>3. f \in Surjection(A, pubkeys)
    BY Zenon DEF Surjection
  <1>4. IsFiniteSet(pubkeys) /\ Cardinality(pubkeys) <= Cardinality(A)
    BY <1>2, <1>3, FS_Surjection, Zenon
  <1> QED BY <1>2, <1>4, Zenon

\* Two sets of at least two thirds plus one out of n keys or fewer.
LEMMA QuorumsMeet ==
    ASSUME RosterInv
    PROVE  QuorumsOverlap
  <1> SUFFICES ASSUME NEW c \in Supported, NEW S \in SUBSET Controllers, NEW T \in SUBSET Controllers,
                      HasQuorum(c, S), HasQuorum(c, T)
               PROVE  3 * Cardinality(
                            {gather_attestor_public_key(c, id) : id \in S \cap ActiveAttestors[c]}
                       \cap {gather_attestor_public_key(c, id) : id \in T \cap ActiveAttestors[c]})
                      > Cardinality(ActiveAttestors[c])
    BY Zenon DEF QuorumsOverlap
  <1> DEFINE A == ActiveAttestors[c]
             KeysOf(U) == {gather_attestor_public_key(c, id) : id \in U \cap A}
             KA == {gather_attestor_public_key(c, id) : id \in A}
             q == calculate_quorum(Cardinality(A))
  <1>1. Cardinality(KeysOf(S)) >= q /\ Cardinality(KeysOf(T)) >= q
    BY Zenon DEF HasQuorum
  <1>2. IsFiniteSet(KA) /\ Cardinality(A) \in Nat /\ Cardinality(KA) <= Cardinality(A)
    BY CommitteeKeys, Zenon
  <1>3. KeysOf(S) \subseteq KA /\ KeysOf(T) \subseteq KA
    BY Zenon
  <1>4. q \in Nat /\ 3 * (2 * q - Cardinality(A)) > Cardinality(A)
    BY <1>2, QuorumArithmetic, Zenon
  <1> HIDE DEF KeysOf, KA, q
  <1>5. /\ IsFiniteSet(KeysOf(S)) /\ IsFiniteSet(KeysOf(T))
        /\ IsFiniteSet(KeysOf(S) \cup KeysOf(T)) /\ IsFiniteSet(KeysOf(S) \cap KeysOf(T))
        /\ Cardinality(KeysOf(S) \cup KeysOf(T)) <= Cardinality(KA)
    <2>1. KeysOf(S) \cup KeysOf(T) \subseteq KA /\ KeysOf(S) \cap KeysOf(T) \subseteq KA
      BY <1>3, Zenon
    <2> QED BY <1>2, <1>3, <2>1, FS_Subset, Zenon
  <1>6. /\ Cardinality(KeysOf(S)) \in Nat /\ Cardinality(KeysOf(T)) \in Nat
        /\ Cardinality(KeysOf(S) \cup KeysOf(T)) \in Nat
        /\ Cardinality(KeysOf(S) \cap KeysOf(T)) \in Nat /\ Cardinality(KA) \in Nat
    BY <1>2, <1>5, FS_CardinalityType, Zenon
  <1>7. Cardinality(KeysOf(S) \cup KeysOf(T)) =
           Cardinality(KeysOf(S)) + Cardinality(KeysOf(T)) - Cardinality(KeysOf(S) \cap KeysOf(T))
    BY <1>5, FS_Union, Zenon
  <1>8. 3 * Cardinality(KeysOf(S) \cap KeysOf(T)) > Cardinality(A)
    BY <1>1, <1>2, <1>4, <1>5, <1>6, <1>7
  <1> QED BY <1>8, Zenon DEF KeysOf

\* Whatever the size of the committee and whatever calls led to it, two sets of signers that
\* validate_attestation accepts share more than a third of the committee's keys.
THEOREM QuorumsAlwaysOverlap == Spec => []QuorumsOverlap
  <1>1. Init => RosterInv
    BY InitRoster
  <1>2. RosterInv /\ [Next]_vars => RosterInv'
    BY NextRoster
  <1>3. RosterInv => QuorumsOverlap
    BY QuorumsMeet
  <1> QED BY <1>1, <1>2, <1>3, PTL DEF Spec
=============================================================================
