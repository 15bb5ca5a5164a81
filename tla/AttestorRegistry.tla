---------------------------- MODULE AttestorRegistry ----------------------------
(***************************************************************************)
(* The attestors of pallet-attestation: registration against a bond,       *)
(* activation with a BLS key, elections into the committee that signs,     *)
(* chilling and kicking, retirement of keys until the bond is released,    *)
(* and the bounded cleanup that follows the removal of a chain.            *)
(***************************************************************************)
EXTENDS Integers, Sequences, FiniteSetsExt, Functions

CONSTANTS
    None,
    Chains,              \* chain keys; storage hashes order them, here < does
    Stashes,             \* accounts that bond
    Controllers,         \* attestor accounts, ordered by < as their storage hashes are
    Keys,                \* BLS public keys
    MaxEra,              \* bound: eras the instance runs through
    BondingDuration, MaxUnlockingChunks,
    MaxRetired,          \* capacity of RetiredAttestorKeysByStash (64)
    CleanupBudget,       \* MAX_REMOVAL_CLEANUP_ITEMS_PER_BLOCK
    MaxAttestationNodes,
    AttestorLimits,      \* values max_attestors is set to
    MinBonds,            \* values min_bond_requirement is set to
    DefaultMinBond, ExistentialDeposit,
    Funding,             \* ONE_TENTH_CTC, sent to the controller
    Endowment,           \* bound: balance a stash starts with and may get back to
    Policies,            \* values the election policy is set to
    InvulnerableIds,     \* accounts an operator may make invulnerable
    AuthorizedIds,       \* controllers an operator may authorize
    Removable,           \* chains an operator may remove
    Amounts              \* amounts a stash moves between its own accounts

ASSUME AccountAssumption == IsFiniteSet(Controllers)
ASSUME OrderAssumption == Chains \subseteq Nat /\ Controllers \subseteq Nat \ {0}
ASSUME BondAssumption ==
    /\ MinBonds \subseteq Nat /\ DefaultMinBond \in Nat /\ ExistentialDeposit \in Nat
    /\ Funding \in Nat /\ Endowment \in Nat /\ MaxEra \in Nat /\ Amounts \subseteq Nat
ASSUME DurationAssumption == BondingDuration \in Nat \ {0} /\ MaxUnlockingChunks \in Nat \ {0}
ASSUME CapacityAssumption ==
    /\ MaxRetired \in Nat /\ CleanupBudget \in Nat \ {0} /\ MaxAttestationNodes \in Nat \ {0}
    /\ AttestorLimits \subseteq 1..MaxAttestationNodes
ASSUME PolicyAssumption == Policies \subseteq {"OpenToAny", "AuthorizedOnly", "DeniedToAll"}

VARIABLES
    Supported,                   \* chain keys is_chain_supported accepts
    Attestors,                   \* <<chain, controller>> -> [stash, status, key]
    AttestorsCount,
    ActiveAttestors,             \* chain -> committee; only its membership is ever compared
    RetiredAttestorBlsKeys,      \* <<chain, controller>> -> [key, purge_at_era, stash]
    RetiredAttestorKeysByStash,  \* stash -> set of <<chain, controller>>
    BlsKeyOwner,                 \* <<chain, key>> -> controller
    MaxAttestors, ChainElectionPolicy, AuthorizedAttestors, Invulnerables,
    MinBondRequirement,
    AttestorCollateral,          \* <<chain, controller>> -> bond taken at registration
    Ledger,                      \* stash -> [total, active, unlocking] or None
    balance,                     \* free balance of a stash, bonded part included
    era,
    RemovedChainCleanup          \* chain -> [phase, cursor] or None

roster == <<Attestors, AttestorsCount, ActiveAttestors>>
keys == <<RetiredAttestorBlsKeys, RetiredAttestorKeysByStash, BlsKeyOwner>>
settings == <<MaxAttestors, ChainElectionPolicy, AuthorizedAttestors, Invulnerables,
              MinBondRequirement>>
bonds == <<AttestorCollateral, Ledger, balance>>
vars == <<Supported, roster, keys, settings, bonds, era, RemovedChainCleanup>>

MinOf(a, b) == IF a <= b THEN a ELSE b
MaxOf(a, b) == IF a >= b THEN a ELSE b
Without(f, S) == Restrict(f, DOMAIN f \ S)
Put(f, k, v) == [x \in DOMAIN f \cup {k} |-> IF x = k THEN v ELSE f[x]]

Status == {"Active", "Idle", "Waiting", "Leaving"}
OfChain(f, c) == {p \in DOMAIN f : p[1] = c}
ControllersOf(c) == {p[2] : p \in OfChain(Attestors, c)}
SetStatus(atts, pairs, status) ==
    [p \in DOMAIN atts |-> IF p \in pairs THEN [atts[p] EXCEPT !.status = status] ELSE atts[p]]

-----------------------------------------------------------------------------
(* Bonds *)

SumOf(unlocking) == FoldFunction(LAMBDA chunk, sum : sum + chunk.value, 0, unlocking)

\* Mutant: only the active part of the stake is locked.
MutantLockActive(s) == IF Ledger[s] = None THEN 0 ELSE Ledger[s].active

\* The bond lock; update() and kill() set it together with the ledger.
get_locked_balance(s) == IF Ledger[s] = None THEN 0 ELSE Ledger[s].total

get_free_balance(s) == MaxOf(0, MaxOf(0, balance[s] - ExistentialDeposit) - get_locked_balance(s))

\* Mutant: a chunk is released an era early.
MutantConsolidateEarly(ledger) ==
    LET matured == SelectSeq(ledger.unlocking, LAMBDA chunk : chunk.era <= era + 1)
    IN  [ledger EXCEPT !.total = MaxOf(0, ledger.total - SumOf(matured)),
                       !.unlocking = SelectSeq(ledger.unlocking, LAMBDA chunk : chunk.era > era + 1)]

consolidate_unlocked(ledger) ==
    LET matured == SelectSeq(ledger.unlocking, LAMBDA chunk : chunk.era <= era)
    IN  [ledger EXCEPT !.total = MaxOf(0, ledger.total - SumOf(matured)),
                       !.unlocking = SelectSeq(ledger.unlocking, LAMBDA chunk : chunk.era > era)]

\* A first bond opens the ledger, a later one of the same stash adds to it.
Bond(s, bond) ==
    IF Ledger[s] = None
    THEN Ledger' = [Ledger EXCEPT ![s] = [total |-> bond, active |-> bond, unlocking |-> << >>]]
    ELSE /\ balance[s] - Funding - Ledger[s].total >= bond
         /\ Ledger' = [Ledger EXCEPT ![s].total = @ + bond, ![s].active = @ + bond]

purge_at_era == era + BondingDuration

\* Chunks of the same era are merged; the last chunk is the youngest.
AddChunk(unlocking, value) ==
    IF unlocking # << >> /\ unlocking[Len(unlocking)].era = purge_at_era
    THEN [unlocking EXCEPT ![Len(unlocking)].value = @ + value]
    ELSE Append(unlocking, [value |-> value, era |-> purge_at_era])

\* Mutant: the bond is settled at today's requirement.
MutantCurrentBond(c, id) == MinBondRequirement[c]

\* The bond recorded at registration; older attestors have none recorded.
SettledBond(c, id) ==
    IF <<c, id>> \in DOMAIN AttestorCollateral THEN AttestorCollateral[<<c, id>>]
    ELSE MinBondRequirement[c]

\* Mutant: a full queue stays full.
MutantQueueStuck(ledger) == ledger

\* A full queue first drops its matured chunks.
MakeRoom(ledger) ==
    IF Len(ledger.unlocking) >= MaxUnlockingChunks THEN consolidate_unlocked(ledger) ELSE ledger

\* Dust left active is unbonded too.
Unbond(c, id, s) ==
    LET value == MinOf(SettledBond(c, id), Ledger[s].active)
        ledger == MakeRoom(Ledger[s])
        rest == ledger.active - value
        dust == IF rest < ExistentialDeposit THEN rest ELSE 0
        chunks == AddChunk(ledger.unlocking, value + dust)
    IN  /\ Ledger[s] # None
        /\ AttestorCollateral' = Without(AttestorCollateral, {<<c, id>>})
        /\ IF value = 0
           THEN UNCHANGED Ledger
           ELSE /\ Len(chunks) <= MaxUnlockingChunks
                /\ Ledger' = [Ledger EXCEPT ![s] = [ledger EXCEPT !.active = rest - dust,
                                                                  !.unlocking = chunks]]

-----------------------------------------------------------------------------
(* Registration and retirement *)

\* A retired key protects its controller until its own stash takes it back.
RetiredByNoOther(c, id, s) ==
    <<c, id>> \in DOMAIN RetiredAttestorBlsKeys => RetiredAttestorBlsKeys[<<c, id>>].stash = s

\* Owner rows released with the retired keys of these pairs.
OwnerRows(pairs) ==
    {<<p[1], RetiredAttestorBlsKeys[p].key>> : p \in {q \in pairs \cap DOMAIN RetiredAttestorBlsKeys :
        LET row == <<q[1], RetiredAttestorBlsKeys[q].key>>
        IN  row \in DOMAIN BlsKeyOwner /\ BlsKeyOwner[row] = q[2]}}

clear_retired_bls_entry_for_controller(c, id, s) ==
    LET pair == <<c, id>>
    IN  /\ RetiredByNoOther(c, id, s)
        /\ IF pair \notin DOMAIN RetiredAttestorBlsKeys
           THEN UNCHANGED keys
           ELSE /\ RetiredAttestorBlsKeys' = Without(RetiredAttestorBlsKeys, {pair})
                /\ RetiredAttestorKeysByStash' = [RetiredAttestorKeysByStash EXCEPT ![s] = @ \ {pair}]
                /\ BlsKeyOwner' = Without(BlsKeyOwner, OwnerRows({pair}))

attestor_list_has_space(c) == AttestorsCount[c] < MaxAttestors[c]

register_attestor(c, s, id) ==
    /\ c \in Supported
    /\ ChainElectionPolicy[c] = "AuthorizedOnly" => <<c, id>> \in AuthorizedAttestors
    /\ <<c, id>> \notin DOMAIN Attestors
    /\ clear_retired_bls_entry_for_controller(c, id, s)
    /\ attestor_list_has_space(c)
    /\ id # s
    /\ get_free_balance(s) >= MinBondRequirement[c] + Funding
    /\ Attestors' = Put(Attestors, <<c, id>>, [stash |-> s, status |-> "Idle", key |-> None])
    /\ AttestorsCount' = [AttestorsCount EXCEPT ![c] = @ + 1]
    /\ Bond(s, MinBondRequirement[c])
    /\ AttestorCollateral' = Put(AttestorCollateral, <<c, id>>, MinBondRequirement[c])
    /\ balance' = [balance EXCEPT ![s] = @ - Funding]
    /\ UNCHANGED <<Supported, ActiveAttestors, settings, era, RemovedChainCleanup>>

\* Mutant: the retired row is written without its index entry.
MutantRetireUnindexed(c, id, s) ==
    LET pair == <<c, id>>
    IN  IF Attestors[pair].key = None
        THEN UNCHANGED <<RetiredAttestorBlsKeys, RetiredAttestorKeysByStash>>
        ELSE /\ RetiredAttestorBlsKeys' =
                    Put(RetiredAttestorBlsKeys, pair,
                        [key |-> Attestors[pair].key, purge_at_era |-> purge_at_era, stash |-> s])
             /\ UNCHANGED RetiredAttestorKeysByStash

\* Mutant: an attestor that never attested is retired with no key.
MutantRetireKeyless(c, id, s) ==
    LET pair == <<c, id>>
    IN  /\ RetiredAttestorBlsKeys' =
               Put(RetiredAttestorBlsKeys, pair,
                   [key |-> Attestors[pair].key, purge_at_era |-> purge_at_era, stash |-> s])
        /\ RetiredAttestorKeysByStash' = [RetiredAttestorKeysByStash EXCEPT ![s] = @ \cup {pair}]

\* The key stays resolvable, and claimed, until the bond is released.
RetireKey(c, id, s) ==
    LET pair == <<c, id>>
    IN  IF Attestors[pair].key = None
        THEN UNCHANGED <<RetiredAttestorBlsKeys, RetiredAttestorKeysByStash>>
        ELSE /\ Cardinality(RetiredAttestorKeysByStash[s]) < MaxRetired
             /\ RetiredAttestorBlsKeys' =
                    Put(RetiredAttestorBlsKeys, pair,
                        [key |-> Attestors[pair].key, purge_at_era |-> purge_at_era, stash |-> s])
             /\ RetiredAttestorKeysByStash' =
                    [RetiredAttestorKeysByStash EXCEPT ![s] = @ \cup {pair}]

remove_attestor(c, id) ==
    LET s == Attestors[<<c, id>>].stash
    IN  /\ Unbond(c, id, s)
        /\ RetireKey(c, id, s)
        /\ ActiveAttestors' = [ActiveAttestors EXCEPT ![c] = @ \ {id}]
        /\ Attestors' = Without(Attestors, {<<c, id>>})
        /\ AttestorsCount' = [AttestorsCount EXCEPT ![c] = MaxOf(0, @ - 1)]
        /\ UNCHANGED <<Supported, BlsKeyOwner, settings, balance, era, RemovedChainCleanup>>

unregister_attestor(c, s, id) ==
    /\ <<c, id>> \in DOMAIN Attestors
    /\ Attestors[<<c, id>>].stash = s
    /\ Attestors[<<c, id>>].status = "Idle"
    /\ remove_attestor(c, id)

\* Index entries of a stash that withdraw_unbonded may drop, and those it must keep.
Matured(s) ==
    {p \in RetiredAttestorKeysByStash[s] \cap DOMAIN RetiredAttestorBlsKeys :
        /\ RetiredAttestorBlsKeys[p].stash = s
        /\ era >= RetiredAttestorBlsKeys[p].purge_at_era}
Pending(s) ==
    {p \in RetiredAttestorKeysByStash[s] \cap DOMAIN RetiredAttestorBlsKeys :
        /\ RetiredAttestorBlsKeys[p].stash = s
        /\ era < RetiredAttestorBlsKeys[p].purge_at_era}

\* Mutant: every withdrawal purges, whatever the era.
MutantPurgeEarly(s) ==
    LET own == {p \in DOMAIN RetiredAttestorBlsKeys : RetiredAttestorBlsKeys[p].stash = s}
    IN  /\ RetiredAttestorBlsKeys' = Without(RetiredAttestorBlsKeys, own)
        /\ RetiredAttestorKeysByStash' = [RetiredAttestorKeysByStash EXCEPT ![s] = {}]
        /\ BlsKeyOwner' = Without(BlsKeyOwner, OwnerRows(own))

purge_retired_bls_keys_for_stash(s) ==
    /\ RetiredAttestorBlsKeys' = Without(RetiredAttestorBlsKeys, Matured(s))
    /\ RetiredAttestorKeysByStash' = [RetiredAttestorKeysByStash EXCEPT ![s] = Pending(s)]
    /\ BlsKeyOwner' = Without(BlsKeyOwner, OwnerRows(Matured(s)))

\* Mutant: a ledger is closed once its queue is empty.
MutantClosedWhenDrained(ledger) == ledger.unlocking = << >>

\* kill_stash closes a ledger with nothing active and nothing unlocking.
Closed(ledger) ==
    ledger.unlocking = << >> /\ (ledger.active < ExistentialDeposit \/ ledger.active = 0)

withdraw_unbonded(s) ==
    LET ledger == IF era > 0 THEN consolidate_unlocked(Ledger[s]) ELSE Ledger[s]
    IN  /\ Ledger[s] # None
        /\ purge_retired_bls_keys_for_stash(s)
        /\ Ledger' = [Ledger EXCEPT ![s] = IF Closed(ledger) THEN None ELSE ledger]
        /\ UNCHANGED <<Supported, roster, settings, AttestorCollateral, balance, era,
                       RemovedChainCleanup>>

-----------------------------------------------------------------------------
(* The committee *)

\* Mutant: the key of another attestor is accepted.
MutantKeyUnclaimed(c, id, key) == TRUE

\* One key, one controller on a chain; re-asserting one's own key is fine.
KeyUnclaimed(c, id, key) ==
    <<c, key>> \in DOMAIN BlsKeyOwner => BlsKeyOwner[<<c, key>>] = id

\* Mutant: a removed chain still accepts keys.
MutantAttestAnywhere(c, id, key) ==
    LET pair == <<c, id>>
        old == IF Attestors[pair].key \in {None, key} THEN {} ELSE {<<c, Attestors[pair].key>>}
    IN  /\ pair \in DOMAIN Attestors
        /\ Attestors[pair].key # None => Attestors[pair].status = "Idle"
        /\ KeyUnclaimed(c, id, key)
        /\ BlsKeyOwner' = Put(Without(BlsKeyOwner, old), <<c, key>>, id)
        /\ Attestors' = [Attestors EXCEPT ![pair].status = "Waiting", ![pair].key = key]
        /\ UNCHANGED <<Supported, AttestorsCount, ActiveAttestors, RetiredAttestorBlsKeys,
                       RetiredAttestorKeysByStash, settings, bonds, era, RemovedChainCleanup>>

\* attest: the proof of possession is checked, so the controller holds the key.
start_attesting(c, id, key) ==
    LET pair == <<c, id>>
        old == IF Attestors[pair].key \in {None, key} THEN {} ELSE {<<c, Attestors[pair].key>>}
    IN  /\ c \in Supported
        /\ pair \in DOMAIN Attestors
        /\ Attestors[pair].key # None => Attestors[pair].status = "Idle"
        /\ KeyUnclaimed(c, id, key)
        /\ BlsKeyOwner' = Put(Without(BlsKeyOwner, old), <<c, key>>, id)
        /\ Attestors' = [Attestors EXCEPT ![pair].status = "Waiting", ![pair].key = key]
        /\ UNCHANGED <<Supported, AttestorsCount, ActiveAttestors, RetiredAttestorBlsKeys,
                       RetiredAttestorKeysByStash, settings, bonds, era, RemovedChainCleanup>>

do_chill_attestor_immediate(c, id) ==
    /\ Attestors' = SetStatus(Attestors, {<<c, id>>}, "Idle")
    /\ ActiveAttestors' = [ActiveAttestors EXCEPT ![c] = @ \ {id}]

schedule_voluntary_chill(c, id) ==
    /\ Attestors' = SetStatus(Attestors, {<<c, id>>}, "Leaving")
    /\ UNCHANGED ActiveAttestors

chill(c, s, id) ==
    LET pair == <<c, id>>
    IN  /\ pair \in DOMAIN Attestors
        /\ Attestors[pair].stash = s
        /\ \/ Attestors[pair].status = "Waiting" /\ do_chill_attestor_immediate(c, id)
           \/ Attestors[pair].status = "Active" /\ schedule_voluntary_chill(c, id)
        /\ UNCHANGED <<Supported, AttestorsCount, keys, settings, bonds, era, RemovedChainCleanup>>

kick_active_attestor(c, id, unregister) ==
    /\ <<c, id>> \in DOMAIN Attestors
    /\ IF unregister
       THEN remove_attestor(c, id)
       ELSE /\ do_chill_attestor_immediate(c, id)
            /\ UNCHANGED <<Supported, AttestorsCount, keys, settings, bonds, era,
                           RemovedChainCleanup>>

\* Waiting attestors an election admits under the chain's policy.
Admitted(c) ==
    {p \in OfChain(Attestors, c) :
        /\ Attestors[p].status = "Waiting"
        /\ \/ ChainElectionPolicy[c] = "OpenToAny"
           \/ ChainElectionPolicy[c] = "AuthorizedOnly" /\ p \in AuthorizedAttestors}

WithStatus(c, status) == {p \in OfChain(Attestors, c) : Attestors[p].status = status}

\* Mutant: attestors that asked to leave stay in the committee.
MutantElectLeaving(elected) ==
    LET Seated(c) == Admitted(c) \cup WithStatus(c, "Active") \cup WithStatus(c, "Leaving")
    IN  /\ Attestors' = SetStatus(SetStatus(Attestors, UNION {Admitted(c) : c \in elected}, "Active"),
                                  UNION {WithStatus(c, "Leaving") : c \in elected}, "Idle")
        /\ ActiveAttestors' = [c \in Chains |-> IF c \in elected THEN {p[2] : p \in Seated(c)}
                                                ELSE ActiveAttestors[c]]

\* Mutant: a scheduled chill is never carried out.
MutantLeavingForgotten(elected) ==
    LET Seated(c) == Admitted(c) \cup WithStatus(c, "Active") \cup WithStatus(c, "Leaving")
    IN  /\ Attestors' = SetStatus(Attestors, UNION {Admitted(c) : c \in elected}, "Active")
        /\ ActiveAttestors' = [c \in Chains |-> IF c \in elected THEN {p[2] : p \in Seated(c)}
                                                ELSE ActiveAttestors[c]]

elect_attestors_for_chain(elected) ==
    LET Seated(c) == Admitted(c) \cup WithStatus(c, "Active")
    IN  /\ Attestors' = SetStatus(SetStatus(Attestors, UNION {Admitted(c) : c \in elected}, "Active"),
                                  UNION {WithStatus(c, "Leaving") : c \in elected}, "Idle")
        /\ ActiveAttestors' = [c \in Chains |-> IF c \in elected THEN {p[2] : p \in Seated(c)}
                                                ELSE ActiveAttestors[c]]

\* Every epoch elects for every supported chain.
on_new_epoch_randomness ==
    /\ elect_attestors_for_chain(Supported)
    /\ UNCHANGED <<Supported, AttestorsCount, keys, settings, bonds, era, RemovedChainCleanup>>

force_election(c) ==
    /\ c \in Supported
    /\ elect_attestors_for_chain({c})
    /\ UNCHANGED <<Supported, AttestorsCount, keys, settings, bonds, era, RemovedChainCleanup>>

\* Mutant: a simple majority.
MutantMajority(n) == n \div 2 + 1

calculate_quorum(n) == (2 * n) \div 3 + 1

\* Key the signature of a controller is checked with.
gather_attestor_public_key(c, id) ==
    LET pair == <<c, id>>
    IN  IF pair \in DOMAIN Attestors /\ Attestors[pair].key # None THEN Attestors[pair].key
        ELSE IF pair \in DOMAIN RetiredAttestorBlsKeys THEN RetiredAttestorBlsKeys[pair].key
        ELSE None

\* Whether validate_attestation accepts what these controllers signed.
HasQuorum(c, signers) ==
    LET eligible == signers \cap ActiveAttestors[c]
        threshold == calculate_quorum(Cardinality(ActiveAttestors[c]))
        pubkeys == {gather_attestor_public_key(c, id) : id \in eligible}
    IN  /\ Cardinality(signers) <= MaxAttestors[c]
        /\ Cardinality(eligible) >= threshold
        /\ None \notin pubkeys
        /\ Cardinality(pubkeys) >= threshold

-----------------------------------------------------------------------------
(* Settings *)

\* Mutant: the limit may drop below the roster.
MutantLimitUnchecked(c, n) ==
    /\ c \in Supported
    /\ MaxAttestors' = [MaxAttestors EXCEPT ![c] = n]
    /\ UNCHANGED <<Supported, roster, keys, ChainElectionPolicy, AuthorizedAttestors,
                   Invulnerables, MinBondRequirement, bonds, era, RemovedChainCleanup>>

set_max_attestors(c, n) ==
    /\ c \in Supported
    /\ n >= MaxOf(AttestorsCount[c], Cardinality(ActiveAttestors[c]))
    /\ MaxAttestors' = [MaxAttestors EXCEPT ![c] = n]
    /\ UNCHANGED <<Supported, roster, keys, ChainElectionPolicy, AuthorizedAttestors,
                   Invulnerables, MinBondRequirement, bonds, era, RemovedChainCleanup>>

set_min_bond_requirement(c, bond) ==
    /\ MinBondRequirement' = [MinBondRequirement EXCEPT ![c] = bond]
    /\ UNCHANGED <<Supported, roster, keys, MaxAttestors, ChainElectionPolicy,
                   AuthorizedAttestors, Invulnerables, bonds, era, RemovedChainCleanup>>

set_election_policy(c, policy) ==
    /\ c \in Supported
    /\ ChainElectionPolicy' = [ChainElectionPolicy EXCEPT ![c] = policy]
    /\ UNCHANGED <<Supported, roster, keys, MaxAttestors, AuthorizedAttestors, Invulnerables,
                   MinBondRequirement, bonds, era, RemovedChainCleanup>>

authorize_attestor(c, id) ==
    /\ c \in Supported
    /\ <<c, id>> \notin AuthorizedAttestors
    /\ AuthorizedAttestors' = AuthorizedAttestors \cup {<<c, id>>}
    /\ UNCHANGED <<Supported, roster, keys, MaxAttestors, ChainElectionPolicy, Invulnerables,
                   MinBondRequirement, bonds, era, RemovedChainCleanup>>

remove_authorized_attestor(c, id) ==
    /\ <<c, id>> \in AuthorizedAttestors
    /\ AuthorizedAttestors' = AuthorizedAttestors \ {<<c, id>>}
    /\ UNCHANGED <<Supported, roster, keys, MaxAttestors, ChainElectionPolicy, Invulnerables,
                   MinBondRequirement, bonds, era, RemovedChainCleanup>>

\* set_max_invulnerables is left at its default, MaxAttestationNodes.
register_invulnerable(c, id) ==
    /\ c \in Supported
    /\ Cardinality({p \in Invulnerables : p[1] = c}) < MaxAttestationNodes
    /\ Invulnerables' = Invulnerables \cup {<<c, id>>}
    /\ UNCHANGED <<Supported, roster, keys, MaxAttestors, ChainElectionPolicy,
                   AuthorizedAttestors, MinBondRequirement, bonds, era, RemovedChainCleanup>>

unregister_invulnerable(c, id) ==
    /\ <<c, id>> \in Invulnerables
    /\ Invulnerables' = Invulnerables \ {<<c, id>>}
    /\ UNCHANGED <<Supported, roster, keys, MaxAttestors, ChainElectionPolicy,
                   AuthorizedAttestors, MinBondRequirement, bonds, era, RemovedChainCleanup>>

\* A stash spends what is not locked, or is paid; the balances pallet keeps the lock.
transfer(s, amount) ==
    /\ \/ /\ balance[s] - amount >= get_locked_balance(s)
          /\ balance' = [balance EXCEPT ![s] = @ - amount]
       \/ /\ balance[s] + amount <= Endowment
          /\ balance' = [balance EXCEPT ![s] = @ + amount]
    /\ UNCHANGED <<Supported, roster, keys, settings, AttestorCollateral, Ledger, era,
                   RemovedChainCleanup>>

\* Staking starts a new era.
new_era ==
    /\ era < MaxEra
    /\ era' = era + 1
    /\ UNCHANGED <<Supported, roster, keys, settings, bonds, RemovedChainCleanup>>

-----------------------------------------------------------------------------
(* Removal of a chain *)

\* Items a cleanup at a phase still has to handle: attestors past the cursor (1), retired
\* rows (2), key owners (3), invulnerables (4).  A phase is never gone back to.
CleanupWork(c, state) ==
    {i \in  {<<1, id>> : id \in {x \in ControllersOf(c) : x > state.cursor}}
       \cup {<<2, p[2]>> : p \in OfChain(RetiredAttestorBlsKeys, c)}
       \cup {<<3, p[2]>> : p \in OfChain(BlsKeyOwner, c)}
       \cup {<<4, p[2]>> : p \in {q \in Invulnerables : q[1] = c}} : i[1] >= state.phase}

\* Phases in order; attestors in the order of their storage keys.
Ahead(i, j) == i[1] < j[1] \/ (i[1] = 1 /\ j[1] = 1 /\ i[2] < j[2])
InOrder(done, work) == \A j \in done, i \in work : Ahead(i, j) => i \in done

\* Mutant: the next batch starts over.
MutantCursorLost(work, done) ==
    LET left == work \ done
    IN  IF left = {} THEN None ELSE [phase |-> 1, cursor |-> 0]

\* Where the next batch resumes.
NextPhase(work, done) ==
    LET left == work \ done
        phase == CHOOSE t \in 1..4 : (\E i \in left : i[1] = t) /\ \A i \in left : t <= i[1]
        chilled == {i[2] : i \in {j \in done : j[1] = 1}}
    IN  IF left = {} THEN None
        ELSE [phase |-> phase,
              cursor |-> IF phase = 1 THEN CHOOSE x \in chilled : \A y \in chilled : y <= x ELSE 0]

run_removed_chain_cleanup(c, work, done) ==
    LET Items(t) == {<<c, i[2]>> : i \in {j \in done : j[1] = t}}
    IN  /\ Attestors' = SetStatus(Attestors, Items(1), "Idle")
        /\ RetiredAttestorBlsKeys' = Without(RetiredAttestorBlsKeys, Items(2))
        /\ RetiredAttestorKeysByStash' =
               [s \in Stashes |-> RetiredAttestorKeysByStash[s] \
                                      {p \in Items(2) : RetiredAttestorBlsKeys[p].stash = s}]
        /\ BlsKeyOwner' = Without(BlsKeyOwner, Items(3))
        /\ Invulnerables' = Invulnerables \ Items(4)
        /\ RemovedChainCleanup' = [RemovedChainCleanup EXCEPT ![c] = NextPhase(work, done)]

\* Inside a call, clear_prefix deletes every entry this block wrote and applies its limit
\* only to the entries of earlier blocks, so of its phases (3 and 4) any part may go.
TakenInCall(work, done) ==
    LET counted == {i \in work : i[1] <= 2}
    IN  /\ InOrder(done, work)
        /\ Cardinality(done \cap counted) = MinOf(CleanupBudget, Cardinality(counted))

TakenAtBlockStart(work, done) ==
    /\ InOrder(done, work)
    /\ Cardinality(done) = MinOf(CleanupBudget, Cardinality(work))

\* The attestors stay registered, to be unbonded by their stashes.
on_supported_chain_removed(c) ==
    LET work == CleanupWork(c, [phase |-> 1, cursor |-> 0])
    IN  /\ c \in Supported
        /\ Supported' = Supported \ {c}
        /\ ActiveAttestors' = [ActiveAttestors EXCEPT ![c] = {}]
        /\ \E done \in SUBSET work :
               TakenInCall(work, done) /\ run_removed_chain_cleanup(c, work, done)
        /\ MaxAttestors' = [MaxAttestors EXCEPT ![c] = MaxAttestationNodes]
        /\ UNCHANGED <<AttestorsCount, ChainElectionPolicy, AuthorizedAttestors,
                       MinBondRequirement, bonds, era>>

\* The chain the storage map yields first.
FirstInCleanup(c) ==
    /\ RemovedChainCleanup[c] # None
    /\ \A d \in Chains : RemovedChainCleanup[d] # None => c <= d

on_init_cleanup_removed_chains ==
    /\ \E c \in Chains :
          /\ FirstInCleanup(c)
          /\ LET work == CleanupWork(c, RemovedChainCleanup[c])
             IN  \E done \in SUBSET work :
                    TakenAtBlockStart(work, done) /\ run_removed_chain_cleanup(c, work, done)
    /\ UNCHANGED <<Supported, AttestorsCount, ActiveAttestors, MaxAttestors, ChainElectionPolicy,
                   AuthorizedAttestors, MinBondRequirement, bonds, era>>

-----------------------------------------------------------------------------
NoRows == [x \in {} |-> x]

Init ==
    /\ Supported = Chains
    /\ Attestors = NoRows
    /\ AttestorsCount = [c \in Chains |-> 0]
    /\ ActiveAttestors = [c \in Chains |-> {}]
    /\ RetiredAttestorBlsKeys = NoRows
    /\ RetiredAttestorKeysByStash = [s \in Stashes |-> {}]
    /\ BlsKeyOwner = NoRows
    /\ MaxAttestors = [c \in Chains |-> MaxAttestationNodes]
    /\ ChainElectionPolicy = [c \in Chains |-> "OpenToAny"]
    /\ AuthorizedAttestors = {}
    /\ Invulnerables = {}
    /\ MinBondRequirement = [c \in Chains |-> DefaultMinBond]
    /\ AttestorCollateral = NoRows
    /\ Ledger = [s \in Stashes |-> None]
    /\ balance = [s \in Stashes |-> Endowment]
    /\ era = 0
    /\ RemovedChainCleanup = [c \in Chains |-> None]

StashCall ==
    \E s \in Stashes :
        \/ withdraw_unbonded(s)
        \/ \E amount \in Amounts : transfer(s, amount)
        \/ \E c \in Chains, id \in Controllers :
              register_attestor(c, s, id) \/ unregister_attestor(c, s, id) \/ chill(c, s, id)

ControllerCall == \E c \in Chains, id \in Controllers, key \in Keys : start_attesting(c, id, key)

OperatorCall ==
    \E c \in Chains :
        \/ \E id \in Controllers, unregister \in BOOLEAN : kick_active_attestor(c, id, unregister)
        \/ force_election(c)
        \/ \E n \in AttestorLimits : set_max_attestors(c, n)
        \/ \E bond \in MinBonds : set_min_bond_requirement(c, bond)
        \/ \E policy \in Policies : set_election_policy(c, policy)
        \/ \E id \in AuthorizedIds : authorize_attestor(c, id) \/ remove_authorized_attestor(c, id)
        \/ \E id \in InvulnerableIds : register_invulnerable(c, id) \/ unregister_invulnerable(c, id)
        \/ c \in Removable /\ on_supported_chain_removed(c)

Next ==
    \/ StashCall
    \/ ControllerCall
    \/ OperatorCall
    \/ on_new_epoch_randomness
    \/ new_era
    \/ on_init_cleanup_removed_chains

Spec == Init /\ [][Next]_vars

\* Blocks are produced and epochs pass; nobody is obliged to call.
FairSpec == Spec /\ WF_vars(on_init_cleanup_removed_chains) /\ WF_vars(on_new_epoch_randomness)

-----------------------------------------------------------------------------
(* Properties *)

Pairs == Chains \X Controllers
IsRows(f, keySet, valueSet) == DOMAIN f \subseteq keySet /\ \A x \in DOMAIN f : f[x] \in valueSet
Attestor == [stash : Stashes, status : Status, key : Keys \cup {None}]
RetiredEntry == [key : Keys, purge_at_era : Nat, stash : Stashes]

\* Every storage item has its declared type.
TypeOK ==
    /\ Supported \subseteq Chains
    /\ IsRows(Attestors, Pairs, Attestor)
    /\ AttestorsCount \in [Chains -> Nat]
    /\ ActiveAttestors \in [Chains -> SUBSET Controllers]
    /\ IsRows(RetiredAttestorBlsKeys, Pairs, RetiredEntry)
    /\ RetiredAttestorKeysByStash \in [Stashes -> SUBSET Pairs]
    /\ IsRows(BlsKeyOwner, Chains \X Keys, Controllers)
    /\ MaxAttestors \in [Chains -> Nat]
    /\ DOMAIN ChainElectionPolicy = Chains
    /\ AuthorizedAttestors \subseteq Pairs
    /\ Invulnerables \subseteq Chains \X InvulnerableIds
    /\ MinBondRequirement \in [Chains -> Nat]
    /\ IsRows(AttestorCollateral, Pairs, Nat)
    /\ \A s \in Stashes : Ledger[s] # None =>
           /\ Ledger[s].total \in Nat /\ Ledger[s].active \in Nat
           /\ \A i \in DOMAIN Ledger[s].unlocking : Ledger[s].unlocking[i].value \in Nat
    /\ balance \in [Stashes -> Nat]
    /\ era \in Nat
    /\ \A c \in Chains : RemovedChainCleanup[c] # None => RemovedChainCleanup[c].phase \in 1..4

\* The key an attestor holds, live or retired, while its unbonding runs.
Claim(p) ==
    IF p \in DOMAIN Attestors THEN Attestors[p].key
    ELSE IF p \in DOMAIN RetiredAttestorBlsKeys THEN RetiredAttestorBlsKeys[p].key
    ELSE None

\* On a supported chain a key is held by one attestor, live or retired, through any number of
\* rotations, retirements and re-registrations: start_attesting checks BlsKeyOwner, so a
\* missing row would let one signer count twice and a leaked one would block a key for good.
OneKeyOneAttestor ==
    \A c \in Supported :
        \A id \in Controllers, key \in Keys :
            Claim(<<c, id>>) = key <=> <<c, key>> \in DOMAIN BlsKeyOwner /\ BlsKeyOwner[<<c, key>>] = id

\* The committee stored for a supported chain is exactly the attestors whose own status says
\* they sit in it; elections, chills, kicks and unregistrations update both sides.
CommitteeExact ==
    \A c \in Supported :
        ActiveAttestors[c] = {id \in Controllers :
            <<c, id>> \in DOMAIN Attestors /\ Attestors[<<c, id>>].status \in {"Active", "Leaving"}}

\* What the whole committee signs is accepted: it fits the attestor limit, every member's key
\* is found, and the keys are different (the checks validate_attestation makes).
CommitteeCanCommit ==
    \A c \in Supported : ActiveAttestors[c] # {} => HasQuorum(c, ActiveAttestors[c])

\* Two attestations accepted with the same committee share more than a third of its keys, so
\* they cannot disagree unless a third of the signers signed twice.
QuorumsOverlap ==
    \A c \in Supported : \A S, T \in {U \in SUBSET Controllers : HasQuorum(c, U)} :
        LET KeysOf(U) == {gather_attestor_public_key(c, id) : id \in U \cap ActiveAttestors[c]}
        IN  3 * Cardinality(KeysOf(S) \cap KeysOf(T)) > Cardinality(ActiveAttestors[c])

\* AttestorsCount counts the roster and the limit holds for it, whatever the operator set and
\* whenever attestors were kicked: registration and set_max_attestors read the counter only.
RosterWithinLimit ==
    \A c \in Chains :
        /\ AttestorsCount[c] = Cardinality(OfChain(Attestors, c))
        /\ AttestorsCount[c] <= MaxAttestors[c]

\* Retired rows and the index by stash name each other, so a walk of either finds all of them,
\* and no controller is both registered and retired.
RetiredIndexExact ==
    /\ DOMAIN RetiredAttestorBlsKeys \cap DOMAIN Attestors = {}
    /\ \A p \in Pairs, s \in Stashes :
           p \in RetiredAttestorKeysByStash[s]
               <=> p \in DOMAIN RetiredAttestorBlsKeys /\ RetiredAttestorBlsKeys[p].stash = s

\* The ledger adds up: the total is what is active and what is unlocking, the active part is
\* the bonds recorded for the stash's attestors, and chunks mature in queue order.
LedgerAccounts ==
    \A s \in Stashes : Ledger[s] # None =>
        LET chunks == Ledger[s].unlocking
            own == {p \in DOMAIN Attestors : Attestors[p].stash = s}
        IN  /\ Ledger[s].total = Ledger[s].active + SumOf(chunks)
            /\ Ledger[s].active = FoldSet(LAMBDA p, sum : sum + AttestorCollateral[p], 0, own)
            /\ Len(chunks) <= MaxUnlockingChunks
            /\ \A i, j \in DOMAIN chunks : i < j => chunks[i].era < chunks[j].era

\* A stash that never withdraws is never stuck: the unlocking queue has room for one more
\* chunk whenever an attestor leaves, since at most one chunk per era is still maturing.
UnbondingNeverBlocked ==
    \A s \in Stashes : Ledger[s] # None =>
        Len(AddChunk(MakeRoom(Ledger[s]).unlocking, 1)) <= MaxUnlockingChunks

\* The recorded stake is always there: it never exceeds the balance of the stash, whatever
\* the stash moves between registering and withdrawing.
StakeBacked == \A s \in Stashes : Ledger[s] # None => Ledger[s].total <= balance[s]

\* Once the cleanup of a removed chain is over nothing is left that only the chain could
\* release: no key owner, no invulnerable, and every attestor is idle, so it can be unbonded.
RemovedChainQuiet ==
    \A c \in Chains : c \notin Supported /\ RemovedChainCleanup[c] = None =>
        /\ OfChain(BlsKeyOwner, c) = {}
        /\ \A p \in Invulnerables : p[1] # c
        /\ \A p \in OfChain(Attestors, c) : Attestors[p].status = "Idle"

\* A retired key stays resolvable and claimed until the unbonding period it was retired with
\* is over; only its own stash registering the controller again, or the removal of the chain,
\* ends that earlier.
KeyKeptThroughUnbonding ==
    [][\A p \in DOMAIN RetiredAttestorBlsKeys :
          \/ p \in DOMAIN RetiredAttestorBlsKeys' /\ RetiredAttestorBlsKeys'[p] = RetiredAttestorBlsKeys[p]
          \/ era >= RetiredAttestorBlsKeys[p].purge_at_era
          \/ p \in DOMAIN Attestors' /\ Attestors'[p].stash = RetiredAttestorBlsKeys[p].stash
          \/ p[1] \notin Supported']_vars

\* No bond is paid out before the bonding duration: what leaves the ledger's total was queued
\* in chunks whose era has come.
BondHeldUntilMature ==
    [][\A s \in Stashes : Ledger[s] # None =>
          LET held == SelectSeq(Ledger[s].unlocking, LAMBDA chunk : chunk.era > era)
          IN  (IF Ledger'[s] = None THEN 0 ELSE Ledger'[s].total) >= Ledger[s].active + SumOf(held)]_vars

\* The cleanup of a removed chain ends.
RemovalDrains == \A c \in Chains : RemovedChainCleanup[c] # None ~> RemovedChainCleanup[c] = None

\* An attestor that asked to leave does not sit in the committee for good: the next election,
\* a kick or the removal of the chain ends it.
LeavingEnds ==
    \A p \in Pairs : (p \in DOMAIN Attestors /\ Attestors[p].status = "Leaving")
                         ~> ~(p \in DOMAIN Attestors /\ Attestors[p].status = "Leaving")

=============================================================================
