---------------------------- MODULE MCRegistryStakes ----------------------------
(* AttestorRegistry with a history variable: the retired controllers whose bond  *)
(* was too small for the ledger to keep, so that nothing unlocks for them.       *)
EXTENDS MCAttestorRegistry
VARIABLE unbacked

\* do_withdraw_unbonded keeps a ledger open for such a bond.
Backed(bond) == bond > 0 /\ bond >= ExistentialDeposit

StakesInit == Init /\ unbacked = {}

StakesNext ==
    /\ Next
    /\ unbacked' = {p \in DOMAIN RetiredAttestorBlsKeys' :
                        IF p \in DOMAIN Attestors THEN ~Backed(AttestorCollateral[p])
                        ELSE p \in unbacked}

StakesSpec == StakesInit /\ [][StakesNext]_<<vars, unbacked>>

\* A ledger is closed only when its stash has no bonded attestor left and no retired key that
\* waits for a bond: unregistering, kicking with removal, and withdraw_unbonded, which purges
\* the keys, all need the ledger.  A bond of zero, which set_min_bond_requirement allows, is
\* excepted: withdraw_unbonded closes the ledger of a stash whose attestors all bonded zero.
ClosedStashIsDone ==
    /\ \A p \in DOMAIN Attestors :
           Backed(AttestorCollateral[p]) => Ledger[Attestors[p].stash] # None
    /\ \A p \in DOMAIN RetiredAttestorBlsKeys \ unbacked :
           Ledger[RetiredAttestorBlsKeys[p].stash] # None
==============================================================================
