----------------------------- MODULE MCChainSteady -----------------------------
(* AttestationChain with a history variable: whether the whole checkpointing     *)
(* queue was collected at the settings now in force.                              *)
EXTENDS MCAttestationChain
VARIABLE steady

SteadyInit == Init /\ steady = TRUE

SteadyNext ==
    /\ Next
    /\ steady' = \/ CheckpointingQueue' = << >>
                 \/ steady /\ checkpoint_width' = checkpoint_width

SteadySpec == SteadyInit /\ [][SteadyNext]_<<vars, steady>>

\* "A chain holds at most 2 * checkpoint_interval + 1 queued attestations at a
\* fixed setting": a queue filled at one setting respects the bound.
SteadyQueueWithinBound == steady => QueueWithinBound
==============================================================================
