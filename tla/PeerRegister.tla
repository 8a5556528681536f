---------------------------- MODULE PeerRegister ----------------------------
(***************************************************************************)
(* What the identity store promises: one record, whose changes are the     *)
(* legal ones of a peer, each made in one step.  A change is visible before *)
(* it is durable; losing power may take the latest visible change back.    *)
(***************************************************************************)
EXTENDS Naturals

CONSTANTS
    Owner,          \* who may create a local key
    GenerationMax   \* u64::MAX in the code

VARIABLES
    visible,    \* the record a reader gets
    durable     \* the record that survives a power loss

Identity(key, generation, peer) == [key |-> key, generation |-> generation, peer |-> peer]
Missing == Identity("none", 0, "none")

\* A new store has a fresh key, generation zero and no peer.
Created(old, new) == old = Missing /\ \E k \in Owner : new = Identity(k, 0, "Unpaired")

\* Pairing goes through its three states in order, within a generation.
Advanced(old, new) ==
    /\ new.key = old.key /\ new.generation = old.generation
    /\ <<old.peer, new.peer>> \in
          {<<"Unpaired", "Pending">>, <<"Pending", "Committing">>, <<"Committing", "Paired">>}

\* A revocation ends the generation, and only then is the peer forgotten.
Revoked(old, new) ==
    /\ old.peer \in {"Pending", "Committing", "Paired"} /\ old.generation < GenerationMax
    /\ new = Identity(old.key, old.generation + 1, "Revoking")
Forgotten(old, new) ==
    old.peer = "Revoking" /\ new = Identity(old.key, old.generation, "Unpaired")

Change ==
    /\ \/ Created(visible, visible') \/ Advanced(visible, visible')
       \/ Revoked(visible, visible') \/ Forgotten(visible, visible')
    /\ UNCHANGED durable

Persist == durable' = visible /\ UNCHANGED visible

Lose == visible' = durable /\ UNCHANGED durable

RegisterInit == visible = Missing /\ durable = Missing
RegisterNext == Change \/ Persist \/ Lose
RegisterSpec == RegisterInit /\ [][RegisterNext]_<<visible, durable>>

=============================================================================
