---------------------------- MODULE PairingTrust ----------------------------
(***************************************************************************)
(* What pairing promises, without messages, threads or timers: the order   *)
(* in which the desktop host and a device may make a shared pairing        *)
(* transaction durable in their identity stores.  A peer record climbs     *)
(*                                                                         *)
(*   Unpaired -> Pending -> Committing -> Paired                           *)
(*                                                                         *)
(* and leaves only through Revoking, which opens a new generation.  Every  *)
(* rung is conditioned on what the other store has already published.      *)
(* Module Pairing is the protocol that keeps these conditions by messages. *)
(***************************************************************************)
EXTENDS Naturals

CONSTANTS
    Host,           \* the desktop host: the pairing responder
    Device,         \* the devices and hosted simulators: the initiators
    Tx,             \* pairing transactions (16 random bytes each)
    NoTx,           \* stands in a record that names no transaction
    Owner,          \* which initiator draws which transaction
    MaxGeneration   \* the largest generation a record can carry (u64::MAX)

ASSUME HostAssumption == Host \notin Device
ASSUME OwnerAssumption == Owner \in [Tx -> Device]
ASSUME NoTxAssumption == NoTx \notin Tx
ASSUME GenerationAssumption == MaxGeneration \in Nat

VARIABLES
    peer,       \* peer[s]: the durable peer record of store s
    gen,        \* gen[s]: the durable generation of store s
    consent,    \* consent[r]: transactions the person at role r confirmed
    log         \* history: every peer record ever published, by whom and in
                \* which generation

durable == <<peer, gen, consent, log>>

Store == Device \cup {Host}
Role == {"initiator", "responder"}
PeerState == {"Unpaired", "Pending", "Committing", "Paired", "Revoking"}

Unpaired == [state |-> "Unpaired", tx |-> NoTx]
PeerRecord == {Unpaired} \cup [state : PeerState \ {"Unpaired"}, tx : Tx]

\* The states that bind a store to a transaction under its generation.
Binding == {"Pending", "Committing", "Paired"}

Party(t) == {Owner[t], Host}
Entry(s, state, t) == [store |-> s, state |-> state, tx |-> t, gen |-> gen[s]]
LogEntry == [store : Store, state : Binding, tx : Tx, gen : 0..MaxGeneration]

\* Store s has, at some time, published transaction t in this state.
Published(s, state, t) ==
    \E e \in log : e.store = s /\ e.state = state /\ e.tx = t

TrustTypeOK ==
    /\ peer \in [Store -> PeerRecord]
    /\ gen \in [Store -> 0..MaxGeneration]
    /\ consent \in [Role -> SUBSET Tx]
    /\ log \subseteq LogEntry

-----------------------------------------------------------------------------
TrustInit ==
    /\ peer = [s \in Store |-> Unpaired]
    /\ gen = [s \in Store |-> 0]
    /\ consent = [r \in Role |-> {}]
    /\ log = {}

\* A person compares the six digits and confirms.
Consent(r, t) ==
    /\ consent' = [consent EXCEPT ![r] = @ \cup {t}]
    /\ UNCHANGED <<peer, gen, log>>

\* Store s makes transaction t durable in the given state.
Publish(s, state, t) ==
    /\ peer' = [peer EXCEPT ![s] = [state |-> state, tx |-> t]]
    /\ log' = log \cup {Entry(s, state, t)}
    /\ UNCHANGED <<gen, consent>>

\* Nobody prepares before both people confirmed; the host prepares second.
\* A transaction is prepared once: every attempt to pair draws a new one.
Prepare(s, t) ==
    /\ peer[s] = Unpaired
    /\ \A e \in log : ~(e.store = s /\ e.tx = t)
    /\ t \in consent["initiator"] /\ t \in consent["responder"]
    /\ s = Host => Published(Owner[t], "Pending", t)
    /\ Publish(s, "Pending", t)

\* The host commits first.
Commit(s, t) ==
    /\ peer[s] = [state |-> "Pending", tx |-> t]
    /\ s # Host => Published(Host, "Committing", t)
    /\ Publish(s, "Committing", t)

\* The device trusts first, and only a host that is itself committed; the
\* host trusts once the device does.
Trust(s, t) ==
    /\ peer[s] = [state |-> "Committing", tx |-> t]
    /\ s = Host => Published(Owner[t], "Paired", t)
    /\ Publish(s, "Paired", t)

\* The owner of store s names the exact remote peer: trust ends at once and
\* the generation moves on.
Revoke(s) ==
    /\ peer[s].state \in Binding
    /\ gen[s] < MaxGeneration
    /\ peer' = [peer EXCEPT ![s] = [state |-> "Revoking", tx |-> @.tx]]
    /\ gen' = [gen EXCEPT ![s] = @ + 1]
    /\ UNCHANGED <<consent, log>>

\* The revoked record is erased: the store may pair again.
Forget(s) ==
    /\ peer[s].state = "Revoking"
    /\ peer' = [peer EXCEPT ![s] = Unpaired]
    /\ UNCHANGED <<gen, consent, log>>

TrustNext ==
    \/ \E r \in Role, t \in Tx : Consent(r, t)
    \/ \E t \in Tx : \E s \in Party(t) :
          Prepare(s, t) \/ Commit(s, t) \/ Trust(s, t)
    \/ \E s \in Store : Revoke(s) \/ Forget(s)

TrustSpec == TrustInit /\ [][TrustNext]_durable

-----------------------------------------------------------------------------
(* The host never trusts a device that has not itself made this very       *)
(* transaction trusted, and a device never trusts a host that has not      *)
(* durably committed to it: whatever crashes, neither is left trusting a   *)
(* peer that never got that far (pair_responder_stream_reserved_inner and  *)
(* pair_session publish in this order).                                    *)
MutualTrust ==
    \A t \in Tx :
        /\ Published(Host, "Paired", t) => Published(Owner[t], "Paired", t)
        /\ Published(Owner[t], "Paired", t) => Published(Host, "Committing", t)

(* The same, read off the records alone: when one side is Paired and the   *)
(* other still holds the same transaction, the other is not behind it.     *)
NoHalfTrust ==
    \A t \in Tx :
        LET h == peer[Host]
            d == peer[Owner[t]]
        IN h.tx = t /\ d.tx = t =>
              /\ h.state = "Paired" => d.state \in {"Paired", "Revoking"}
              /\ d.state = "Paired" =>
                    h.state \in {"Committing", "Paired", "Revoking"}

(* No store holds a record of a transaction, in any state, that one of the *)
(* two people did not confirm.                                             *)
TrustByConsent ==
    \A s \in Store : peer[s].state # "Unpaired" =>
        \A r \in Role : peer[s].tx \in consent[r]

(* A generation identifies one pairing: within one generation of a store   *)
(* every published record is of the same transaction.  Sessions pin a      *)
(* generation only (verify_pinned_peer, paired_generation), so this is what*)
(* keeps a session of an earlier pairing from surviving into the next.     *)
GenerationPinsTransaction ==
    \A e, f \in log :
        e.store = f.store /\ e.gen = f.gen => e.tx = f.tx

-----------------------------------------------------------------------------
(* The inductive strengthening the proofs use.                             *)

Rank == [Pending |-> 1, Committing |-> 2, Paired |-> 3]

\* A record that binds is the one logged under the current generation.
RecordIsLogged ==
    \A s \in Store : peer[s].state \in Binding =>
        Entry(s, peer[s].state, peer[s].tx) \in log

\* While a store holds a transaction, nothing logged of it is further on.
RecordIsLatest ==
    \A e \in log :
        peer[e.store].tx = e.tx /\ peer[e.store].state # "Revoking" =>
            /\ peer[e.store].state \in Binding
            /\ Rank[e.state] <= Rank[peer[e.store].state]

\* An entry of the current generation is of the transaction still held.
LogWithinGeneration ==
    \A e \in log :
        /\ e.gen <= gen[e.store]
        /\ e.gen = gen[e.store] =>
              peer[e.store].state \in Binding /\ peer[e.store].tx = e.tx

\* A device commits to nothing the host has not committed to.
HostCommitsFirst ==
    \A t \in Tx :
        Published(Owner[t], "Committing", t) => Published(Host, "Committing", t)

\* What the stores' publications keep invariant: the properties above and what
\* makes them inductive.
TrustInv ==
    /\ TrustTypeOK
    /\ RecordIsLogged
    /\ RecordIsLatest
    /\ LogWithinGeneration
    /\ HostCommitsFirst
    /\ MutualTrust
    /\ TrustByConsent
    /\ GenerationPinsTransaction
=============================================================================
