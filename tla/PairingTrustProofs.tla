------------------------- MODULE PairingTrustProofs -------------------------
(***************************************************************************)
(* The promises of PairingTrust hold for every set of devices and          *)
(* transactions and every generation bound.                                *)
(***************************************************************************)
EXTENDS PairingTrust, TLAPS

\* Every publication puts a rung of a transaction into a store that takes
\* part in it.
LEMMA PartyIsStore ==
    ASSUME NEW t \in Tx, NEW s \in Party(t)
    PROVE  s \in Store /\ (s # Host => s = Owner[t]) /\ Owner[t] \in Store
                       /\ Owner[t] # Host
  BY HostAssumption, OwnerAssumption DEF Party, Store

\* The initial state satisfies the inductive invariant.
LEMMA TrustInitInv == TrustInit => TrustInv
  BY GenerationAssumption
  DEF TrustInit, TrustInv, TrustTypeOK, PeerRecord, Unpaired, LogEntry, RecordIsLogged, Binding,
      RecordIsLatest, LogWithinGeneration, HostCommitsFirst, MutualTrust,
      TrustByConsent, GenerationPinsTransaction, Published, Role

\* A person confirming disturbs nothing durable.
LEMMA ConsentInv ==
    ASSUME TrustInv, NEW r \in Role, NEW t \in Tx, Consent(r, t)
    PROVE  TrustInv'
  <1>1. TrustTypeOK'
    BY DEF TrustInv, TrustTypeOK, Consent
  <1>2. TrustByConsent'
    BY DEF TrustInv, TrustTypeOK, Consent, TrustByConsent
  <1> QED
    BY <1>1, <1>2
    DEF TrustInv, Consent, RecordIsLogged, RecordIsLatest, LogWithinGeneration, Entry,
        HostCommitsFirst, MutualTrust, GenerationPinsTransaction, Published

\* What a publication leaves behind, whatever rung it is.
LEMMA PublishLog ==
    ASSUME TrustTypeOK, NEW t \in Tx, NEW s \in Store, NEW state \in Binding,
           Publish(s, state, t)
    PROVE  /\ TrustTypeOK'
           /\ \A u \in Store, st \in Binding, x \in Tx :
                 Published(u, st, x)' <=>
                    Published(u, st, x) \/ (u = s /\ st = state /\ x = t)
           /\ peer' = [peer EXCEPT ![s] = [state |-> state, tx |-> t]]
           /\ \A u \in Store, st \in Binding, x \in Tx : Entry(u, st, x)' = Entry(u, st, x)
  <1>1. Entry(s, state, t) \in LogEntry
    BY DEF TrustTypeOK, Entry, LogEntry
  <1>2. [state |-> state, tx |-> t] \in PeerRecord
    BY DEF PeerRecord, Binding, PeerState
  <1>3. TrustTypeOK'
    BY <1>1, <1>2 DEF TrustTypeOK, Publish
  <1>4. \A u \in Store, st \in Binding, x \in Tx :
           Published(u, st, x)' <=>
              Published(u, st, x) \/ (u = s /\ st = state /\ x = t)
    <2> DEFINE new == Entry(s, state, t)
    <2>1. log' = log \cup {new} /\ new.store = s /\ new.state = state /\ new.tx = t
      BY DEF Publish, Entry
    <2> HIDE DEF new
    <2> QED
      BY <2>1 DEF Published
  <1> QED
    BY <1>3, <1>4 DEF Publish, Entry

\* A publication of t by s on the next rung keeps the record the latest of its
\* transaction and of its generation.
LEMMA PublishRecord ==
    ASSUME TrustInv, NEW t \in Tx, NEW s \in Store, NEW state \in Binding,
           Publish(s, state, t),
           \/ peer[s] = Unpaired /\ \A e \in log : ~(e.store = s /\ e.tx = t)
           \/ /\ peer[s].state \in Binding /\ peer[s].tx = t
              /\ Rank[peer[s].state] <= Rank[state]
    PROVE  /\ RecordIsLogged'
           /\ RecordIsLatest'
           /\ LogWithinGeneration'
           /\ GenerationPinsTransaction'
  <1> DEFINE new == Entry(s, state, t)
  <1>0. /\ TrustTypeOK /\ log' = log \cup {new} /\ gen' = gen
        /\ peer' = [peer EXCEPT ![s] = [state |-> state, tx |-> t]]
    BY DEF TrustInv, Publish
  <1>1. /\ new.store = s /\ new.state = state /\ new.tx = t /\ new.gen = gen[s]
        /\ new \in log'
    BY <1>0 DEF Entry
  <1>2. /\ peer'[s].state = state /\ peer'[s].tx = t
        /\ \A u \in Store \ {s} : peer'[u] = peer[u]
    BY <1>0 DEF TrustTypeOK
  <1>3. \A e \in log : e.store \in Store /\ e.state \in Binding /\ e.tx \in Tx /\ e.gen \in Nat
    BY <1>0, GenerationAssumption DEF TrustTypeOK, LogEntry
  <1>4. \A st \in Binding : Rank[st] \in Nat
    BY DEF Binding, Rank
  <1>5. gen[s] \in Nat
    BY <1>0, GenerationAssumption DEF TrustTypeOK
  <1>6. RecordIsLogged'
    BY <1>0, <1>2 DEF TrustInv, RecordIsLogged, Entry
  <1>7. RecordIsLatest'
    <2> SUFFICES ASSUME NEW e \in log',
                        peer'[e.store].tx = e.tx, peer'[e.store].state # "Revoking"
                 PROVE  /\ peer'[e.store].state \in Binding
                        /\ Rank[e.state] <= Rank[peer'[e.store].state]
      BY DEF RecordIsLatest
    <2>1. CASE e = new
      BY <2>1, <1>1, <1>2, <1>4
    <2>2. CASE e \in log /\ e.store # s
      BY <2>2, <1>2, <1>3 DEF TrustInv, RecordIsLatest
    <2>3. CASE e \in log /\ e.store = s
      <3>1. e.tx = t
        BY <2>3, <1>2
      <3>2. /\ peer[s].state \in Binding /\ peer[s].tx = t
            /\ Rank[peer[s].state] <= Rank[state]
        BY <2>3, <3>1
      <3>3. Rank[e.state] <= Rank[peer[s].state]
        BY <2>3, <3>1, <3>2 DEF TrustInv, RecordIsLatest, Binding
      <3> QED
        BY <2>3, <3>2, <3>3, <1>2, <1>3, <1>4
    <2> QED
      BY <2>1, <2>2, <2>3, <1>0
  <1>8. LogWithinGeneration'
    <2> SUFFICES ASSUME NEW e \in log'
                 PROVE  /\ e.gen <= gen[e.store]
                        /\ e.gen = gen[e.store] =>
                             peer'[e.store].state \in Binding /\ peer'[e.store].tx = e.tx
      BY <1>0 DEF LogWithinGeneration
    <2>1. CASE e = new
      BY <2>1, <1>1, <1>2, <1>5
    <2>2. CASE e \in log /\ e.store # s
      BY <2>2, <1>2, <1>3 DEF TrustInv, LogWithinGeneration
    <2>3. CASE e \in log /\ e.store = s
      BY <2>3, <1>2, <1>3 DEF TrustInv, LogWithinGeneration, Unpaired, Binding
    <2> QED
      BY <2>1, <2>2, <2>3, <1>0
  <1>9. GenerationPinsTransaction'
    <2>1. \A e \in log : e.store = s /\ e.gen = gen[s] => e.tx = t
      BY <1>3 DEF TrustInv, LogWithinGeneration, Unpaired, Binding
    <2> QED
      BY <2>1, <1>0, <1>1 DEF TrustInv, GenerationPinsTransaction
  <1> QED
    BY <1>6, <1>7, <1>8, <1>9

\* Prepare preserves the invariant: its record is the first of its transaction.
LEMMA PrepareInv ==
    ASSUME TrustInv, NEW t \in Tx, NEW s \in Party(t), Prepare(s, t)
    PROVE  TrustInv'
  <1>0. s \in Store /\ "Pending" \in Binding /\ Publish(s, "Pending", t) /\ TrustTypeOK
    BY PartyIsStore DEF Prepare, TrustInv, Binding
  <1>1. /\ TrustTypeOK'
        /\ \A u \in Store, st \in Binding, x \in Tx :
              Published(u, st, x)' <=>
                 Published(u, st, x) \/ (u = s /\ st = "Pending" /\ x = t)
    BY <1>0, PublishLog
  <1>2. /\ RecordIsLogged' /\ RecordIsLatest' /\ LogWithinGeneration'
        /\ GenerationPinsTransaction'
    BY <1>0, PublishRecord DEF Prepare
  <1>3. HostCommitsFirst' /\ MutualTrust'
    BY <1>1, PartyIsStore, OwnerAssumption
    DEF TrustInv, HostCommitsFirst, MutualTrust, Binding, Store
  <1>4. TrustByConsent'
    BY <1>0 DEF TrustInv, TrustTypeOK, TrustByConsent, Prepare, Publish, Role
  <1> QED
    BY <1>1, <1>2, <1>3, <1>4 DEF TrustInv

\* Commit preserves the invariant: the host is there before the device.
LEMMA CommitInv ==
    ASSUME TrustInv, NEW t \in Tx, NEW s \in Party(t), Commit(s, t)
    PROVE  TrustInv'
  <1>0. s \in Store /\ "Committing" \in Binding /\ Publish(s, "Committing", t) /\ TrustTypeOK
    BY PartyIsStore DEF Commit, TrustInv, Binding
  <1>1. /\ TrustTypeOK'
        /\ \A u \in Store, st \in Binding, x \in Tx :
              Published(u, st, x)' <=>
                 Published(u, st, x) \/ (u = s /\ st = "Committing" /\ x = t)
    BY <1>0, PublishLog
  <1>2. /\ RecordIsLogged' /\ RecordIsLatest' /\ LogWithinGeneration'
        /\ GenerationPinsTransaction'
    BY <1>0, PublishRecord DEF Commit, Binding, Rank
  <1>3. HostCommitsFirst' /\ MutualTrust'
    BY <1>1, PartyIsStore, OwnerAssumption
    DEF TrustInv, HostCommitsFirst, MutualTrust, Binding, Store, Commit
  <1>4. TrustByConsent'
    BY <1>0 DEF TrustInv, TrustTypeOK, TrustByConsent, Commit, Publish, Role
  <1> QED
    BY <1>1, <1>2, <1>3, <1>4 DEF TrustInv

\* Trust preserves the invariant: the device is there before the host.
LEMMA TrustStepInv ==
    ASSUME TrustInv, NEW t \in Tx, NEW s \in Party(t), Trust(s, t)
    PROVE  TrustInv'
  <1>0. s \in Store /\ "Paired" \in Binding /\ Publish(s, "Paired", t) /\ TrustTypeOK
    BY PartyIsStore DEF Trust, TrustInv, Binding
  <1>1. /\ TrustTypeOK'
        /\ \A u \in Store, st \in Binding, x \in Tx :
              Published(u, st, x)' <=>
                 Published(u, st, x) \/ (u = s /\ st = "Paired" /\ x = t)
    BY <1>0, PublishLog
  <1>2. /\ RecordIsLogged' /\ RecordIsLatest' /\ LogWithinGeneration'
        /\ GenerationPinsTransaction'
    BY <1>0, PublishRecord DEF Trust, Binding, Rank
  <1>3. Published(s, "Committing", t)
    <2> DEFINE e == Entry(s, "Committing", t)
    <2>1. e \in log
      BY <1>0 DEF TrustInv, RecordIsLogged, Trust, Binding
    <2>2. e.store = s /\ e.state = "Committing" /\ e.tx = t
      BY DEF Entry
    <2> HIDE DEF e
    <2> QED
      BY <2>1, <2>2 DEF Published
  <1>4. HostCommitsFirst' /\ MutualTrust'
    BY <1>1, <1>3, PartyIsStore, OwnerAssumption
    DEF TrustInv, HostCommitsFirst, MutualTrust, Binding, Store, Trust
  <1>5. TrustByConsent'
    BY <1>0 DEF TrustInv, TrustTypeOK, TrustByConsent, Trust, Publish, Role
  <1> QED
    BY <1>1, <1>2, <1>4, <1>5 DEF TrustInv

\* Revoke preserves the invariant: the new generation has no entries yet.
LEMMA RevokeInv ==
    ASSUME TrustInv, NEW s \in Store, Revoke(s)
    PROVE  TrustInv'
  <1>0. /\ TrustTypeOK /\ log' = log /\ consent' = consent
        /\ gen' = [gen EXCEPT ![s] = @ + 1] /\ gen[s] < MaxGeneration
        /\ peer' = [peer EXCEPT ![s] = [state |-> "Revoking", tx |-> peer[s].tx]]
        /\ peer[s].state \in Binding
    BY DEF TrustInv, Revoke
  <1>1. peer[s].tx \in Tx
    BY <1>0 DEF TrustTypeOK, PeerRecord, Unpaired, Binding
  <1>2. [state |-> "Revoking", tx |-> peer[s].tx] \in PeerRecord
    BY <1>1 DEF PeerRecord, PeerState
  <1>3. TrustTypeOK'
    BY <1>0, <1>2, GenerationAssumption DEF TrustTypeOK
  <1>4. \A e \in log : e.store \in Store /\ e.gen \in Nat
    BY <1>0, GenerationAssumption DEF TrustTypeOK, LogEntry
  <1>5. RecordIsLogged'
    BY <1>0 DEF TrustInv, TrustTypeOK, RecordIsLogged, Entry, Binding
  <1>6. RecordIsLatest'
    BY <1>0, <1>4 DEF TrustInv, TrustTypeOK, RecordIsLatest
  <1>7. LogWithinGeneration'
    BY <1>0, <1>4, GenerationAssumption DEF TrustInv, TrustTypeOK, LogWithinGeneration
  <1>8. TrustByConsent'
    BY <1>0 DEF TrustInv, TrustTypeOK, TrustByConsent, Binding
  <1> QED
    BY <1>0, <1>3, <1>5, <1>6, <1>7, <1>8
    DEF TrustInv, HostCommitsFirst, MutualTrust, GenerationPinsTransaction, Published

\* Forget preserves the invariant.
LEMMA ForgetInv ==
    ASSUME TrustInv, NEW s \in Store, Forget(s)
    PROVE  TrustInv'
  <1>0. /\ TrustTypeOK /\ log' = log /\ consent' = consent /\ gen' = gen
        /\ peer' = [peer EXCEPT ![s] = Unpaired]
        /\ peer[s].state = "Revoking"
    BY DEF TrustInv, Forget
  <1>1. TrustTypeOK'
    BY <1>0 DEF TrustTypeOK, PeerRecord
  <1>2. \A e \in log : e.store \in Store /\ e.tx \in Tx
    BY <1>0 DEF TrustTypeOK, LogEntry
  <1>3. RecordIsLogged'
    BY <1>0 DEF TrustInv, TrustTypeOK, RecordIsLogged, Entry, Binding, Unpaired
  <1>4. RecordIsLatest'
    BY <1>0, <1>2, NoTxAssumption DEF TrustInv, TrustTypeOK, RecordIsLatest, Unpaired
  <1>5. LogWithinGeneration'
    BY <1>0, <1>2 DEF TrustInv, TrustTypeOK, LogWithinGeneration, Binding
  <1>6. TrustByConsent'
    BY <1>0 DEF TrustInv, TrustTypeOK, TrustByConsent, Unpaired
  <1> QED
    BY <1>0, <1>1, <1>3, <1>4, <1>5, <1>6
    DEF TrustInv, HostCommitsFirst, MutualTrust, GenerationPinsTransaction, Published

\* The invariant is inductive.
LEMMA TrustNextInv == TrustInv /\ [TrustNext]_durable => TrustInv'
  <1> SUFFICES ASSUME TrustInv, [TrustNext]_durable PROVE TrustInv'
    OBVIOUS
  <1>1. CASE UNCHANGED durable
    BY <1>1
    DEF durable, TrustInv, TrustTypeOK, RecordIsLogged, RecordIsLatest, LogWithinGeneration,
        Entry, HostCommitsFirst, MutualTrust, TrustByConsent,
        GenerationPinsTransaction, Published
  <1>2. CASE TrustNext
    BY <1>2, ConsentInv, PrepareInv, CommitInv, TrustStepInv, RevokeInv, ForgetInv DEF TrustNext
  <1> QED
    BY <1>1, <1>2

\* The inductive invariant holds in every reachable state.
THEOREM TrustInvariance == TrustSpec => []TrustInv
  BY TrustInitInv, TrustNextInv, PTL DEF TrustSpec

\* The two records of one transaction never show one-sided trust: the log
\* orders the rungs and a record is the latest entry of its transaction.
THEOREM TrustIsMutual == TrustSpec => [](MutualTrust /\ NoHalfTrust)
  <1>1. TrustInv => MutualTrust
    BY DEF TrustInv
  <1>2. TrustInv => NoHalfTrust
    <2> SUFFICES ASSUME TrustInv, NEW t \in Tx, peer[Host].tx = t, peer[Owner[t]].tx = t
                 PROVE  /\ peer[Host].state = "Paired" =>
                             peer[Owner[t]].state \in {"Paired", "Revoking"}
                        /\ peer[Owner[t]].state = "Paired" =>
                             peer[Host].state \in {"Committing", "Paired", "Revoking"}
      BY DEF NoHalfTrust
    <2>0. Host \in Store /\ Owner[t] \in Store /\ MutualTrust
      BY OwnerAssumption DEF Store, TrustInv
    <2>1. \A s \in {Host, Owner[t]} : peer[s].state = "Paired" => Published(s, "Paired", t)
      <3> SUFFICES ASSUME NEW s \in {Host, Owner[t]}, peer[s].state = "Paired"
                   PROVE  Published(s, "Paired", t)
        OBVIOUS
      <3> DEFINE e == Entry(s, "Paired", t)
      <3>1. e \in log
        BY <2>0 DEF TrustInv, RecordIsLogged, Binding
      <3>2. e.store = s /\ e.state = "Paired" /\ e.tx = t
        BY DEF Entry
      <3> HIDE DEF e
      <3> QED
        BY <3>1, <3>2 DEF Published
    <2>2. \A s \in {Host, Owner[t]}, st \in Binding :
             Published(s, st, t) /\ peer[s].state # "Revoking" =>
                peer[s].state \in Binding /\ Rank[st] <= Rank[peer[s].state]
      BY DEF TrustInv, RecordIsLatest, Published
    <2>3. ASSUME peer[Host].state = "Paired"
          PROVE  peer[Owner[t]].state \in {"Paired", "Revoking"}
      BY <2>0, <2>1, <2>2, <2>3 DEF MutualTrust, Binding, Rank
    <2>4. ASSUME peer[Owner[t]].state = "Paired"
          PROVE  peer[Host].state \in {"Committing", "Paired", "Revoking"}
      BY <2>0, <2>1, <2>2, <2>4 DEF MutualTrust, Binding, Rank
    <2> QED
      BY <2>3, <2>4
  <1> QED
    BY <1>1, <1>2, TrustInvariance, PTL

\* Nothing is made durable without both confirmations, and a generation names
\* one transaction.
THEOREM TrustIsPinned == TrustSpec => [](TrustByConsent /\ GenerationPinsTransaction)
  <1>1. TrustInv => TrustByConsent /\ GenerationPinsTransaction
    BY DEF TrustInv
  <1> QED
    BY <1>1, TrustInvariance, PTL
=============================================================================
