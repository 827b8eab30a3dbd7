---------------------------- MODULE CdcSinkProofs -----------------------------
(***************************************************************************)
(* Proofs about CdcSink for any tables, any number of changes, restarts and   *)
(* failed publications, and any size of batches.                              *)
(***************************************************************************)
EXTENDS CdcSink, GatewayFollower, TLAPS

Ops == {"create", "update", "delete"}

LEMMA OperationsKnown == \A t : OperationsOn(t) \subseteq Ops
BY DEF OperationsOn, Ops

LEMMA ItemsOfSeq ==
  ASSUME NEW S, NEW q \in Seq(S)
  PROVE  /\ Len(q) \in Nat /\ DOMAIN q = 1..Len(q)
         /\ \A i \in 1..Len(q) : q[i] \in S
OBVIOUS

\* What the types say, each fact for itself.
LEMMA LogFacts ==
  ASSUME TypeOK
  PROVE  /\ Len(log) \in Nat /\ DOMAIN log = 1..Len(log)
         /\ \A i \in 1..Len(log) : i \in Nat /\ log[i].table \in Tables
                                /\ log[i].op \in {"create", "update", "delete"}
         /\ \A t \in Tables : decided[t] \in Nat /\ decided[t] <= Len(log)
         /\ \A t \in Tables : received[t] \in Nat /\ received[t] <= Len(log)
         /\ \A n \in DOMAIN feed : feed[n] \in 1..Len(log)
         /\ \A s \in skipped : s.at \in 1..Len(log)
         /\ faults \in Nat
<1>. DEFINE Change == [table : Tables, op : {"create", "update", "delete"}]
<1>1. log \in Seq(Change)
  BY DEF TypeOK
<1>2. /\ Len(log) \in Nat /\ DOMAIN log = 1..Len(log)
      /\ \A i \in 1..Len(log) : log[i] \in Change
  <2>. HIDE DEF Change
  <2>. QED
    BY <1>1, ItemsOfSeq
<1>3. \A i \in 1..Len(log) : log[i].table \in Tables
                           /\ log[i].op \in {"create", "update", "delete"}
  BY <1>2
<1>4. \A t \in Tables : decided[t] \in 0..Len(log) /\ received[t] \in 0..Len(log)
  BY DEF TypeOK
<1>5. feed \in Seq(1..Len(log))
  BY DEF TypeOK
<1>6. \A n \in DOMAIN feed : feed[n] \in 1..Len(log)
  BY <1>5
<1>7. \A s \in skipped : s \in [at : 1..Len(log), why : Reasons]
  BY DEF TypeOK
<1>8. faults \in Nat
  BY CdcAssumption DEF TypeOK
<1>. QED
  BY <1>2, <1>3, <1>4, <1>6, <1>7, <1>8

\* A change that the sink has come to.
LEMMA HandlesFacts ==
  ASSUME IInv, NEW t \in Tables, NEW i \in DOMAIN log, Handles(t, i)
  PROVE  /\ i \in 1..Len(log) /\ log[i].table = t
         /\ decided[t] < i /\ i <= received[t]
         /\ \A j \in DOMAIN log : log[j].table = t /\ decided[t] < j => i <= j
         /\ t \in announced \ relation
<1>1. TypeOK /\ MemoryInv
  BY DEF IInv
<1>. QED
  BY <1>1, LogFacts DEF Handles, Of, MemoryInv

\* It was neither published nor passed over before.
LEMMA HandlesFresh ==
  ASSUME IInv, NEW t \in Tables, NEW i \in DOMAIN log, Handles(t, i)
  PROVE  ~IsPublished(i) /\ ~IsSkipped(i)
<1>1. i \in Nat /\ log[i].table = t /\ decided[t] < i /\ decided[t] \in Nat
  BY HandlesFacts, LogFacts DEF IInv
<1>2. ~IsPublished(i)
  BY <1>1 DEF IsPublished, IInv, FateInv
<1>3. ~IsSkipped(i)
  BY <1>1 DEF IsSkipped, IInv, FateInv
<1>. QED
  BY <1>2, <1>3

LEMMA TypesInitially == Init => IInv
<1> SUFFICES ASSUME Init
             PROVE  IInv
  OBVIOUS
<1>1. log = <<>> /\ feed = <<>> /\ Len(log) = 0 /\ DOMAIN log = {} /\ DOMAIN feed = {}
  BY DEF Init
<1>2. TypeOK
  BY <1>1, CdcAssumption DEF Init, TypeOK
<1>3. MemoryInv /\ FateInv /\ NothingVanishes /\ MissedForCause
  BY <1>1 DEF Init, MemoryInv, FateInv, NothingVanishes, MissedForCause
<1>. QED
  BY <1>2, <1>3 DEF IInv

LEMMA CommitKeeps ==
  ASSUME IInv, NEW t \in Tables, NEW op \in OperationsOn(t), Commit(t, op)
  PROVE  IInv'
<1>. DEFINE change == [table |-> t, op |-> op]
<1>1. /\ log' = Append(log, change)
      /\ UNCHANGED <<feed, memory, state, decided, skipped, faults>>
  BY DEF Commit
<1>2. change \in [table : Tables, op : Ops]
  BY OperationsKnown
<1>3. /\ log' \in Seq([table : Tables, op : Ops])
      /\ Len(log') = Len(log) + 1
      /\ \A i \in 1..Len(log) : log'[i] = log[i]
      /\ log'[Len(log) + 1] = change
  BY <1>1, <1>2 DEF IInv, TypeOK, Ops
<1>4. TypeOK'
  BY <1>1, <1>3 DEF IInv, TypeOK, memory, Ops
<1>5. MemoryInv'
  BY <1>1 DEF IInv, MemoryInv, memory
<1>6. FateInv'
  <2>. QED
    BY <1>1, <1>3, LogFacts DEF IInv, FateInv
<1>7. NothingVanishes'
  <2>1. decided'[t] \in Nat /\ decided'[t] < Len(log) + 1
    BY <1>1, LogFacts DEF IInv
  <2>2. /\ DOMAIN log = 1..Len(log) /\ DOMAIN log' = 1..(Len(log) + 1)
        /\ Len(log) \in Nat
    BY <1>3, LogFacts DEF IInv
  <2>3. ASSUME NEW i \in DOMAIN log', i <= decided'[log'[i].table]
        PROVE  i \in 1..Len(log) /\ i <= decided[log[i].table]
    <3>1. i # Len(log) + 1
      <4>1. log'[Len(log) + 1].table = t
        BY <1>3
      <4>2. i = Len(log) + 1 => i <= decided'[t]
        BY <2>3, <4>1
      <4>. QED
        BY <2>1, <2>2, <4>2
    <3>. QED
      BY <1>1, <1>3, <2>2, <2>3, <3>1
  <2>. QED
    BY <1>1, <2>2, <2>3 DEF IInv, NothingVanishes, IsPublished, IsSkipped
<1>8. MissedForCause'
  BY <1>1, <1>3, LogFacts DEF IInv, MissedForCause, IsPublished
<1>. QED
  BY <1>4, <1>5, <1>6, <1>7, <1>8 DEF IInv

\* The steps that touch neither the log nor the fate of a change.
LEMMA MemoryStepKeeps ==
  ASSUME IInv, TypeOK', MemoryInv', UNCHANGED <<log, feed, decided, skipped>>,
         faults <= faults'
  PROVE  IInv'
<1>1. FateInv' /\ NothingVanishes'
  BY DEF IInv, FateInv, NothingVanishes, IsPublished, IsSkipped
<1>2. MissedForCause'
  <2>1. faults > 0 => faults' > 0
    BY LogFacts, CdcAssumption DEF IInv, TypeOK
  <2>. QED
    BY <2>1 DEF IInv, MissedForCause, IsPublished
<1>. QED
  BY <1>1, <1>2 DEF IInv

LEMMA StartKeeps == ASSUME IInv, Start PROVE IInv'
<1>1. TypeOK'
  BY DEF IInv, TypeOK, Start, stream
<1>2. MemoryInv'
  BY DEF IInv, TypeOK, MemoryInv, Start, stream
<1>3. faults <= faults'
  BY LogFacts DEF Start, IInv
<1>. QED
  BY <1>1, <1>2, <1>3, MemoryStepKeeps DEF Start, stream

LEMMA StartReturnsKeeps == ASSUME IInv, StartReturns PROVE IInv'
<1>1. TypeOK'
  BY DEF IInv, TypeOK, StartReturns, stream, memory
<1>2. MemoryInv'
  BY DEF IInv, MemoryInv, StartReturns, stream, memory
<1>3. faults <= faults'
  BY LogFacts DEF StartReturns, IInv
<1>. QED
  BY <1>1, <1>2, <1>3, MemoryStepKeeps DEF StartReturns, stream

LEMMA StopKeeps == ASSUME IInv, Stop PROVE IInv'
<1>1. TypeOK'
  BY CdcAssumption DEF IInv, TypeOK, Stop, stream, memory
<1>2. MemoryInv'
  BY DEF IInv, MemoryInv, Stop, stream, memory
<1>3. faults <= faults'
  BY DEF Stop, IInv, TypeOK
<1>. QED
  BY <1>1, <1>2, <1>3, MemoryStepKeeps DEF Stop, stream

-----------------------------------------------------------------------------
LEMMA CopyKeeps ==
  ASSUME IInv, NEW t \in Tables, CopyTable(t)
  PROVE  IInv'
<1>. DEFINE passed == [at : Of(t, decided[t]), why : {"copied"}]
<1>1. /\ decided' = [decided EXCEPT ![t] = Len(log)]
      /\ received' = [received EXCEPT ![t] = Len(log)]
      /\ skipped' = skipped \cup passed
      /\ synced' = synced \cup {t}
      /\ UNCHANGED <<log, feed, announced, relation, schemas, configs, state, faults>>
  BY DEF CopyTable, PassOver, stream
<1>2. Len(log) \in Nat /\ DOMAIN log = 1..Len(log)
  BY LogFacts DEF IInv
<1>3. \A u \in Tables : decided'[u] = (IF u = t THEN Len(log) ELSE decided[u])
                     /\ decided[u] <= decided'[u]
                     /\ decided[u] \in Nat /\ decided'[u] \in Nat
  BY <1>1, <1>2, LogFacts DEF IInv, TypeOK
<1>4. TypeOK'
  <2>1. passed \subseteq [at : 1..Len(log), why : Reasons]
    BY <1>2 DEF Of, Reasons
  <2>2. skipped' \subseteq [at : 1..Len(log'), why : Reasons]
    BY <1>1, <2>1 DEF IInv, TypeOK
  <2>3. received' \in [Tables -> 0..Len(log')] /\ decided' \in [Tables -> 0..Len(log')]
    BY <1>1, <1>2 DEF IInv, TypeOK
  <2>4. relation' \subseteq announced' /\ announced' \subseteq synced' /\ synced' \subseteq Tables
    BY <1>1 DEF IInv, TypeOK
  <2>. HIDE DEF passed
  <2>. QED
    BY <1>1, <2>2, <2>3, <2>4 DEF IInv, TypeOK
<1>5. MemoryInv'
  BY <1>1, <1>2, <1>3 DEF IInv, TypeOK, MemoryInv
<1>6. FateInv'
  <2>1. \A n \in DOMAIN feed : feed[n] \in Nat /\ log[feed[n]].table \in Tables
    BY LogFacts DEF IInv
  <2>2. \A s \in skipped : s.at \in Nat /\ log[s.at].table \in Tables
    BY LogFacts DEF IInv
  <2>5. \A s \in passed : s.at \in 1..Len(log) /\ log[s.at].table = t
    BY <1>2 DEF Of
  <2>6. \A n \in DOMAIN feed : feed[n] <= decided'[log[feed[n]].table]
    BY <1>3, <2>1 DEF IInv, FateInv
  <2>7. \A s \in skipped : s.at <= decided'[log[s.at].table]
    BY <1>3, <2>2 DEF IInv, FateInv
  <2>8. \A s \in passed : s.at <= decided'[log[s.at].table]
    BY <1>2, <1>3, <2>5
  <2>. QED
    BY <1>1, <2>6, <2>7, <2>8 DEF FateInv
<1>7. NothingVanishes'
  <2>1. ASSUME NEW i \in DOMAIN log, log[i].table = t, decided[t] < i
        PROVE  \E s \in skipped' : s.at = i
    <3>1. [at |-> i, why |-> "copied"] \in passed
      BY <2>1 DEF Of
    <3>2. [at |-> i, why |-> "copied"].at = i
      OBVIOUS
    <3>. HIDE DEF passed
    <3>. QED
      BY <1>1, <3>1, <3>2
  <2>2. ASSUME NEW i \in DOMAIN log, i <= decided[log[i].table]
        PROVE  (IsPublished(i) \/ IsSkipped(i))'
    BY <1>1, <2>2 DEF IInv, NothingVanishes, IsPublished, IsSkipped
  <2>3. ASSUME NEW i \in DOMAIN log, i <= decided'[log[i].table]
        PROVE  i <= decided[log[i].table] \/ (log[i].table = t /\ decided[t] < i)
    <3>1. log[i].table \in Tables /\ i \in Nat
      BY <1>2, LogFacts DEF IInv
    <3>. QED
      BY <1>3, <2>3, <3>1
  <2>. QED
    BY <1>1, <2>1, <2>2, <2>3 DEF NothingVanishes, IsSkipped
<1>8. MissedForCause'
  <2>1. ASSUME NEW s \in passed
        PROVE  s.why = "copied" /\ ~IsPublished(s.at)
    <3>1. s.at \in DOMAIN log /\ log[s.at].table = t /\ decided[t] < s.at /\ s.at \in Nat
      BY <1>2 DEF Of
    <3>. QED
      BY <1>3, <3>1 DEF IsPublished, IInv, FateInv
  <2>. QED
    BY <1>1, <2>1 DEF IInv, MissedForCause, IsPublished
<1>. QED
  BY <1>4, <1>5, <1>6, <1>7, <1>8 DEF IInv

LEMMA ReceiveKeeps ==
  ASSUME IInv, NEW t \in Tables, Receive(t)
  PROVE  IInv'
<1>1. PICK upTo \in Of(t, received[t]) : received' = [received EXCEPT ![t] = upTo]
  BY DEF Receive
<1>2. upTo \in 1..Len(log) /\ received[t] < upTo
  BY <1>1, LogFacts DEF Of, IInv
<1>3. TypeOK'
  BY <1>1, <1>2 DEF Receive, stream, IInv, TypeOK
<1>4. MemoryInv'
  BY <1>1, <1>2 DEF Receive, stream, IInv, TypeOK, MemoryInv
<1>5. faults <= faults'
  BY LogFacts DEF Receive, IInv
<1>. QED
  BY <1>3, <1>4, <1>5, MemoryStepKeeps DEF Receive, stream

LEMMA HandleRelationKeeps ==
  ASSUME IInv, NEW t \in Tables, HandleRelation(t)
  PROVE  IInv'
<1>1. TypeOK'
  BY CdcAssumption DEF HandleRelation, Learn, stream, IInv, TypeOK
<1>2. MemoryInv'
  BY CdcAssumption DEF HandleRelation, Learn, stream, IInv, TypeOK, MemoryInv
<1>3. faults <= faults'
  BY LogFacts DEF HandleRelation, IInv
<1>. QED
  BY <1>1, <1>2, <1>3, MemoryStepKeeps DEF HandleRelation, stream

-----------------------------------------------------------------------------
\* write_events goes on behind a change: nothing changes but the fate of that one.
LEMMA ContinueTypes ==
  ASSUME IInv, NEW t \in Tables, NEW i \in DOMAIN log, Handles(t, i), Continue(t, i)
  PROVE  /\ decided' \in [Tables -> 0..Len(log')]
         /\ \A u \in Tables : decided'[u] = (IF u = t THEN i ELSE decided[u])
                            /\ decided[u] <= decided'[u]
         /\ MemoryInv'
<1>1. /\ i \in 1..Len(log) /\ decided[t] < i /\ i <= received[t]
      /\ t \in announced \ relation
  BY HandlesFacts
<1>2. decided' = [decided EXCEPT ![t] = i] /\ UNCHANGED <<log, memory, state>>
  BY DEF Continue
<1>3. decided' \in [Tables -> 0..Len(log')]
  BY <1>1, <1>2 DEF IInv, TypeOK
<1>4. \A u \in Tables : decided'[u] = (IF u = t THEN i ELSE decided[u])
                     /\ decided[u] <= decided'[u]
  BY <1>1, <1>2, LogFacts DEF IInv, TypeOK
<1>5. MemoryInv'
  BY <1>1, <1>2, <1>4 DEF memory, IInv, MemoryInv
<1>. QED
  BY <1>3, <1>4, <1>5

\* Any fate of the next change that accounts for it keeps the rest of the invariant.
LEMMA FateKeeps ==
  ASSUME IInv, NEW t \in Tables, NEW i \in DOMAIN log, Handles(t, i), Continue(t, i),
         TypeOK', faults <= faults',
         \/ feed' = Append(feed, i) /\ UNCHANGED skipped
         \/ /\ UNCHANGED feed
            /\ \E why \in Reasons :
                 /\ skipped' = skipped \cup [at : {i}, why : {why}]
                 /\ why = "unmapped" => log[i].table \notin Configured
                 /\ why = "refused" => log[i].op = "delete"
                 /\ why = "unpublished" => faults' > 0
  PROVE  IInv'
<1>1. /\ i \in 1..Len(log) /\ i \in Nat /\ log[i].table = t /\ decided[t] < i
      /\ \A j \in DOMAIN log : log[j].table = t /\ decided[t] < j => i <= j
  BY HandlesFacts
<1>2. log' = log
  BY DEF Continue
<1>3. /\ \A u \in Tables : decided'[u] = (IF u = t THEN i ELSE decided[u])
                         /\ decided[u] <= decided'[u]
      /\ MemoryInv'
  BY ContinueTypes
<1>4. /\ \A n \in DOMAIN feed : feed[n] \in 1..Len(log)
      /\ \A s \in skipped : s.at \in 1..Len(log)
      /\ \A j \in 1..Len(log) : j \in Nat /\ log[j].table \in Tables
      /\ \A u \in Tables : decided[u] \in Nat
      /\ DOMAIN log = 1..Len(log) /\ Len(log) \in Nat
      /\ feed \in Seq(1..Len(log))
      /\ faults \in Nat
  BY LogFacts DEF IInv, TypeOK
<1>5. ~IsPublished(i) /\ ~IsSkipped(i)
  BY HandlesFresh
\* What was not past the table's position stays behind it.
<1>6. \A j \in 1..Len(log) : j <= decided[log[j].table] => j <= decided'[log[j].table]
  BY <1>3, <1>4
\* What comes behind it is behind it already, or is this change.
<1>7. \A j \in 1..Len(log) : j <= decided'[log[j].table] => j <= decided[log[j].table] \/ j = i
  <2>1. ASSUME NEW j \in 1..Len(log), j <= decided'[log[j].table], j # i
        PROVE  j <= decided[log[j].table]
    <3>1. CASE log[j].table = t
      <4>1. decided'[t] = i /\ j \in DOMAIN log /\ j \in Nat /\ decided[t] \in Nat
        BY <1>3, <1>4
      <4>2. decided[t] < j => i <= j
        BY <1>1, <3>1, <4>1
      <4>. QED
        BY <1>1, <2>1, <3>1, <4>1, <4>2
    <3>2. CASE log[j].table # t
      BY <1>3, <1>4, <2>1, <3>2
    <3>. QED
      BY <3>1, <3>2
  <2>. QED
    BY <2>1
<1>8. CASE feed' = Append(feed, i) /\ UNCHANGED skipped
  <2>1. /\ Len(feed') = Len(feed) + 1 /\ DOMAIN feed' = 1..(Len(feed) + 1)
        /\ DOMAIN feed = 1..Len(feed) /\ Len(feed) \in Nat
        /\ \A n \in DOMAIN feed : feed'[n] = feed[n]
        /\ feed'[Len(feed) + 1] = i
    BY <1>1, <1>4, <1>8
  <2>2. \A j : IsPublished(j)' <=> IsPublished(j) \/ j = i
    BY <2>1 DEF IsPublished
  <2>3. FateInv'
    <3>1. \A n \in DOMAIN feed : feed[n] <= decided'[log[feed[n]].table]
      BY <1>4, <1>6 DEF IInv, FateInv
    <3>2. \A s \in skipped : s.at <= decided'[log[s.at].table]
      BY <1>4, <1>6 DEF IInv, FateInv
    <3>3. i <= decided'[log[i].table]
      BY <1>1, <1>3
    <3>4. \A n \in DOMAIN feed' : n \in DOMAIN feed \/ n = Len(feed) + 1
      BY <2>1
    <3>. QED
      BY <1>2, <1>8, <2>1, <3>1, <3>2, <3>3, <3>4 DEF FateInv
  <2>4. NothingVanishes'
    BY <1>2, <1>4, <1>7, <1>8, <2>2 DEF IInv, NothingVanishes, IsSkipped
  <2>5. \A s \in skipped : s.at # i
    BY <1>5 DEF IsSkipped
  <2>6. \A s \in skipped : ~IsPublished(s.at)'
    BY <2>2, <2>5 DEF IInv, MissedForCause
  <2>7. faults > 0 => faults' > 0
    BY <1>4, CdcAssumption DEF TypeOK
  <2>8. MissedForCause'
    BY <1>2, <1>8, <2>6, <2>7 DEF IInv, MissedForCause
  <2>. QED
    BY <1>3, <2>3, <2>4, <2>8 DEF IInv
<1>9. CASE /\ UNCHANGED feed
           /\ \E why \in Reasons :
                /\ skipped' = skipped \cup [at : {i}, why : {why}]
                /\ why = "unmapped" => log[i].table \notin Configured
                /\ why = "refused" => log[i].op = "delete"
                /\ why = "unpublished" => faults' > 0
  <2>1. PICK why \in Reasons :
          /\ skipped' = skipped \cup [at : {i}, why : {why}]
          /\ why = "unmapped" => log[i].table \notin Configured
          /\ why = "refused" => log[i].op = "delete"
          /\ why = "unpublished" => faults' > 0
    BY <1>9
  <2>2. \A j : IsPublished(j)' <=> IsPublished(j)
    BY <1>9 DEF IsPublished
  <2>3. \A s \in skipped' : s \in skipped \/ (s.at = i /\ s.why = why)
    BY <2>1
  <2>4. FateInv'
    BY <1>1, <1>2, <1>3, <1>4, <1>6, <1>9, <2>3 DEF IInv, FateInv
  <2>5. \A j : IsSkipped(j) \/ j = i => IsSkipped(j)'
    <3>1. /\ [at |-> i, why |-> why].at = i
          /\ [at |-> i, why |-> why] \in [at : {i}, why : {why}]
      OBVIOUS
    <3>2. \E s \in skipped' : s.at = i
      BY <2>1, <3>1
    <3>. QED
      BY <2>1, <3>2 DEF IsSkipped
  <2>6. NothingVanishes'
    BY <1>2, <1>4, <1>7, <2>2, <2>5 DEF IInv, NothingVanishes
  <2>7. faults > 0 => faults' > 0
    BY <1>4, CdcAssumption DEF TypeOK
  <2>8. MissedForCause'
    BY <1>2, <1>5, <2>1, <2>2, <2>3, <2>7 DEF IInv, MissedForCause
  <2>. QED
    BY <1>3, <2>4, <2>6, <2>8 DEF IInv
<1>. QED
  BY <1>8, <1>9

\* The remaining conjuncts of TypeOK in such a step.
LEMMA FateTypes ==
  ASSUME IInv, NEW t \in Tables, NEW i \in DOMAIN log, Handles(t, i), Continue(t, i),
         feed' \in Seq(1..Len(log)), faults' \in 0..MaxFaults,
         skipped' \subseteq [at : 1..Len(log), why : Reasons]
  PROVE  TypeOK'
<1>1. decided' \in [Tables -> 0..Len(log')]
  BY ContinueTypes
<1>. QED
  BY <1>1 DEF IInv, TypeOK, Continue, memory

LEMMA SkipKeeps ==
  ASSUME IInv, NEW t \in Tables, NEW i \in DOMAIN log, Handles(t, i),
         NEW why \in Reasons, Skip(t, i, why),
         faults' \in 0..MaxFaults, faults <= faults',
         why = "unmapped" => log[i].table \notin Configured,
         why = "refused" => log[i].op = "delete",
         why = "unpublished" => faults' > 0
  PROVE  IInv'
<1>1. /\ skipped' = skipped \cup [at : {i}, why : {why}]
      /\ UNCHANGED feed /\ Continue(t, i)
  BY DEF Skip, PassOver
<1>2. i \in 1..Len(log)
  BY HandlesFacts
<1>3. skipped' \subseteq [at : 1..Len(log), why : Reasons]
  BY <1>1, <1>2 DEF IInv, TypeOK
<1>4. TypeOK'
  <2>1. feed' \in Seq(1..Len(log))
    BY <1>1 DEF IInv, TypeOK
  <2>. QED
    BY <1>1, <1>3, <2>1, FateTypes
<1>. QED
  BY <1>1, <1>4, FateKeeps

LEMMA PublishKeeps ==
  ASSUME IInv, NEW t \in Tables, NEW i \in DOMAIN log, Handles(t, i), Continue(t, i),
         feed' = Append(feed, i), UNCHANGED skipped,
         faults' \in 0..MaxFaults, faults <= faults'
  PROVE  IInv'
<1>1. i \in 1..Len(log)
  BY HandlesFacts
<1>2. TypeOK'
  <2>1. feed' \in Seq(1..Len(log))
    BY <1>1 DEF IInv, TypeOK
  <2>2. skipped' \subseteq [at : 1..Len(log), why : Reasons]
    BY DEF IInv, TypeOK
  <2>. QED
    BY <2>1, <2>2, FateTypes
<1>. QED
  BY <1>2, FateKeeps

LEMMA WriteEventsKeeps ==
  ASSUME IInv, NEW t \in Tables, WriteEvents(t)
  PROVE  IInv'
<1>1. CASE HandleRelation(t)
  BY <1>1, HandleRelationKeeps
<1>2. ASSUME NEW i \in DOMAIN log,
             \/ SkipUnmapped(t, i) \/ RefuseRow(t, i)
             \/ PublishChange(t, i) \/ PublishFails(t, i)
      PROVE  IInv'
  <2>0. /\ log[i].table = t /\ i \in 1..Len(log) /\ t \in announced \ relation
        /\ t \in schemas /\ (t \in Configured => t \in configs)
        /\ configs \subseteq Configured
        /\ faults \in 0..MaxFaults /\ MaxFaults \in Nat
    <3>1. Handles(t, i)
      BY <1>2 DEF SkipUnmapped, RefuseRow, PublishChange, PublishFails
    <3>. QED
      BY <3>1, HandlesFacts, CdcAssumption DEF IInv, TypeOK, MemoryInv
  <2>1. CASE SkipUnmapped(t, i)
    <3>1. Handles(t, i) /\ Skip(t, i, "unmapped") /\ faults' = faults
      BY <2>1 DEF SkipUnmapped
    <3>2. t \notin Configured
      BY <2>0, <2>1 DEF SkipUnmapped, Mapped
    <3>. QED
      BY <2>0, <3>1, <3>2, SkipKeeps DEF Reasons
  <2>2. CASE RefuseRow(t, i)
    <3>1. Handles(t, i) /\ Skip(t, i, "refused") /\ faults' = faults
          /\ t \in Configured /\ Refusal \in Converted[t][log[i].op]
      BY <2>0, <2>2 DEF RefuseRow, Mapped, Messages
    <3>2. log[i].op = "delete"
      <4>1. log[i].op \in {"create", "update", "delete"}
        BY <2>0, LogFacts DEF IInv
      <4>. QED
        BY <3>1, <4>1, WholeRowsConvert
    <3>. QED
      BY <2>0, <3>1, <3>2, SkipKeeps DEF Reasons
  <2>3. CASE PublishChange(t, i)
    <3>1. /\ Handles(t, i) /\ Continue(t, i) /\ feed' = Append(feed, i)
          /\ skipped' = skipped /\ faults' = faults
      BY <2>3 DEF PublishChange
    <3>. QED
      BY <2>0, <3>1, PublishKeeps
  <2>4. CASE PublishFails(t, i)
    <3>1. /\ Handles(t, i) /\ faults' = faults + 1 /\ faults < MaxFaults
          /\ \/ Skip(t, i, "unpublished")
             \/ feed' = Append(feed, i) /\ Continue(t, i) /\ UNCHANGED skipped
      BY <2>4 DEF PublishFails
    <3>2. faults' \in 0..MaxFaults /\ faults <= faults' /\ faults' > 0
      BY <2>0, <3>1
    <3>3. CASE Skip(t, i, "unpublished")
      BY <3>1, <3>2, <3>3, SkipKeeps DEF Reasons
    <3>4. CASE feed' = Append(feed, i) /\ Continue(t, i) /\ UNCHANGED skipped
      BY <3>1, <3>2, <3>4, PublishKeeps
    <3>. QED
      BY <3>1, <3>3, <3>4
  <2>. QED
    BY <1>2, <2>1, <2>2, <2>3, <2>4
<1>. QED
  BY <1>1, <1>2 DEF WriteEvents

LEMMA StepKeeps == IInv /\ [Next]_vars => IInv'
<1> SUFFICES ASSUME IInv, [Next]_vars
             PROVE  IInv'
  OBVIOUS
<1>1. CASE Start
  BY <1>1, StartKeeps
<1>2. CASE StartReturns
  BY <1>2, StartReturnsKeeps
<1>3. CASE Stop
  BY <1>3, StopKeeps
<1>4. ASSUME NEW t \in Tables, NEW op \in OperationsOn(t), Commit(t, op)
      PROVE  IInv'
  BY <1>4, CommitKeeps
<1>5. ASSUME NEW t \in Tables, CopyTable(t)
      PROVE  IInv'
  BY <1>5, CopyKeeps
<1>6. ASSUME NEW t \in Tables, Receive(t)
      PROVE  IInv'
  BY <1>6, ReceiveKeeps
<1>7. ASSUME NEW t \in Tables, WriteEvents(t)
      PROVE  IInv'
  BY <1>7, WriteEventsKeeps
<1>8. CASE UNCHANGED vars
  <2>1. /\ UNCHANGED <<log, feed, decided, skipped, faults>>
        /\ UNCHANGED <<synced, announced, relation, schemas, configs, received, state>>
    BY <1>8 DEF vars, stream, memory
  <2>2. TypeOK' /\ MemoryInv'
    BY <2>1 DEF IInv, TypeOK, MemoryInv
  <2>3. faults <= faults'
    BY <2>1, LogFacts DEF IInv
  <2>. QED
    BY <2>1, <2>2, <2>3, MemoryStepKeeps
<1>. QED
  BY <1>1, <1>2, <1>3, <1>4, <1>5, <1>6, <1>7, <1>8 DEF Next

LEMMA Invariance == Spec => []IInv
  BY TypesInitially, StepKeeps, PTL DEF Spec

\* The types of the sink's memory and of the streams: what is announced was copied,
\* what is known of a table was announced, and only configured tables are mapped.
THEOREM FeedTypeCorrect == Spec => []TypeOK
  BY Invariance, PTL DEF IInv

\* No change is lost in silence: one that the sink is done with is in the streams
\* or was passed over with its reason, whatever stops and failures lie between.
THEOREM NothingLost == Spec => []NothingVanishes
  BY Invariance, PTL DEF IInv

\* A change is missed only because it was in a copy, because no converter is
\* configured for its table, because it is a deletion, whose row has only the key,
\* or because its publication failed; never because the table was not yet known.
THEOREM MissedForACause == Spec => []MissedForCause
  BY Invariance, PTL DEF IInv

-----------------------------------------------------------------------------
(***************************************************************************)
(* The sink implements the feed.                                             *)
(***************************************************************************)
\* Giving up to the new positions is what a step does that raises positions only.
LEMMA RaisingGivesUp ==
  ASSUME IInv, UNCHANGED <<log, feed>>,
         decided' \in [Tables -> 0..Len(log)],
         \A u \in Tables : decided[u] <= decided'[u]
  PROVE  Feed!GiveUp
<1>1. \A u \in Tables : decided[u] \in Nat /\ decided'[u] \in Nat
  BY LogFacts DEF IInv
<1>2. decided' = [u \in Tables |->
                   IF decided'[u] > decided[u] THEN decided'[u] ELSE decided[u]]
  BY <1>1
<1>. QED
  BY <1>2 DEF Feed!GiveUp

LEMMA ContinueGivesUpOrPublishes ==
  ASSUME IInv, NEW t \in Tables, NEW i \in DOMAIN log, Handles(t, i), Continue(t, i),
         feed' = feed \/ feed' = Append(feed, i)
  PROVE  Feed!Next
<1>1. /\ log' = log /\ decided' = [decided EXCEPT ![t] = i]
  BY DEF Continue
<1>2. /\ decided' \in [Tables -> 0..Len(log)]
      /\ \A u \in Tables : decided[u] <= decided'[u]
  BY <1>1, ContinueTypes
<1>3. i \in 1..Len(log) /\ log[i].table = t /\ decided[t] < i /\ decided[t] \in Nat
  BY HandlesFacts, LogFacts DEF IInv
<1>4. CASE feed' = feed
  BY <1>1, <1>2, <1>4, RaisingGivesUp DEF Feed!Next
<1>5. CASE feed' = Append(feed, i)
  <2>1. i \in Feed!Pending(t)
    BY <1>3 DEF Feed!Pending
  <2>. QED
    BY <1>1, <1>5, <2>1 DEF Feed!Publish, Feed!Next
<1>. QED
  BY <1>4, <1>5

LEMMA StepRefines == IInv /\ [Next]_vars => [Feed!Next]_(Feed!vars)
<1> SUFFICES ASSUME IInv, [Next]_vars
             PROVE  [Feed!Next]_(Feed!vars)
  OBVIOUS
<1>1. CASE Start \/ StartReturns \/ Stop
  BY <1>1 DEF Start, StartReturns, Stop, stream, Feed!vars
<1>2. ASSUME NEW t \in Tables, NEW op \in OperationsOn(t), Commit(t, op)
      PROVE  Feed!Next
  BY <1>2, OperationsKnown DEF Ops, Commit, Feed!Commit, Feed!Next
<1>3. ASSUME NEW t \in Tables, CopyTable(t)
      PROVE  Feed!Next
  <2>1. decided' = [decided EXCEPT ![t] = Len(log)] /\ UNCHANGED <<log, feed>>
    BY <1>3 DEF CopyTable, stream
  <2>2. Len(log) \in Nat
    BY LogFacts DEF IInv
  <2>3. /\ decided' \in [Tables -> 0..Len(log)]
        /\ \A u \in Tables : decided[u] <= decided'[u]
    BY <2>1, <2>2, LogFacts DEF IInv, TypeOK
  <2>. QED
    BY <2>1, <2>3, RaisingGivesUp DEF Feed!Next
<1>4. ASSUME NEW t \in Tables, Receive(t) \/ HandleRelation(t)
      PROVE  UNCHANGED Feed!vars
  BY <1>4 DEF Receive, HandleRelation, stream, Feed!vars
<1>5. ASSUME NEW t \in Tables, NEW i \in DOMAIN log,
             \/ SkipUnmapped(t, i) \/ RefuseRow(t, i)
             \/ PublishChange(t, i) \/ PublishFails(t, i)
      PROVE  Feed!Next
  <2>1. /\ Handles(t, i) /\ Continue(t, i)
        /\ feed' = feed \/ feed' = Append(feed, i)
    BY <1>5 DEF SkipUnmapped, RefuseRow, PublishChange, PublishFails, Skip
  <2>. QED
    BY <2>1, ContinueGivesUpOrPublishes
<1>6. CASE UNCHANGED vars
  BY <1>6 DEF vars, stream, Feed!vars
<1>. QED
  BY <1>1, <1>2, <1>3, <1>4, <1>5, <1>6 DEF Next, WriteEvents

\* Seen from its followers the sink is a feed of changes: of each table they come
\* in the order of the commits and at most once, across restarts and failures.
THEOREM ImplementsFeedSafety == Spec => Feed!Spec
<1>1. Init => Feed!Init
  BY DEF Init, Feed!Init
<1>2. IInv /\ [Next]_vars => [Feed!Next]_(Feed!vars)
  BY StepRefines
<1>. QED
  BY <1>1, <1>2, Invariance, PTL DEF Spec, Feed!Spec

(***************************************************************************)
(* What the events say of a gateway.                                         *)
(***************************************************************************)
\* The JSON object that the sink makes of a row has the row's values under the
\* names of its columns, and no deleted_at if the row has none.
LEMMA ReplicatedFields ==
  ASSUME NEW Texts, NEW Settings, NEW Times,
         NEW row \in [gateway_id : Texts, organization_id : Texts, name : Texts,
                      gateway_type : Texts, gateway_config : Settings,
                      deleted_at : {{}} \cup {{at} : at \in Times}]
  PROVE  LET data == Replicated(row) IN
         /\ \A c \in {"gateway_id", "organization_id", "name", "gateway_type",
                      "gateway_config"} : c \in DOMAIN data /\ data[c] = row[c]
         /\ "deleted_at" \in DOMAIN data <=> row.deleted_at # {}
         /\ \A at \in Times : row.deleted_at = {at} => data["deleted_at"] = at
<1>. DEFINE columns == Columns.gateways
            cells == [i \in DOMAIN columns |-> GatewayCell(row, columns[i])]
            known == {i \in DOMAIN cells \cap DOMAIN columns : cells[i].type # "null"}
            at(c) == CHOOSE i \in known : columns[i] = c
<1>1. columns = <<"gateway_id", "organization_id", "name", "gateway_type",
                  "gateway_config", "deleted_at">>
  BY DEF Columns
<1>2. DOMAIN columns = 1..6
  BY <1>1
<1>3. /\ columns[1] = "gateway_id" /\ columns[2] = "organization_id"
      /\ columns[3] = "name" /\ columns[4] = "gateway_type"
      /\ columns[5] = "gateway_config" /\ columns[6] = "deleted_at"
  BY <1>1
<1>. HIDE DEF columns
<1>4. \A i \in 1..5 : cells[i] = [type |-> "json", value |-> row[columns[i]]]
  BY <1>2, <1>3 DEF GatewayCell
<1>5. cells[6] = IF row.deleted_at = {} THEN [type |-> "null", value |-> Empty]
                 ELSE [type |-> "timestamp", value |-> CHOOSE t \in row.deleted_at : TRUE]
  BY <1>2, <1>3 DEF GatewayCell
<1>6. DOMAIN cells = 1..6
  BY <1>2
<1>. HIDE DEF cells
<1>7. known = IF row.deleted_at = {} THEN 1..5 ELSE 1..6
  BY <1>2, <1>4, <1>5, <1>6
<1>. HIDE DEF known
<1>8. \A i \in known : at(columns[i]) = i
  BY <1>3, <1>7
<1>. HIDE DEF at
<1>9. Replicated(row) = [c \in {columns[i] : i \in known} |-> CellToJson(cells[at(c)])]
  BY DEF Replicated, TableRowToJson, columns, cells, known, at
<1>10. \A i \in known : /\ columns[i] \in DOMAIN Replicated(row)
                        /\ Replicated(row)[columns[i]] = CellToJson(cells[i])
  BY <1>8, <1>9
<1>11. \A i \in 1..5 : CellToJson(cells[i]) = row[columns[i]]
  BY <1>4 DEF CellToJson
<1>12. \A i \in 1..5 : /\ columns[i] \in DOMAIN Replicated(row)
                       /\ Replicated(row)[columns[i]] = row[columns[i]]
  BY <1>7, <1>10, <1>11
<1>13. "deleted_at" \in DOMAIN Replicated(row) <=> row.deleted_at # {}
  BY <1>3, <1>7, <1>9
<1>14. ASSUME NEW t \in Times, row.deleted_at = {t}
       PROVE  Replicated(row)["deleted_at"] = t
  <2>1. cells[6] = [type |-> "timestamp", value |-> t]
    BY <1>5, <1>14
  <2>2. CellToJson(cells[6]) = t
    BY <2>1 DEF CellToJson
  <2>. QED
    BY <1>3, <1>7, <1>10, <1>14, <2>2
<1>. QED
  BY <1>3, <1>12, <1>13, <1>14

\* A gateway read from a change event is the one read from its row, with the type
\* as events name it: the configuration, the deletion, the name and the ids are
\* those of the row, and the type is emqx or "UNSPECIFIED", whatever the row says.
THEOREM EventsTellRows ==
  ASSUME NEW Texts, NEW Settings, NEW Times,
         rows \subseteq [gateway_id : Texts, organization_id : Texts, name : Texts,
                         gateway_type : Texts, gateway_config : Settings,
                         deleted_at : {{}} \cup {{at} : at \in Times}]
  PROVE  FollowersAgree
<1>. SUFFICES ASSUME NEW row \in rows, NEW op \in {"create", "update"}
              PROVE  LET message == ConvertGateway(Replicated(row)) IN
                     /\ message # Refusal
                     /\ ParseGatewayCdcEvent(op, message).gateway =
                          [GatewayFromRow(row) EXCEPT !.gateway_type =
                             TypeHeard(row.gateway_type)]
  BY DEF FollowersAgree
<1>. DEFINE data == Replicated(row)
            settings == row.gateway_config
            type == GatewayType(row.gateway_type)
            message == [gateway_id |-> row.gateway_id,
                        organization_id |-> row.organization_id, name |-> row.name,
                        type |-> type, broker_url |-> Optional(settings, "broker_url"),
                        status |-> "ACTIVE", deleted_at |-> row.deleted_at]
<1>1. /\ \A c \in {"gateway_id", "organization_id", "name", "gateway_type",
                   "gateway_config"} : c \in DOMAIN data /\ data[c] = row[c]
      /\ "deleted_at" \in DOMAIN data <=> row.deleted_at # {}
      /\ \A at \in Times : row.deleted_at = {at} => data["deleted_at"] = at
  BY ReplicatedFields
<1>2. row.deleted_at = {} \/ \E at \in Times : row.deleted_at = {at}
  OBVIOUS
<1>. HIDE DEF data
<1>3. Optional(data, "deleted_at") = row.deleted_at
  BY <1>1, <1>2 DEF Optional
<1>4. /\ Text(data, "gateway_id") = row.gateway_id
      /\ Text(data, "organization_id") = row.organization_id
      /\ Text(data, "name") = row.name
      /\ Field(data, "gateway_type", "UNSPECIFIED") = row.gateway_type
      /\ Field(data, "gateway_config", <<>>) = settings
  BY <1>1 DEF Text, Field, Has
<1>5. ConvertGateway(data) = message
  BY <1>1, <1>3, <1>4 DEF ConvertGateway, Message, Has
<1>6. BrokerUrl(Optional(settings, "broker_url")) = JsonToGatewayConfig(settings)
  <2>1. CASE "broker_url" \in DOMAIN settings
    <3>1. Optional(settings, "broker_url") = {settings["broker_url"]}
      BY <2>1 DEF Optional
    <3>. QED
      BY <2>1, <3>1 DEF BrokerUrl, JsonToGatewayConfig, Field, Has
  <2>2. CASE "broker_url" \notin DOMAIN settings
    BY <2>2 DEF BrokerUrl, Optional, JsonToGatewayConfig, Field, Has
  <2>. QED
    BY <2>1, <2>2
<1>7. GatewayTypeName(type) = TypeHeard(row.gateway_type)
  BY DEF GatewayTypeName, GatewayType, TypeHeard
<1>. HIDE DEF type, settings
<1>8. message # Refusal
  BY DEF Refusal
<1>9. ProtoToDomainGateway(message) =
        [GatewayFromRow(row) EXCEPT !.gateway_type = TypeHeard(row.gateway_type)]
  <2>1. /\ message.gateway_id = row.gateway_id
        /\ message.organization_id = row.organization_id
        /\ message.name = row.name /\ message.deleted_at = row.deleted_at
        /\ message.type = type
        /\ message.broker_url = Optional(settings, "broker_url")
    OBVIOUS
  <2>2. [GatewayFromRow(row) EXCEPT !.gateway_type = TypeHeard(row.gateway_type)] =
          [gateway_id |-> row.gateway_id, organization_id |-> row.organization_id,
           name |-> row.name, deleted_at |-> row.deleted_at,
           gateway_type |-> TypeHeard(row.gateway_type),
           broker_url |-> JsonToGatewayConfig(settings)]
    BY DEF GatewayFromRow, settings
  <2>. HIDE DEF message
  <2>3. ProtoToDomainGateway(message) =
          [gateway_id |-> message.gateway_id, organization_id |-> message.organization_id,
           name |-> message.name, deleted_at |-> message.deleted_at,
           gateway_type |-> TypeHeard(row.gateway_type),
           broker_url |-> JsonToGatewayConfig(settings)]
    BY <1>6, <1>7, <2>1 DEF ProtoToDomainGateway
  <2>. QED
    BY <2>1, <2>2, <2>3
<1>10. ParseGatewayCdcEvent(op, message).gateway = ProtoToDomainGateway(message)
  BY DEF ParseGatewayCdcEvent
<1>. QED
  BY <1>5, <1>8, <1>9, <1>10 DEF data
=============================================================================
