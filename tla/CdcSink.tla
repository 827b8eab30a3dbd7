------------------------------- MODULE CdcSink --------------------------------
(***************************************************************************)
(* The cdc_worker: CdcProcess with its NatsSink, between the replication of   *)
(* PostgreSQL by the etl library and the streams of JetStream.  etl copies    *)
(* each table, then hands the changes of its commits to write_events, which   *)
(* takes one after the other.  All that the sink and etl remember is in       *)
(* memory.                                                                  *)
(*                                                                         *)
(* etl replicates several tables at once, so each has a batch of its own; a   *)
(* row is the same for every change of its table.                            *)
(***************************************************************************)
EXTENDS CdcConverters, FiniteSets

CONSTANTS
  Tables,       \* the published tables
  Configured,   \* those that configs_by_name has a converter for
  MaxBatch,     \* batch size
  MaxChanges,   \* bound on the changes committed
  MaxFaults     \* bound on failed publications and on stops

ASSUME CdcAssumption ==
  /\ Configured \subseteq Tables
  /\ MaxBatch \in Nat \ {0}
  /\ MaxChanges \in Nat
  /\ MaxFaults \in Nat

VARIABLES
  log,       \* the committed changes of the published tables
  state,     \* of the process: "down", "starting", "streaming"
  synced,    \* tables whose copy is done
  announced, \* tables of which this connection has sent the Relation event
  relation,  \* tables of which write_events has still to handle that event
  schemas,   \* table_schemas
  configs,   \* configs_by_id
  received,  \* of each table, the position up to which it was copied or received
  decided,   \* of each table, the position up to which it was copied or handled
  feed,      \* positions of the changes in the streams, in the order of publication
  (* history *)
  skipped,   \* the changes passed over: [at, why]
  faults     \* counts failed publications and stops, for MaxFaults

stream  == <<log, feed>>
memory  == <<synced, announced, relation, schemas, configs, received>>
vars    == <<stream, memory, state, decided, skipped, faults>>

\* The columns of the primary keys.
Key == [gateways |-> "gateway_id", end_devices |-> "end_device_id",
        end_device_definitions |-> "id", organizations |-> "id", users |-> "id"]

\* Only definitions are ever deleted; the other tables mark their rows.
OperationsOn(t) ==
  IF t = "end_device_definitions" THEN {"create", "update", "delete"}
                                  ELSE {"create", "update"}

Nested == {"gateway_config", "contracts"}
Cell(c) == [type |-> "string", value |-> IF c \in Nested THEN <<>> ELSE c]
NullCell == [type |-> "null", value |-> Empty]
Blank(c) == [type |-> "string", value |-> IF c \in Nested THEN <<>> ELSE Empty]

\* The cells of a change.  The replica identity is the primary key, so that a
\* deletion carries the key alone; etl fills the rest with NULLs or blanks.
Cells(t, op) ==
  LET Row(Other(_)) == [i \in DOMAIN Columns[t] |->
        IF Columns[t][i] = Key[t] THEN Cell(Key[t]) ELSE Other(Columns[t][i])]
      Nothing(c) == NullCell
  IN IF op = "delete" THEN {Row(Nothing), Row(Blank)} ELSE {Row(Cell)}

Init ==
  /\ log = <<>>
  /\ state = "down"
  /\ synced = {} /\ announced = {} /\ relation = {} /\ schemas = {} /\ configs = {}
  /\ received = [t \in Tables |-> 0]
  /\ decided = [t \in Tables |-> 0]
  /\ feed = <<>>
  /\ skipped = {}
  /\ faults = 0

Of(t, after) == {i \in DOMAIN log : log[i].table = t /\ i > after}

Commit(t, op) ==
  /\ Len(log) < MaxChanges
  /\ log' = Append(log, [table |-> t, op |-> op])
  /\ UNCHANGED <<feed, memory, state, decided, skipped, faults>>

(***************************************************************************)
(* CdcProcess.                                                              *)
(***************************************************************************)

\* run: a new sink and a new MemoryStore.
Start ==
  /\ state = "down"
  /\ state' = "starting"
  /\ synced' = {} /\ announced' = {} /\ relation' = {} /\ schemas' = {} /\ configs' = {}
  /\ received' = decided
  /\ UNCHANGED <<stream, decided, skipped, faults>>

StartReturns ==
  /\ state = "starting"
  /\ state' = "streaming"
  /\ UNCHANGED <<stream, memory, decided, skipped, faults>>

\* The token is seen while the pipeline starts; the pipeline fails, later or at
\* once; the runner aborts the process, which no longer looks at the token while
\* it waits for the pipeline; the program dies.
Stop ==
  /\ state # "down"
  /\ faults < MaxFaults
  /\ faults' = faults + 1
  /\ state' = "down"
  /\ UNCHANGED <<stream, memory, decided, skipped>>

(***************************************************************************)
(* etl.                                                                     *)
(***************************************************************************)
PassOver(ats, why) == skipped' = skipped \cup [at : ats, why : {why}]

\* write_table_rows keeps nothing of the copy of a table, which holds all changes
\* committed up to then and which each start makes anew.
CopyTable(t) ==
  /\ state = "streaming"
  /\ t \notin synced
  /\ synced' = synced \cup {t}
  /\ received' = [received EXCEPT ![t] = Len(log)]
  /\ decided' = [decided EXCEPT ![t] = Len(log)]
  /\ PassOver(Of(t, decided[t]), "copied")
  /\ UNCHANGED <<stream, announced, relation, schemas, configs, state, faults>>

\* A call of write_events with the next changes of a table; the connection sends
\* the table's Relation event before the first of them.
Receive(t) ==
  /\ state = "streaming"
  /\ t \in synced
  /\ received[t] = decided[t]
  /\ \E upTo \in Of(t, received[t]) :
       /\ Cardinality({i \in Of(t, received[t]) : i <= upTo}) <= MaxBatch
       /\ received' = [received EXCEPT ![t] = upTo]
  /\ announced' = announced \cup {t}
  /\ relation' = relation \cup ({t} \ announced)
  /\ UNCHANGED <<stream, synced, schemas, configs, state, decided, skipped, faults>>

(***************************************************************************)
(* NatsSink.                                                                *)
(***************************************************************************)

\* Mutant: the table is not mapped to its converter.
LearnSchemaOnly(t) == schemas' = schemas \cup {t} /\ UNCHANGED configs
Learn(t) ==
  /\ schemas' = schemas \cup {t}
  /\ configs' = configs \cup ({t} \cap Configured)

HandleRelation(t) ==
  /\ state = "streaming"
  /\ t \in relation
  /\ Learn(t)
  /\ relation' = relation \ {t}
  /\ UNCHANGED <<stream, synced, announced, received, state, decided, skipped, faults>>

\* The change that write_events has come to.
Handles(t, i) ==
  /\ state = "streaming"
  /\ t \notin relation
  /\ i \in Of(t, decided[t])
  /\ i <= received[t]
  /\ \A j \in Of(t, decided[t]) : i <= j

\* It goes on with the next one.
Continue(t, i) ==
  /\ decided' = [decided EXCEPT ![t] = i]
  /\ UNCHANGED <<log, memory, state>>

\* Mutant: an error ends the batch.
SkipBatch(t, i, why) ==
  /\ PassOver({i}, why)
  /\ Continue(t, received[t])
  /\ UNCHANGED feed
\* An error of a handler, or a change without a converter, is logged.
Skip(t, i, why) ==
  /\ PassOver({i}, why)
  /\ Continue(t, i)
  /\ UNCHANGED feed

Mapped(t) == t \in configs \cap schemas

SkipUnmapped(t, i) ==
  /\ Handles(t, i)
  /\ ~Mapped(t)
  /\ Skip(t, i, "unmapped")
  /\ UNCHANGED faults

\* What the converter makes of a change, under the schema that was stored.
Converted ==
  [t \in Tables |-> [op \in OperationsOn(t) |->
     {Convert(t, TableRowToJson(Columns[t], cells)) : cells \in Cells(t, op)}]]

\* Every converter takes the rows that its table can hold.
ASSUME WholeRowsConvert ==
  \A t \in Configured : Refusal \notin Converted[t]["create"] \cup Converted[t]["update"]

Messages(t, i) == Converted[t][log[i].op]

RefuseRow(t, i) ==
  /\ Handles(t, i) /\ Mapped(t)
  /\ Refusal \in Messages(t, i)
  /\ Skip(t, i, "refused")
  /\ UNCHANGED faults

PublishChange(t, i) ==
  /\ Handles(t, i) /\ Mapped(t)
  /\ Messages(t, i) # {Refusal}
  /\ feed' = Append(feed, i)
  /\ Continue(t, i)
  /\ UNCHANGED <<skipped, faults>>

\* Mutant: a publication that seems to have failed is tried once more.
PublishAgain(t, i) ==
  /\ Handles(t, i) /\ Mapped(t)
  /\ Messages(t, i) # {Refusal}
  /\ faults < MaxFaults
  /\ faults' = faults + 1
  /\ feed' = feed \o <<i, i>>
  /\ Continue(t, i)
  /\ UNCHANGED skipped
\* The publication fails, or is stored and its acknowledgement lost.
PublishFails(t, i) ==
  /\ Handles(t, i) /\ Mapped(t)
  /\ Messages(t, i) # {Refusal}
  /\ faults < MaxFaults
  /\ faults' = faults + 1
  /\ \/ Skip(t, i, "unpublished")
     \/ feed' = Append(feed, i) /\ Continue(t, i) /\ UNCHANGED skipped

WriteEvents(t) ==
  \/ HandleRelation(t)
  \/ \E i \in DOMAIN log :
       \/ SkipUnmapped(t, i)
       \/ RefuseRow(t, i)
       \/ PublishChange(t, i)
       \/ PublishFails(t, i)

Next ==
  \/ Start
  \/ StartReturns
  \/ Stop
  \/ \E t \in Tables :
       \/ \E op \in OperationsOn(t) : Commit(t, op)
       \/ CopyTable(t)
       \/ Receive(t)
       \/ WriteEvents(t)

\* The program is started again after it stopped, and etl goes on as long as
\* it runs.
Fairness ==
  /\ WF_vars(Start)
  /\ WF_vars(StartReturns)
  /\ \A t \in Tables :
       WF_vars(CopyTable(t)) /\ WF_vars(Receive(t)) /\ WF_vars(WriteEvents(t))

Spec == Init /\ [][Next]_vars
FairSpec == Spec /\ Fairness

-----------------------------------------------------------------------------
Reasons == {"copied", "unmapped", "refused", "unpublished"}

TypeOK ==
  /\ log \in Seq([table : Tables, op : {"create", "update", "delete"}])
  /\ state \in {"down", "starting", "streaming"}
  /\ synced \subseteq Tables
  /\ relation \subseteq announced
  /\ announced \subseteq synced
  /\ schemas \subseteq announced
  /\ configs \subseteq schemas \cap Configured
  /\ received \in [Tables -> 0..Len(log)]
  /\ feed \in Seq(1..Len(log))
  /\ decided \in [Tables -> 0..Len(log)]
  /\ skipped \subseteq [at : 1..Len(log), why : Reasons]
  /\ faults \in 0..MaxFaults

IsPublished(i) == \E n \in DOMAIN feed : feed[n] = i
IsSkipped(i) == \E s \in skipped : s.at = i

\* No change is lost in silence: what the sink is done with is in the streams or
\* was passed over with a log entry, or was in the copy of its table, whatever
\* stops, failures and batches lie between.
NothingVanishes ==
  \A i \in DOMAIN log : i <= decided[log[i].table] => IsPublished(i) \/ IsSkipped(i)

\* A change is missed for one of four causes.  Apart from the copies that each
\* start makes, failed publications and tables without a converter, this leaves
\* the deletions, whose converter asks for more than the key; in particular the
\* Relation event is handled in time, after any number of restarts.
MissedForCause ==
  \A s \in skipped :
    /\ s.why = "unmapped" => log[s.at].table \notin Configured
    /\ s.why = "refused" => log[s.at].op = "delete"
    /\ s.why = "unpublished" => faults > 0
    /\ ~IsPublished(s.at)

\* The sink as a feed of changes: in the order of the commits of a table, at most
\* once, and never stuck.
Feed == INSTANCE ChangeFeed WITH Operations <- {"create", "update", "delete"}
ImplementsFeed == Feed!FairSpec

-----------------------------------------------------------------------------
(***************************************************************************)
(* The inductive invariant.                                                 *)
(***************************************************************************)

\* A table of which the Relation event was handled is mapped to its converter, and
\* changes of a table are handled only once it was announced.
MemoryInv ==
  \A t \in Tables :
    /\ t \in announced \ relation => t \in schemas /\ (t \in Configured => t \in configs)
    /\ decided[t] <= received[t]
    /\ state # "down" /\ decided[t] < received[t] => t \in announced

\* What a table is not done with has neither been published nor passed over.
FateInv ==
  /\ \A n \in DOMAIN feed : feed[n] <= decided[log[feed[n]].table]
  /\ \A s \in skipped : s.at <= decided[log[s.at].table]

IInv == TypeOK /\ MemoryInv /\ FateInv /\ NothingVanishes /\ MissedForCause
=============================================================================
