------------------------- MODULE MqttSubscriberProofs -------------------------
(***************************************************************************)
(* Proofs about MqttSubscriber for every set of tasks and every bound, in   *)
(* particular for every max_retry_attempts.                                 *)
(***************************************************************************)
EXTENDS MqttSubscriber, TLAPS

(***************************************************************************)
(* TypeOK and EndsForAReason are inductive together.                        *)
(***************************************************************************)
IInv == TypeOK /\ EndsForAReason

\* What every action of a task does to the places: it moves that task only.
LEMMA GotoMoves ==
  ASSUME TypeOK, NEW t \in Tasks, NEW place \in Places, Goto(t, place)
  PROVE  /\ at' \in [Tasks -> Places]
         /\ at'[t] = place
         /\ \A u \in Tasks \ {t} : at'[u] = at[u]
BY DEF TypeOK, Goto

\* A task that moves out of listen and publish with Leave does not keep the
\* session, and nobody else loses or gains it.
LEMMA LeaveType ==
  ASSUME TypeOK, NEW t \in Tasks, NEW place \in Places, Goto(t, place), Leave(t)
  PROVE  /\ session' \in Tasks \cup {NoTask}
         /\ session' # NoTask => at'[session'] \in {"listen", "publish"}
BY GotoMoves, SubscriberAssumption DEF TypeOK, Leave

\* An error counts, and ends the task once it has used up its retries.
LEMMA RetryIInv ==
  ASSUME IInv, NEW t \in Tasks, at[t] # "ended", Retry(t), faults' \in 0..MaxFaults
  PROVE  IInv'
<1>. USE DEF Retry
<1>1. PICK place \in {"ended", "wait"} :
        /\ Goto(t, place)
        /\ place = "ended" <=> retries'[t] >= MaxRetries
  OBVIOUS
<1>2. at' \in [Tasks -> Places] /\ at'[t] = place /\ \A u \in Tasks \ {t} : at'[u] = at[u]
  BY <1>1, GotoMoves DEF IInv, Places
<1>3. /\ retries' \in [Tasks -> Nat]
      /\ retries'[t] = retries[t] + 1
      /\ \A u \in Tasks \ {t} : retries'[u] = retries[u]
  BY DEF IInv, TypeOK
<1>4. TypeOK'
  BY <1>1, <1>2, <1>3, LeaveType DEF IInv, TypeOK, Places
<1>5. EndsForAReason'
  BY <1>1, <1>2, <1>3, SubscriberAssumption DEF IInv, TypeOK, EndsForAReason, Ended
<1>. QED
  BY <1>4, <1>5 DEF IInv

\* A move that is no error counts nothing; only a task that was told may end.
LEMMA MoveIInv ==
  ASSUME IInv, NEW t \in Tasks, NEW place \in Places, Goto(t, place),
         at[t] # "ended",
         place = "ended" => t \in told,
         session' \in Tasks \cup {NoTask},
         session' # NoTask => at'[session'] \in {"listen", "publish"},
         messages' \in 0..MaxMessages,
         UNCHANGED <<retries, told, urlOk, faults>>
  PROVE  IInv'
<1>1. at' \in [Tasks -> Places] /\ at'[t] = place /\ \A u \in Tasks \ {t} : at'[u] = at[u]
  BY GotoMoves DEF IInv
<1>2. TypeOK'
  BY <1>1 DEF IInv, TypeOK
<1>3. EndsForAReason'
  BY <1>1 DEF IInv, EndsForAReason, Ended
<1>. QED
  BY <1>2, <1>3 DEF IInv

LEMMA InitIInv == Init => IInv
BY SubscriberAssumption DEF Init, IInv, TypeOK, EndsForAReason, Ended, Places

LEMMA NextIInv == IInv /\ [Next]_vars => IInv'
<1> SUFFICES ASSUME IInv, [Next]_vars
             PROVE  IInv'
  OBVIOUS
<1>. USE DEF Places
<1>1. ASSUME NEW t \in Tasks, Tell(t)
      PROVE  IInv'
  BY <1>1 DEF Tell, IInv, TypeOK, EndsForAReason, Ended
<1>2. ASSUME NEW t \in Tasks, Check(t)
      PROVE  IInv'
  <2>1. PICK place \in {"ended", "connect"} : Goto(t, place) /\ (place = "ended" <=> t \in told)
    BY <1>2 DEF Check
  <2>2. session' # NoTask => at'[session'] \in {"listen", "publish"}
    BY <1>2, <2>1, GotoMoves DEF Check, IInv, TypeOK
  <2>. QED
    BY <1>2, <2>1, <2>2, MoveIInv DEF Check, IInv, TypeOK
<1>3. ASSUME NEW t \in Tasks, BadUrl(t) \/ Disconnected(t)
      PROVE  IInv'
  BY <1>3, RetryIInv DEF BadUrl, Disconnected, IInv, TypeOK
<1>4. ASSUME NEW t \in Tasks, NetworkFails(t)
      PROVE  IInv'
  <2>1. faults' \in 0..MaxFaults
    BY <1>4, SubscriberAssumption DEF NetworkFails, IInv, TypeOK
  <2>. QED
    BY <1>4, <2>1, RetryIInv DEF NetworkFails
<1>5. ASSUME NEW t \in Tasks, Connect(t)
      PROVE  IInv'
  <2>1. at'[session'] = "listen"
    BY <1>5, GotoMoves DEF Connect, IInv
  <2>. QED
    BY <1>5, <2>1, MoveIInv DEF Connect, IInv, TypeOK
<1>6. ASSUME NEW t \in Tasks, Receive(t)
      PROVE  IInv'
  <2>1. session' # NoTask => at'[session'] \in {"listen", "publish"}
    BY <1>6, GotoMoves DEF Receive, IInv, TypeOK
  <2>2. messages' \in 0..MaxMessages
    BY <1>6, SubscriberAssumption DEF Receive, IInv, TypeOK
  <2>. QED
    BY <1>6, <2>1, <2>2, MoveIInv DEF Receive, IInv, TypeOK
<1>7. ASSUME NEW t \in Tasks, Handled(t)
      PROVE  IInv'
  <2>1. session' # NoTask => at'[session'] \in {"listen", "publish"}
    BY <1>7, GotoMoves DEF Handled, IInv, TypeOK
  <2>. QED
    BY <1>7, <2>1, MoveIInv DEF Handled, IInv, TypeOK
<1>8. ASSUME NEW t \in Tasks, Stop(t)
      PROVE  IInv'
  BY <1>8, LeaveType, MoveIInv DEF Stop, IInv, TypeOK
<1>9. ASSUME NEW t \in Tasks, Slept(t)
      PROVE  IInv'
  <2>1. session' # NoTask => at'[session'] \in {"listen", "publish"}
    BY <1>9, GotoMoves DEF Slept, IInv, TypeOK
  <2>. QED
    BY <1>9, <2>1, MoveIInv DEF Slept, IInv, TypeOK
<1>10. CASE UNCHANGED vars
  BY <1>10 DEF vars, IInv, TypeOK, EndsForAReason, Ended
<1>. QED
  BY <1>1, <1>2, <1>3, <1>4, <1>5, <1>6, <1>7, <1>8, <1>9, <1>10 DEF Next, Run

\* Both hold in every reachable state.
THEOREM Invariance == Spec => []IInv
<1>1. Init => IInv
  BY InitIInv
<1>2. IInv /\ [Next]_vars => IInv'
  BY NextIInv
<1>. QED
  BY <1>1, <1>2, PTL DEF Spec

\* Every variable keeps its type, and the session belongs to a connected task.
THEOREM TypeCorrect == Spec => []TypeOK
<1>1. IInv => TypeOK
  BY DEF IInv
<1>. QED
  BY <1>1, Invariance, PTL

\* A subscriber ends only on a cancelled token or after its retries.
THEOREM NoEndWithoutReason == Spec => []EndsForAReason
<1>1. IInv => EndsForAReason
  BY DEF IInv
<1>. QED
  BY <1>1, Invariance, PTL

(***************************************************************************)
(* The tasks keep the contract that the orchestrator relies on.             *)
(***************************************************************************)

\* A task that moves to another place than the end takes no step of the contract.
LEMMA AliveStays ==
  ASSUME TypeOK, NEW t \in Tasks, at[t] # "ended",
         NEW place \in Places \ {"ended"}, Goto(t, place), UNCHANGED told
  PROVE  UNCHANGED Contract!vars
BY GotoMoves DEF Contract!vars, Ended

\* One that moves to the end stops if it was told to, and gives up otherwise.
LEMMA AliveEnds ==
  ASSUME TypeOK, NEW t \in Tasks, at[t] # "ended", Goto(t, "ended"), UNCHANGED told
  PROVE  Contract!Next
<1>1. (Tasks \ Ended)' = (Tasks \ Ended) \ {t} /\ t \in Tasks \ Ended
  BY GotoMoves DEF Ended, Places
<1>. QED
  BY <1>1 DEF Contract!Next, Contract!Stop, Contract!GiveUp

LEMMA StepRefines == IInv /\ [Next]_vars => [Contract!Next]_(Contract!vars)
<1> SUFFICES ASSUME IInv, [Next]_vars
             PROVE  [Contract!Next]_(Contract!vars)
  OBVIOUS
<1>. USE DEF Places, IInv
<1>1. ASSUME NEW t \in Tasks, Tell(t)
      PROVE  Contract!Next
  BY <1>1 DEF Tell, Contract!Next, Contract!Tell, Ended
<1>2. ASSUME NEW t \in Tasks, Check(t)
      PROVE  [Contract!Next]_(Contract!vars)
  BY <1>2, AliveStays, AliveEnds DEF Check
<1>3. ASSUME NEW t \in Tasks, Retry(t), at[t] # "ended"
      PROVE  [Contract!Next]_(Contract!vars)
  BY <1>3, AliveStays, AliveEnds DEF Retry
<1>4. ASSUME NEW t \in Tasks, Connect(t) \/ Receive(t) \/ Handled(t) \/ Slept(t)
      PROVE  UNCHANGED Contract!vars
  BY <1>4, AliveStays DEF Connect, Receive, Handled, Slept
<1>5. ASSUME NEW t \in Tasks, Stop(t)
      PROVE  Contract!Next
  BY <1>5, AliveEnds DEF Stop
<1>6. CASE UNCHANGED vars
  BY <1>6 DEF vars, Contract!vars, Ended
<1>. QED
  BY <1>1, <1>2, <1>3, <1>4, <1>5, <1>6
  DEF Next, Run, BadUrl, Disconnected, NetworkFails

\* Every step of the tasks is a step the orchestrator reckons with: told tasks
\* stop, others may give up, and one that has ended stays so.
THEOREM KeepsContract == Spec => Contract!Spec
<1>1. Init => Contract!Init
  BY DEF Init, Contract!Init, Ended
<1>2. IInv /\ [Next]_vars => [Contract!Next]_(Contract!vars)
  BY StepRefines
<1>. QED
  BY <1>1, <1>2, Invariance, PTL DEF Spec, Contract!Spec
=============================================================================
