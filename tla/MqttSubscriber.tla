---------------------------- MODULE MqttSubscriber ----------------------------
(***************************************************************************)
(* run_mqtt_subscriber: the tasks that subscribe for one gateway, in one    *)
(* program or in several, and the broker's session.  All of them connect    *)
(* under the client id ponix-{gateway_id}, so the broker keeps one session: *)
(* that of the last to connect.                                             *)
(***************************************************************************)
EXTENDS Naturals

CONSTANTS
  Tasks,       \* the subscriber tasks of the gateway
  NoTask,      \* the broker has no session for the client id
  MaxRetries,  \* max_retry_attempts
  MaxMessages, \* bound on the messages that arrive
  MaxFaults    \* bound on the connection errors that the network causes

ASSUME SubscriberAssumption ==
  /\ NoTask \notin Tasks
  /\ MaxRetries \in Nat /\ MaxMessages \in Nat /\ MaxFaults \in Nat

VARIABLES
  at,       \* where each task is
  retries,  \* its retry_count
  told,     \* the tasks whose process or shutdown token is cancelled
  session,  \* the task that the broker's session belongs to
  urlOk,    \* parse_broker_url accepts the gateway's broker_url
  messages, \* counts the messages received, for MaxMessages
  faults    \* counts the network's faults, for MaxFaults

vars == <<at, retries, told, session, urlOk, messages, faults>>

Places == {"check", "connect", "listen", "publish", "wait", "ended"}

Init ==
  /\ at = [t \in Tasks |-> "check"]
  /\ retries = [t \in Tasks |-> 0]
  /\ told = {}
  /\ session = NoTask
  /\ urlOk \in BOOLEAN
  /\ messages = 0
  /\ faults = 0

Goto(t, place) == at' = [at EXCEPT ![t] = place]

\* The event loop of the task is dropped, and its connection with it.
Leave(t) == session' = IF session = t THEN NoTask ELSE session

\* CancellationToken::cancel, of the task's own token or of the orchestrator's.
Tell(t) ==
  /\ t \notin told
  /\ told' = told \cup {t}
  /\ UNCHANGED <<at, retries, session, urlOk, messages, faults>>

\* The top of the retry loop.
Check(t) ==
  /\ at[t] = "check"
  /\ Goto(t, IF t \in told THEN "ended" ELSE "connect")
  /\ UNCHANGED <<retries, told, session, urlOk, messages, faults>>

\* Mutant: the retries are not counted.
RetryForever(t) ==
  /\ Goto(t, "wait")
  /\ Leave(t)
  /\ UNCHANGED <<retries, told, urlOk, messages>>

\* Mutant: any error is taken for a clean exit.
EndOnError(t) ==
  /\ Goto(t, "ended")
  /\ Leave(t)
  /\ UNCHANGED <<retries, told, urlOk, messages>>

\* run_mqtt_connection returns an error.  The count is never set back to 0.
Retry(t) ==
  /\ retries' = [retries EXCEPT ![t] = @ + 1]
  /\ Goto(t, IF retries'[t] >= MaxRetries THEN "ended" ELSE "wait")
  /\ Leave(t)
  /\ UNCHANGED <<told, urlOk, messages>>

BadUrl(t) ==
  /\ at[t] = "connect"
  /\ ~urlOk
  /\ Retry(t)
  /\ UNCHANGED faults

\* The first poll of the event loop connects, with clean_start; the broker
\* closes the connection of a session that the client id already had.
Connect(t) ==
  /\ at[t] = "connect"
  /\ urlOk
  /\ session' = t
  /\ Goto(t, "listen")
  /\ UNCHANGED <<retries, told, urlOk, messages, faults>>

\* The broker cannot be reached, or the connection breaks.
NetworkFails(t) ==
  /\ at[t] \in {"connect", "listen"}
  /\ urlOk
  /\ faults < MaxFaults
  /\ faults' = faults + 1
  /\ Retry(t)

\* poll returns an error because the session was taken over.
Disconnected(t) ==
  /\ at[t] = "listen"
  /\ session # t
  /\ Retry(t)
  /\ UNCHANGED faults

\* A message of the subscription arrives; handle_mqtt_message publishes it, and
\* nothing else of the task runs before that returns.
Receive(t) ==
  /\ at[t] = "listen"
  /\ session = t
  /\ messages < MaxMessages
  /\ messages' = messages + 1
  /\ Goto(t, "publish")
  /\ UNCHANGED <<retries, told, session, urlOk, faults>>

\* The publish succeeds or its error is logged, or the topic was refused.
Handled(t) ==
  /\ at[t] = "publish"
  /\ Goto(t, "listen")
  /\ UNCHANGED <<retries, told, session, urlOk, messages, faults>>

\* Mutant: the select of the event loop does not wait for the tokens.
StopsBetweenConnections(t) ==
  /\ at[t] = "wait"
  /\ t \in told
  /\ Goto(t, "ended")
  /\ Leave(t)
  /\ UNCHANGED <<retries, told, urlOk, messages, faults>>

\* A token wins a select.
Stop(t) ==
  /\ at[t] \in {"connect", "listen", "wait"}
  /\ at[t] = "connect" => urlOk
  /\ t \in told
  /\ Goto(t, "ended")
  /\ Leave(t)
  /\ UNCHANGED <<retries, told, urlOk, messages, faults>>

\* The sleep wins the select.
Slept(t) ==
  /\ at[t] = "wait"
  /\ Goto(t, "check")
  /\ UNCHANGED <<retries, told, session, urlOk, messages, faults>>

Run(t) ==
  \/ Check(t)
  \/ BadUrl(t)
  \/ Connect(t)
  \/ NetworkFails(t)
  \/ Disconnected(t)
  \/ Receive(t)
  \/ Handled(t)
  \/ Stop(t)
  \/ Slept(t)

Next == \E t \in Tasks : Tell(t) \/ Run(t)

Spec == Init /\ [][Next]_vars

\* Each task keeps running, and a select in which a token is ready picks at
\* random, so it picks the token if it gets the chance again and again.
Fairness ==
  \A t \in Tasks :
    /\ WF_vars(Check(t) \/ BadUrl(t) \/ Connect(t) \/ Disconnected(t)
                 \/ Handled(t) \/ Slept(t))
    /\ SF_vars(Stop(t))

FairSpec == Spec /\ Fairness

-----------------------------------------------------------------------------
TypeOK ==
  /\ at \in [Tasks -> Places]
  /\ retries \in [Tasks -> Nat]
  /\ told \subseteq Tasks
  /\ session \in Tasks \cup {NoTask}
  /\ session # NoTask => at[session] \in {"listen", "publish"}
  /\ urlOk \in BOOLEAN
  /\ messages \in 0..MaxMessages
  /\ faults \in 0..MaxFaults

Ended == {t \in Tasks : at[t] = "ended"}

\* A task ends because it was told to, or after as many errors as it may have
\* retries (one if it may have none), and it never goes on past that number.
EndsForAReason ==
  \A t \in Tasks :
    /\ t \in Ended => t \in told \/ (retries[t] >= MaxRetries /\ retries[t] > 0)
    /\ t \notin Ended => retries[t] = 0 \/ retries[t] < MaxRetries

\* What the orchestrator relies on.
Contract == INSTANCE SubscriberTasks WITH alive <- Tasks \ Ended

ImplementsContract == Contract!FairSpec

\* Tasks that the orchestrator wants and the network does not trouble, with a
\* broker URL in order.
Undisturbed == urlOk /\ told = {} /\ faults = 0

\* The tasks of one gateway disconnect each other, but not for ever: someone
\* ends up with the session and keeps it.
SomeoneListens ==
  []Undisturbed => \E t \in Tasks : <>[](session = t)
=============================================================================
