------------------------------ MODULE ChangeFeed ------------------------------
(***************************************************************************)
(* What the cdc_worker promises to those who follow its messages: of every   *)
(* table the committed changes come in the order of their commits, each at    *)
(* most once, and in the end each has come or is given up.                    *)
(***************************************************************************)
EXTENDS Naturals, Sequences

CONSTANTS Tables, Operations, MaxChanges

VARIABLES
  log,      \* the committed changes, each [table, op]
  feed,     \* the positions in the log of the messages, in their order
  decided   \* of each table, the position up to which nothing more will come

vars == <<log, feed, decided>>

Init ==
  /\ log = <<>>
  /\ feed = <<>>
  /\ decided = [t \in Tables |-> 0]

Pending(t) == {i \in DOMAIN log : log[i].table = t /\ i > decided[t]}

Commit(t, op) ==
  /\ Len(log) < MaxChanges
  /\ log' = Append(log, [table |-> t, op |-> op])
  /\ UNCHANGED <<feed, decided>>

\* Any pending change may be the next to come; those of its table before it are
\* then given up.
Publish(t) ==
  \E i \in Pending(t) :
    /\ feed' = Append(feed, i)
    /\ decided' = [decided EXCEPT ![t] = i]
    /\ UNCHANGED log

GiveUp ==
  /\ \E upTo \in [Tables -> 0..Len(log)] :
       decided' = [t \in Tables |-> IF upTo[t] > decided[t] THEN upTo[t] ELSE decided[t]]
  /\ UNCHANGED <<log, feed>>

Next ==
  \/ \E t \in Tables, op \in Operations : Commit(t, op)
  \/ \E t \in Tables : Publish(t)
  \/ GiveUp

Spec == Init /\ [][Next]_vars

\* Every change is decided in the end.
EventuallyDecided ==
  \A i \in 1..MaxChanges :
    i \in DOMAIN log ~> i \in DOMAIN log /\ i <= decided[log[i].table]

FairSpec == Spec /\ EventuallyDecided
=============================================================================
