---------------------------- MODULE ServedGateways ----------------------------
(***************************************************************************)
(* What the gateway orchestrator promises.  From when on the rows are       *)
(* watched, and undisturbed, what serves the gateways follows their changes *)
(* one by one: a change of one gateway touches no other, one that leaves    *)
(* the configuration as it is touches nothing, and an earlier configuration *)
(* ends before the next one starts.  What is committed before the rows are  *)
(* watched touches nothing.  Once a process was stopped, or something was   *)
(* lost or given up, the order is not promised any more: service may end,   *)
(* and may start with any configuration that the row has or that a change   *)
(* speaks of.                                                               *)
(***************************************************************************)
EXTENDS Naturals, Sequences

CONSTANTS
  Gateways,  \* gateway ids
  Configs,   \* what a gateway may be configured to
  Absent,    \* the row was never inserted
  Deleted,   \* the row is marked as deleted
  Change     \* the changes, each with its gateway and the row it leaves

VARIABLES
  rows,      \* gateway -> its configuration, or Absent, or Deleted
  log,       \* the changes committed while the rows were watched
  watched,   \* they are
  followed,  \* how many of them have taken effect, unless disturbed
  served,    \* gateway -> the configurations it is served with, one or none
  disturbed  \* something was stopped, lost or given up

vars == <<rows, log, watched, followed, served, disturbed>>

Init ==
  /\ rows = [g \in Gateways |-> Absent]
  /\ log = <<>>
  /\ watched = FALSE
  /\ followed = 0
  /\ served = [g \in Gateways |-> {}]
  /\ disturbed = FALSE

\* A row is inserted once and deleted once, and changes in between.
Commit(c) ==
  /\ \/ rows[c.gw] = Absent /\ c.row \in Configs
     \/ rows[c.gw] \in Configs /\ c.row \in Configs \cup {Deleted}
  /\ rows' = [rows EXCEPT ![c.gw] = c.row]
  /\ log' = IF watched THEN Append(log, c) ELSE log
  /\ UNCHANGED <<watched, followed, served, disturbed>>

Watch ==
  /\ watched' = TRUE
  /\ UNCHANGED <<rows, log, followed, served, disturbed>>

(***************************************************************************)
(* Undisturbed.                                                             *)
(***************************************************************************)
Wants(c) == {c.row} \cap Configs

\* The next change to take effect.
Due == log[followed + 1]

Following == ~disturbed /\ followed < Len(log)

EndEarlier ==
  /\ Following
  /\ served[Due.gw] \notin {{}, Wants(Due)}
  /\ served' = [served EXCEPT ![Due.gw] = {}]
  /\ UNCHANGED <<rows, log, watched, followed, disturbed>>

StartDue ==
  /\ Following
  /\ served[Due.gw] = {}
  /\ served' = [served EXCEPT ![Due.gw] = Wants(Due)]
  /\ UNCHANGED <<rows, log, watched, followed, disturbed>>

GoOn ==
  /\ Following
  /\ served[Due.gw] = Wants(Due)
  /\ followed' = followed + 1
  /\ UNCHANGED <<rows, log, watched, served, disturbed>>

Follow == EndEarlier \/ StartDue \/ GoOn

(***************************************************************************)
(* Disturbed.                                                               *)
(***************************************************************************)
\* What the row is configured to, and what changes may still speak of.
Offered(g) ==
  ({rows[g]} \cup {log[i].row : i \in {i \in 1..Len(log) : log[i].gw = g}}) \cap Configs

End(gs) == served' = [g \in Gateways |-> IF g \in gs THEN {} ELSE served[g]]

\* One of the changes may be lost.
Lose ==
  /\ \E n \in 1..Len(log) : log' = SubSeq(log, 1, n - 1) \o SubSeq(log, n + 1, Len(log))
  /\ UNCHANGED watched

\* Who watches may stop, and forget the last changes.
Unwatch ==
  /\ \E n \in 0..Len(log) : log' = SubSeq(log, 1, n)
  /\ watched' = FALSE

Disturb ==
  /\ disturbed' = TRUE
  /\ followed' = 0
  /\ UNCHANGED <<log, watched>> \/ Lose \/ Unwatch
  /\ \E gs \in SUBSET Gateways : End(gs)
  /\ UNCHANGED rows

EndSome ==
  /\ disturbed
  /\ UNCHANGED <<log, watched>> \/ Unwatch
  /\ \E gs \in SUBSET Gateways : End(gs)
  /\ UNCHANGED <<rows, followed, disturbed>>

StartAny(g) ==
  /\ disturbed
  /\ served[g] = {}
  /\ \E c \in Offered(g) : served' = [served EXCEPT ![g] = {c}]
  /\ UNCHANGED <<rows, log, watched, followed, disturbed>>

Next ==
  \/ \E c \in Change : Commit(c)
  \/ Watch
  \/ Follow
  \/ Disturb
  \/ EndSome
  \/ \E g \in Gateways : StartAny(g)

Spec == Init /\ [][Next]_vars
=============================================================================
