------------------------------ MODULE WorkQueue ------------------------------
(***************************************************************************)
(* What a durable consumer promises: whatever is submitted is offered to    *)
(* the service until the service accepts it, and is settled only then.  It  *)
(* may be accepted more than once, and in any order.                        *)
(***************************************************************************)
EXTENDS Naturals

CONSTANT MaxSubmitted  \* bound on the items submitted

VARIABLES
  submitted, \* how many items there are; they are numbered from 1
  accepted,  \* the items that the service has accepted
  settled    \* the items that will not be offered again

vars == <<submitted, accepted, settled>>

Init == submitted = 0 /\ accepted = {} /\ settled = {}

Submit ==
  /\ submitted < MaxSubmitted
  /\ submitted' = submitted + 1
  /\ UNCHANGED <<accepted, settled>>

Accept(i) ==
  /\ i \in 1..submitted \ settled
  /\ accepted' = accepted \cup {i}
  /\ UNCHANGED <<submitted, settled>>

Settle(i) ==
  /\ i \in accepted \ settled
  /\ settled' = settled \cup {i}
  /\ UNCHANGED <<submitted, accepted>>

Next == Submit \/ \E i \in 1..MaxSubmitted : Accept(i) \/ Settle(i)

Spec == Init /\ [][Next]_vars

\* Every submitted item ends up settled.
FairSpec ==
  /\ Spec
  /\ \A i \in 1..MaxSubmitted : WF_vars(Accept(i)) /\ WF_vars(Settle(i))
=============================================================================
