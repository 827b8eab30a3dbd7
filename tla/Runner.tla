-------------------------------- MODULE Runner --------------------------------
(***************************************************************************)
(* Runner::run: the app processes run as tasks of one JoinSet and share a   *)
(* cancellation token; the first error, panic or signal cancels it; what    *)
(* still runs is aborted, the closers run under a timeout, and the program  *)
(* exits.                                                                   *)
(***************************************************************************)
CONSTANTS
  Processes,  \* the registered app processes
  Heeding,    \* those that return once the token is cancelled
  Closers,    \* the registered closers
  NoProcess,  \* first_error is None
  NoCode      \* the program has not exited

ASSUME ProcessAssumption == NoProcess \notin Processes /\ Heeding \subseteq Processes
ASSUME CodeAssumption == NoCode \notin {0, 1}

VARIABLES
  proc,       \* what each process is doing, or how it ended
  joined,     \* processes whose result join_next has returned
  token,      \* "live", or what cancelled the token first
  firstError, \* the process whose error is in first_error
  stage,      \* where run is
  closer,     \* what each closer is doing
  exitCode    \* the argument of process::exit

vars == <<proc, joined, token, firstError, stage, closer, exitCode>>

Results == {"ok", "error", "panic"}
Causes  == {"signal", "error", "panic"}
Stages  == {"joining", "aborting", "closing", "exited"}

Init ==
  /\ proc = [p \in Processes |-> "running"]
  /\ joined = {}
  /\ token = "live"
  /\ firstError = NoProcess
  /\ stage = "joining"
  /\ closer = [c \in Closers |-> "idle"]
  /\ exitCode = NoCode

Running == {p \in Processes : proc[p] = "running"}

\* A process returns, on its own account or because it saw the token.
ProcessEnds(p, result) ==
  /\ stage \in {"joining", "aborting"}
  /\ p \in Running
  /\ proc' = [proc EXCEPT ![p] = result]
  /\ UNCHANGED <<joined, token, firstError, stage, closer, exitCode>>

\* ctrl_c or SIGTERM; the signal tasks live until the program exits.
Signal ==
  /\ stage # "exited"
  /\ token = "live"
  /\ token' = "signal"
  /\ UNCHANGED <<proc, joined, firstError, stage, closer, exitCode>>

CancelToken(cause) == token' = IF token = "live" THEN cause ELSE token

\* Mutant: first_error is set though the token is cancelled already.
JoinEveryError(p) ==
  /\ stage = "joining"
  /\ proc[p] \in Results
  /\ p \notin joined
  /\ joined' = joined \cup {p}
  /\ IF proc[p] = "ok" THEN UNCHANGED token ELSE CancelToken(proc[p])
  /\ firstError' = IF proc[p] = "error" THEN p ELSE firstError
  /\ stage' = IF token' # "live" THEN "aborting" ELSE stage
  /\ UNCHANGED <<proc, closer, exitCode>>

\* Mutant: the loop goes on after the token is cancelled.
JoinWithoutBreak(p) ==
  /\ stage = "joining"
  /\ proc[p] \in Results
  /\ p \notin joined
  /\ joined' = joined \cup {p}
  /\ IF proc[p] = "ok" THEN UNCHANGED token ELSE CancelToken(proc[p])
  /\ firstError' = IF proc[p] = "error" /\ token = "live" THEN p ELSE firstError
  /\ UNCHANGED <<proc, stage, closer, exitCode>>

\* One turn of the join_next loop.  An error is kept only if it is what cancels
\* the token, a panic never is, and the loop breaks on a cancelled token.
JoinNext(p) ==
  /\ stage = "joining"
  /\ proc[p] \in Results
  /\ p \notin joined
  /\ joined' = joined \cup {p}
  /\ IF proc[p] = "ok" THEN UNCHANGED token ELSE CancelToken(proc[p])
  /\ firstError' = IF proc[p] = "error" /\ token = "live" THEN p ELSE firstError
  /\ stage' = IF token' # "live" THEN "aborting" ELSE stage
  /\ UNCHANGED <<proc, closer, exitCode>>

\* join_next returns None.
NothingToJoin ==
  /\ stage = "joining"
  /\ joined = Processes
  /\ stage' = "aborting"
  /\ UNCHANGED <<proc, joined, token, firstError, closer, exitCode>>

\* JoinSet::shutdown drops each task where it awaits ...
Abort(p) ==
  /\ stage = "aborting"
  /\ p \in Running
  /\ proc' = [proc EXCEPT ![p] = "aborted"]
  /\ UNCHANGED <<joined, token, firstError, stage, closer, exitCode>>

\* Mutant: the tasks are aborted and not waited for.
RunClosersAtOnce ==
  /\ stage = "aborting"
  /\ stage' = "closing"
  /\ closer' = [c \in Closers |-> "running"]
  /\ UNCHANGED <<proc, joined, token, firstError, exitCode>>

\* ... and returns when none is left; the closers then run concurrently.
RunClosers ==
  /\ stage = "aborting"
  /\ Running = {}
  /\ stage' = "closing"
  /\ closer' = [c \in Closers |-> "running"]
  /\ UNCHANGED <<proc, joined, token, firstError, exitCode>>

\* A closer returns, fails or panics, which is only logged.
CloserEnds(c) ==
  /\ stage = "closing"
  /\ closer[c] = "running"
  /\ closer' = [closer EXCEPT ![c] = "done"]
  /\ UNCHANGED <<proc, joined, token, firstError, stage, exitCode>>

\* closer_timeout: the closers still running are dropped with their JoinSet.
CloserTimeout ==
  /\ stage = "closing"
  /\ \E c \in Closers : closer[c] = "running"
  /\ closer' = [c \in Closers |-> IF closer[c] = "running" THEN "dropped" ELSE closer[c]]
  /\ UNCHANGED <<proc, joined, token, firstError, stage, exitCode>>

Exit ==
  /\ stage = "closing"
  /\ \A c \in Closers : closer[c] # "running"
  /\ stage' = "exited"
  /\ exitCode' = IF firstError = NoProcess THEN 0 ELSE 1
  /\ UNCHANGED <<proc, joined, token, firstError, closer>>

Next ==
  \/ \E p \in Processes : \/ \E r \in Results : ProcessEnds(p, r)
                          \/ JoinNext(p)
                          \/ Abort(p)
  \/ Signal
  \/ NothingToJoin
  \/ RunClosers
  \/ \E c \in Closers : CloserEnds(c)
  \/ CloserTimeout
  \/ Exit

Spec == Init /\ [][Next]_vars

\* run and tokio make progress, the timeout elapses, and the processes of Heeding
\* heed a cancelled token.  No other process has to end, and no closer.
Fairness ==
  /\ \A p \in Heeding :
       WF_vars(token # "live" /\ \E r \in Results : ProcessEnds(p, r))
  /\ WF_vars(\E p \in Processes : JoinNext(p))
  /\ WF_vars(NothingToJoin)
  /\ WF_vars(\E p \in Processes : Abort(p))
  /\ WF_vars(RunClosers)
  /\ WF_vars(CloserTimeout)
  /\ WF_vars(Exit)

-----------------------------------------------------------------------------
TypeOK ==
  /\ proc \in [Processes -> Results \cup {"running", "aborted"}]
  /\ joined \subseteq {p \in Processes : proc[p] \in Results}
  /\ token \in Causes \cup {"live"}
  /\ firstError \in joined \cup {NoProcess}
  /\ stage \in Stages
  /\ closer \in [Closers -> {"idle", "running", "done", "dropped"}]
  /\ exitCode \in {0, 1, NoCode}

\* "Closers are executed after all app processes have stopped" (with_closer):
\* however the processes ended, none runs beside a closer, or after the exit.
ClosersLast ==
  (stage \in {"closing", "exited"} \/ \E c \in Closers : closer[c] # "idle")
    => Running = {}

\* The exit code is 1 exactly when an error is what began the shutdown, and the
\* error kept is one a process returned.  An error that comes after the token was
\* cancelled for another reason changes nothing in Runner::run, although
\* docs/modules/runner.md:62 has "If any process returned an error, the binary
\* exits with code 1".  Without a cause every process returned Ok.
ExitCodeTellsCause ==
  stage = "exited" =>
    /\ exitCode = 1 <=> token = "error"
    /\ token = "error" => firstError # NoProcess /\ proc[firstError] = "error"
    /\ token = "live" => \A p \in Processes : proc[p] = "ok"

\* The program is told to stop and one of the processes it still waits for heeds
\* the token; or it waits for none any more.
MustExit ==
  \/ token # "live" /\ Heeding \ joined # {}
  \/ stage # "joining"
  \/ Running = {}

-----------------------------------------------------------------------------
(***************************************************************************)
(* The inductive invariant behind ClosersLast and ExitCodeTellsCause.       *)
(***************************************************************************)
StageInv ==
  /\ stage \in {"joining", "aborting"} =>
       \A c \in Closers : closer[c] = "idle"
  /\ stage \in {"closing", "exited"} => Running = {}
  /\ exitCode # NoCode <=> stage = "exited"
  /\ stage = "exited" => exitCode = IF firstError = NoProcess THEN 0 ELSE 1

CauseInv ==
  /\ firstError # NoProcess <=> token = "error"
  /\ firstError # NoProcess => proc[firstError] = "error"
  /\ stage # "joining" /\ token = "live" => joined = Processes
  /\ token = "live" => \A p \in joined : proc[p] = "ok"

IInv == TypeOK /\ StageInv /\ CauseInv
=============================================================================
