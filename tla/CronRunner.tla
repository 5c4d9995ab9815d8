---------------------------- MODULE CronRunner -----------------------------
(***************************************************************************)
(* The runner that every scheduled job goes through.  Timers fire whether or *)
(* not the job's last run has ended, and each run awaits five callbacks of    *)
(* its job in turn, any of which may throw or refuse.                        *)
(***************************************************************************)
EXTENDS Requests, Sequences

CONSTANTS
    Actions,    \* the jobs of one runner: lock keys
    Parallel    \* those whose caller passes allowConcurrent

ASSUME CronAssumption == Parallel \subseteq Actions /\ None \notin Actions

VARIABLES
    inFlight,   \* lock keys
    runs,       \* each run in progress: [at, action]
    outcome     \* what the last run of each action answered

cronVars == <<inFlight, runs, outcome>>

Stages == <<"prepare", "validate", "sanitize", "execute", "confirm">>
Run(at, action) == [at |-> at, action |-> action]
NoRun == Run(0, None)

CronInit ==
    /\ inFlight = {}
    /\ runs = [c \in Calls |-> NoRun]
    /\ outcome = [a \in Actions |-> "none"]

Running(a) == {c \in Calls : runs[c].action = a}

MayStart(a) == a \in Parallel \/ a \notin inFlight

\* A timer fires: the run takes the lock, or is skipped.
RunAction(c) ==
    \E a \in Actions :
        /\ runs[c] = NoRun
        /\ MayStart(a)
        /\ inFlight' = inFlight \cup {a}
        /\ runs' = [runs EXCEPT ![c] = Run(1, a)]
        /\ UNCHANGED outcome

Skipped(c) ==
    \E a \in Actions :
        /\ runs[c] = NoRun
        /\ ~MayStart(a)
        /\ outcome' = [outcome EXCEPT ![a] = "already_running"]
        /\ UNCHANGED <<inFlight, runs>>

\* Slip: a callback that throws leaves the lock behind.
KeepsLock(a, answer) == IF answer = "ok" THEN inFlight \ {a} ELSE inFlight

\* finally
Released(a, answer) == inFlight \ {a}

\* The run returns, from any of its stages.
Returns(c, answer) ==
    LET a == runs[c].action IN
    /\ inFlight' = Released(a, answer)
    /\ runs' = [runs EXCEPT ![c] = NoRun]
    /\ outcome' = [outcome EXCEPT ![a] = answer]

\* A callback has done what it does.
StageEnds(c) ==
    /\ runs[c].at \in 1 .. Len(Stages)
    /\ IF runs[c].at < Len(Stages)
       THEN runs' = [runs EXCEPT ![c].at = @ + 1] /\ UNCHANGED <<inFlight, outcome>>
       ELSE Returns(c, "ok")

\* It throws, or, of those that are asked, answers that it is not so.
StageFails(c) ==
    /\ MayFail
    /\ runs[c].at \in 1 .. Len(Stages)
    /\ Returns(c, Stages[runs[c].at])

\* The process starts anew: the locks are forgotten with the runs.
Restarts ==
    /\ inFlight' = {}
    /\ runs' = [c \in Calls |-> NoRun]
    /\ UNCHANGED outcome

CronNext == Restarts \/ \E c \in Calls : RunAction(c) \/ Skipped(c) \/ StageEnds(c) \/ StageFails(c)

CronSpec == CronInit /\ [][CronNext]_cronVars

-----------------------------------------------------------------------------
(* Properties.                                                              *)

\* Type correctness of the locks and the runs.
CronTypeOK ==
    /\ inFlight \subseteq Actions
    /\ runs \in [Calls -> [at : 0 .. Len(Stages), action : Actions \cup {None}]]
    /\ outcome \in [Actions -> {"none", "ok", "already_running"} \cup {Stages[i] : i \in 1 .. Len(Stages)}]

\* No job overlaps with itself, unless its caller allows it: what a run has
\* prepared is still so when it executes.
JobsDoNotOverlap ==
    \A a \in Actions \ Parallel : \A c, d \in Running(a) : c = d

\* A lock is held by a run, however the runs before it ended: a job that has
\* failed is run again at its next time.
LocksAreHeld == \A a \in inFlight : a \in Parallel \/ Running(a) # {}
=============================================================================
