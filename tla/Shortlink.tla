------------------------------ MODULE Shortlink ------------------------------
(***************************************************************************)
(* The shortlink of one user: three waited steps, each answered with the    *)
(* token of the next, and a machine for the last.  The server keeps one row *)
(* (shortlink_completions); a tab keeps its step and token in               *)
(* sessionStorage.  Answers get lost, tabs are reloaded and the user clicks *)
(* again; the request that is already made goes on.                         *)
(***************************************************************************)
EXTENDS Requests

CONSTANTS
    Tabs,
    TotalSteps, MaxDailyRuns,
    LastSecond,     \* bound: the clock, in minimal step times
    MaxBoots        \* bound: restarts of the server

ASSUME ShortlinkAssumption ==
    /\ TotalSteps \in Nat \ {0}
    /\ {MaxDailyRuns, LastSecond, MaxBoots} \subseteq Nat

VARIABLES
    second,
    row,        \* shortlink_completions: [step, runs, token, since]
    runs,       \* machines given
    tab,        \* sl_session of each tab, and whether it waits for an answer
    scall,      \* progress of each request
    begun,      \* when the first run was started
    twice,      \* one session's last step, or two starts, were in flight together
    dropped,    \* an answer was lost or a request failed
    boots       \* restarts of the server

shortlinkVars == <<second, row, runs, tab, scall, begun, twice, dropped, boots>>

Steps == 0 .. TotalSteps
Seconds == 0 .. LastSecond

\* generateStepToken hashes the step and Date.now().
Token(step, at) == <<step, at>>
Tokens == Steps \X Seconds
NoToken == <<0, 0>>

CompletionRow(step, done, token, since) ==
    [step |-> step, runs |-> done, token |-> token, since |-> since]

Tab(step, token, since, waits) ==
    [step |-> step, token |-> token, since |-> since, waits |-> waits]
NoSession == Tab(0, NoToken, 0, FALSE)

\* The handler's snapshot: now, and the step it completes (0 for a start).
SCall(pc, t, step, token, now) ==
    [pc |-> pc, tab |-> t, step |-> step, token |-> token, now |-> now]
SIdle == SCall("idle", None, 0, NoToken, 0)

ShortlinkInit ==
    /\ second = 0
    /\ row = CompletionRow(0, 0, NoToken, 0)
    /\ runs = 0
    /\ tab = [t \in Tabs |-> NoSession]
    /\ scall = [c \in Calls |-> SIdle]
    /\ begun = LastSecond
    /\ twice = FALSE /\ dropped = FALSE /\ boots = 0

SecondPasses ==
    /\ second < LastSecond
    /\ second' = second + 1
    /\ UNCHANGED <<row, runs, tab, scall, begun, twice, dropped, boots>>

-----------------------------------------------------------------------------
(* The tab: Shortlinks.jsx and ShortlinkStep.jsx.                           *)

Sends(c, t, q) ==
    /\ scall[c].pc = "idle" /\ ~tab[t].waits
    /\ scall' = [scall EXCEPT ![c] = q]
    /\ tab' = [tab EXCEPT ![t].waits = TRUE]
    /\ twice' = (twice \/ \E d \in Calls : scall[d].pc # "idle")
    /\ UNCHANGED <<second, row, runs, begun, dropped, boots>>

handleStart(c, t) == Sends(c, t, SCall("sent", t, 0, NoToken, second))

\* The button is enabled ten seconds after the step was shown.
handleNext(c, t) ==
    /\ tab[t].step > 0 /\ second > tab[t].since
    /\ Sends(c, t, SCall("sent", t, tab[t].step, tab[t].token, second))

\* The tab is reloaded: its request goes on, its answer reaches nobody.
Reload(t) ==
    /\ MayFail
    /\ tab[t].waits
    /\ tab' = [tab EXCEPT ![t].waits = FALSE]
    /\ scall' = [c \in Calls |-> IF scall[c].tab = t THEN [scall[c] EXCEPT !.tab = None] ELSE scall[c]]
    /\ dropped' = TRUE
    /\ UNCHANGED <<second, row, runs, begun, twice, boots>>

-----------------------------------------------------------------------------
(* The server.                                                              *)

\* c answers its tab, if that still listens, and the tab goes on as s.
Answers(c, s) ==
    /\ scall' = [scall EXCEPT ![c] = SIdle]
    /\ tab' = [t \in Tabs |-> IF t = scall[c].tab THEN s ELSE tab[t]]

Kept(c) == [tab[scall[c].tab] EXCEPT !.waits = FALSE]

\* Slip: the daily limit is compared one run too late.
WithinLimitPlusOne == row.runs <= MaxDailyRuns

WithinLimit == row.runs < MaxDailyRuns

\* startShortlink and completeShortlinkStep read the row: 400 leaves the
\* tab's session, 403 drops it.
startShortlinkReads(c) ==
    /\ scall[c].pc = "sent" /\ scall[c].step = 0
    /\ IF WithinLimit
       THEN /\ scall' = [scall EXCEPT ![c].pc = "start", ![c].now = second]
            /\ UNCHANGED tab
       ELSE Answers(c, Kept(c))
    /\ UNCHANGED <<second, row, runs, begun, twice, dropped, boots>>

\* Slip: the row keeps the token it has.
StartKeepsToken(c) ==
    /\ scall[c].pc = "start"
    /\ row' = CompletionRow(0, row.runs, row.token, second)
    /\ begun' = IF second < begun THEN second ELSE begun
    /\ Answers(c, Tab(1, Token(1, second), second, FALSE))
    /\ UNCHANGED <<second, runs, twice, dropped, boots>>

startShortlink(c) ==
    LET token == Token(1, second) IN
    /\ scall[c].pc = "start"
    /\ row' = CompletionRow(0, row.runs, token, second)
    /\ begun' = IF second < begun THEN second ELSE begun
    /\ Answers(c, Tab(1, token, second, FALSE))
    /\ UNCHANGED <<second, runs, twice, dropped, boots>>

NoIncident(c) == row.token = scall[c].token /\ second > row.since

completeStepReads(c) ==
    /\ scall[c].pc = "sent" /\ scall[c].step > 0
    /\ IF row.token = NoToken THEN Answers(c, Kept(c))
       ELSE IF WithinLimit /\ NoIncident(c)
       THEN /\ scall' = [scall EXCEPT ![c].pc = "step", ![c].now = second]
            /\ UNCHANGED tab
       ELSE Answers(c, NoSession)
    /\ UNCHANGED <<second, row, runs, begun, twice, dropped, boots>>

\* Slips: the last step has a successor; a step is passed over.
StepAfterLast(step) == step + 1
StepPassedOver(step) == IF step = TotalSteps THEN 0 ELSE TotalSteps

NextStep(step) == IF step = TotalSteps THEN 0 ELSE step + 1

\* nextSessionToken is made before the transaction.
completeShortlinkStep(c) ==
    LET q == scall[c]
        next == NextStep(q.step)
        last == q.step = TotalSteps
        token == IF next = 0 THEN NoToken ELSE Token(next, q.now)
    IN  /\ q.pc = "step"
        /\ row' = CompletionRow(next, IF last THEN row.runs + 1 ELSE row.runs, token, q.now)
        /\ runs' = IF last THEN runs + 1 ELSE runs
        /\ Answers(c, IF last THEN NoSession ELSE Tab(next, token, second, FALSE))
        /\ UNCHANGED <<second, begun, twice, dropped, boots>>

\* A statement throws and the answer is 500.
ShortlinkFails(c) ==
    /\ MayFail
    /\ scall[c].pc # "idle"
    /\ Answers(c, Kept(c))
    /\ dropped' = TRUE
    /\ UNCHANGED <<second, row, runs, begun, twice, boots>>

\* bootstrap: the server starts again, its requests are never answered, and
\* the "one-time" reset of the runs is made each time.
ServerStarts ==
    /\ MayFail
    /\ boots < MaxBoots
    /\ boots' = boots + 1
    /\ row' = CompletionRow(row.step, 0, row.token, row.since)
    /\ scall' = [c \in Calls |-> SIdle]
    /\ tab' = [t \in Tabs |-> [tab[t] EXCEPT !.waits = FALSE]]
    /\ dropped' = (dropped \/ \E c \in Calls : scall[c].pc # "idle")
    /\ UNCHANGED <<second, runs, begun, twice>>

ShortlinkNext ==
    \/ SecondPasses \/ ServerStarts
    \/ \E t \in Tabs :
          \/ Reload(t)
          \/ \E c \in Calls : handleStart(c, t) \/ handleNext(c, t)
    \/ \E c \in Calls :
          \/ startShortlinkReads(c) \/ startShortlink(c)
          \/ completeStepReads(c) \/ completeShortlinkStep(c)
          \/ ShortlinkFails(c)

ShortlinkSpec == ShortlinkInit /\ [][ShortlinkNext]_shortlinkVars

-----------------------------------------------------------------------------
(* Properties.                                                              *)

\* Type correctness of the row, the tabs and the requests.
ShortlinkTypeOK ==
    /\ second \in Seconds /\ begun \in Seconds /\ runs \in Nat
    /\ row \in [step: Steps, runs: Nat, token: Tokens, since: Seconds]
    /\ tab \in [Tabs -> [step: Steps, token: Tokens, since: Seconds, waits: BOOLEAN]]
    /\ scall \in [Calls -> [pc: {"idle", "sent", "start", "step"}, tab: Tabs \cup {None},
                            step: Steps, token: Tokens, now: Seconds]]
    /\ {twice, dropped} \subseteq BOOLEAN /\ boots \in 0 .. MaxBoots

\* Between two starts of the server the account gets one machine for its runs,
\* one more for each further request in flight at the same time, whatever is
\* lost and clicked again.
RunsAreLimited ==
    runs <= (boots + 1) * (MaxDailyRuns + (IF twice THEN Cardinality(Calls) - 1 ELSE 0))

\* Each of the three steps is waited for: no machine is given earlier,
\* whatever tabs restart the run or repeat a step.
StepsAreWaited == [][runs' > runs => second >= begun + TotalSteps]_shortlinkVars

OneTab == \A t, u \in Tabs : t = u

\* The tab and the server agree on the step that comes next and on its
\* token, when nothing is in flight, one tab is used and no answer was lost.
TabFollowsRow ==
    (OneTab /\ ~dropped /\ \A c \in Calls : scall[c].pc = "idle") =>
        \A t \in Tabs : tab[t].step > 0 =>
            /\ tab[t].token = row.token
            /\ tab[t].step = IF row.step = 0 THEN 1 ELSE row.step
=============================================================================
