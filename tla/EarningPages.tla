---------------------------- MODULE EarningPages ----------------------------
(***************************************************************************)
(* The pages that earn while they are left open: the YouTube page, in       *)
(* several tabs, and the page of automatic GPU mining.                      *)
(***************************************************************************)
EXTENDS Requests

-----------------------------------------------------------------------------
(***************************************************************************)
(* The YouTube page in several tabs of one browser.  One tab at a time is to *)
(* count: its name and the time of its last check are kept in localStorage,   *)
(* where every tab looks when its effect runs, every few seconds while it     *)
(* plays, and when the browser tells it that the key has changed.  Reading    *)
(* the key and writing it are two steps: the storage has no lock.             *)
(***************************************************************************)

CONSTANTS
    Tabs,
    CheckEvery,     \* ticks between two looks of a tab that plays
    LeaderTtl,      \* ticks after which a name is out of date
    FullCount,      \* ticks of a countdown
    MaxToggles      \* bound: tabs opened, closed, begun and paused

ASSUME WatchTabsAssumption ==
    /\ None \notin Tabs
    /\ {CheckEvery, LeaderTtl, FullCount, MaxToggles} \subseteq Nat \ {0}
    /\ CheckEvery < LeaderTtl

VARIABLES
    leaderKey,  \* localStorage: [tab, age], or NoKey
    tabs,       \* by tab: [open, plays, leads, since, count, told, writes, claims]
    together,   \* ghost: the ticks in a row in which two tabs counted, since the last toggle
    unled,      \* ghost: the ticks in a row in which tabs played and none counted
    toggles

tabsVars == <<leaderKey, tabs, together, unled, toggles>>

NoKey == [tab |-> None, age |-> 0]
Expired == leaderKey = NoKey \/ leaderKey.age > LeaderTtl

\* since: ticks since its last look; told: it is to hear of a change; writes:
\* it has read the key and is about to write; claims: a claim is under way.
Closed == [open |-> FALSE, plays |-> FALSE, leads |-> TRUE, since |-> 0, count |-> FullCount,
           told |-> FALSE, writes |-> FALSE, claims |-> FALSE]

WatchTabsInit ==
    /\ leaderKey = NoKey
    /\ tabs = [t \in Tabs |-> Closed]
    /\ together = 0 /\ unled = 0
    /\ toggles = 0

Counts(t) == tabs[t].plays /\ tabs[t].leads
Toggled == toggles < MaxToggles /\ toggles' = toggles + 1 /\ together' = 0 /\ unled' = 0

\* Slip: another tab's name is taken over.
MayLead(t) == TRUE

MayWrite(t) == Expired \/ leaderKey.tab = t

\* What tryBecomeLeader and the interval do when they have read the key.
Looked(t, tab) ==
    IF MayWrite(t) THEN [tab EXCEPT !.writes = TRUE, !.since = 0]
    ELSE [tab EXCEPT !.leads = FALSE, !.since = 0]

\* The effect runs when the page is opened, and when playing begins or ends.
tryBecomeLeader(t) ==
    /\ ~tabs[t].writes
    /\ \/ ~tabs[t].open /\ tabs' = [tabs EXCEPT ![t] = Looked(t, [Closed EXCEPT !.open = TRUE])]
       \/ tabs[t].open /\ tabs' = [tabs EXCEPT ![t] = Looked(t, [tabs[t] EXCEPT !.plays = ~tabs[t].plays])]
    /\ Toggled
    /\ UNCHANGED leaderKey

\* The interval looks while the tab plays; its write renews the name.
Looks(t) ==
    /\ tabs[t].plays /\ tabs[t].since = CheckEvery /\ ~tabs[t].writes
    /\ tabs' = [tabs EXCEPT ![t] = Looked(t, @)]
    /\ UNCHANGED <<leaderKey, together, unled, toggles>>

\* Every other tab that is open is told.
Told(t) == [u \in Tabs |-> IF u # t /\ tabs[u].open THEN [tabs[u] EXCEPT !.told = TRUE] ELSE tabs[u]]

writeLeader(t) ==
    /\ tabs[t].writes
    /\ leaderKey' = [tab |-> t, age |-> 0]
    /\ tabs' = [Told(t) EXCEPT ![t].writes = FALSE, ![t].leads = TRUE]
    /\ UNCHANGED <<together, unled, toggles>>

LeadsAfter(t) == leaderKey = NoKey \/ leaderKey.tab = t

onStorage(t) ==
    /\ tabs[t].told
    /\ tabs' = [tabs EXCEPT ![t].told = FALSE, ![t].leads = LeadsAfter(t)]
    /\ UNCHANGED <<leaderKey, together, unled, toggles>>

\* onBeforeUnload takes the tab's own name away; a tab that crashes leaves it.
ClosesTab(t) ==
    /\ tabs[t].open
    /\ \/ MayFail /\ leaderKey' = leaderKey /\ tabs' = [tabs EXCEPT ![t] = Closed]
       \/ /\ leaderKey' = IF leaderKey.tab = t THEN NoKey ELSE leaderKey
          /\ tabs' = [(IF leaderKey.tab = t THEN Told(t) ELSE tabs) EXCEPT ![t] = Closed]
    /\ Toggled

\* The countdown of a tab that counts; at its end it claims and begins again.
CountsDown(t) ==
    LET aged == [tabs[t] EXCEPT !.since = IF tabs[t].plays THEN @ + 1 ELSE @] IN
    IF Counts(t) THEN [aged EXCEPT !.count = IF @ > 1 THEN @ - 1 ELSE FullCount,
                                   !.claims = @ \/ tabs[t].count = 1]
    ELSE aged

\* A second passes: no look is overdue, and no write.
TickOfTabs ==
    /\ \A t \in Tabs : ~tabs[t].writes /\ (tabs[t].plays => tabs[t].since < CheckEvery)
    /\ tabs' = [t \in Tabs |-> CountsDown(t)]
    /\ leaderKey' = IF leaderKey = NoKey \/ leaderKey.age > LeaderTtl THEN leaderKey
                    ELSE [leaderKey EXCEPT !.age = @ + 1]
    /\ together' = IF Cardinality({t \in Tabs : Counts(t)}) > 1 THEN together + 1 ELSE 0
    /\ unled' = IF (\E t \in Tabs : tabs[t].plays) /\ ~\E t \in Tabs : Counts(t)
                 THEN unled + 1 ELSE 0
    /\ UNCHANGED toggles

\* claimReward's answer: a countdown from the start, or an end.
ClaimIsAnswered(t) ==
    /\ tabs[t].claims
    /\ \/ /\ tabs' = [tabs EXCEPT ![t].claims = FALSE, ![t].count = FullCount]
          /\ UNCHANGED unled
       \/ /\ MayFail
          /\ tabs' = [tabs EXCEPT ![t] = Looked(t, [@ EXCEPT !.claims = FALSE, !.plays = FALSE])]
          /\ unled' = 0
    /\ UNCHANGED <<leaderKey, together, toggles>>

WatchTabsNext ==
    \/ TickOfTabs
    \/ \E t \in Tabs :
          \/ tryBecomeLeader(t) \/ Looks(t) \/ writeLeader(t) \/ onStorage(t) \/ ClosesTab(t)
          \/ ClaimIsAnswered(t)

WatchTabsSpec == WatchTabsInit /\ [][WatchTabsNext]_tabsVars
-----------------------------------------------------------------------------
(* Properties.                                                              *)

\* Type correctness of the key and the tabs.
WatchTabsTypeOK ==
    /\ leaderKey \in [tab : Tabs \cup {None}, age : 0 .. LeaderTtl + 1]
    /\ tabs \in [Tabs -> [open : BOOLEAN, plays : BOOLEAN, leads : BOOLEAN, since : 0 .. CheckEvery,
                          count : 1 .. FullCount, told : BOOLEAN, writes : BOOLEAN, claims : BOOLEAN]]
    /\ together \in Nat /\ toggles \in 0 .. MaxToggles

\* Two tabs count side by side for no longer than two looks of theirs, however
\* late the browser tells them: at the first both may find no name, and write
\* theirs; at the second one finds the other's.
OneTabCounts == together <= 2 * CheckEvery

\* While tabs play one of them counts, or will: a name whose tab has crashed,
\* been closed or paused is taken over when it is out of date, one look later.
SomeTabCounts == unled <= LeaderTtl + 1 + CheckEvery

-----------------------------------------------------------------------------
(***************************************************************************)
(* The page of automatic GPU mining: a list of the GPUs that were waiting     *)
(* when it was last fetched, a countdown at whose end the first of them is     *)
(* claimed, a button on each, and a switch.  A claim that fails switches the   *)
(* system off.                                                               *)
(***************************************************************************)

CONSTANTS
    LastGpu,    \* bound: GPUs released
    Countdown,  \* ticks between two automatic claims
    MaxSwitches \* bound: the switch, and claims by hand

ASSUME GpuPageAssumption == /\ {LastGpu, MaxSwitches} \subseteq Nat
                            /\ Countdown \in Nat \ {0}

VARIABLES
    gpuNext,    \* the server: the GPU that waits, or will
    gpuWaits,   \* whether it does
    listed,     \* availableGpus: none, or the one that waited; GpuLoading at first
    running,    \* isRunning
    countdown,
    gcalls,     \* progress of each request: [op, gpu]
    switched,   \* the switch, as the user left it
    switches,
    gluck       \* "beside": a claim was sent beside another request; "lost": a list
                \* did not come; "limit": the server had another reason to refuse

gpuPageVars == <<gpuNext, gpuWaits, listed, running, countdown, gcalls, switched, switches, gluck>>

NoneListed == 0
GpuLoading == -1
GCall(op, gpu) == [op |-> op, gpu |-> gpu]
GIdle == GCall("idle", NoneListed)
GSets(c, q) == gcalls' = [gcalls EXCEPT ![c] = q]
GpuPending == \E c \in Calls : gcalls[c] # GIdle

GpuPageInit ==
    /\ gpuNext = 1 /\ gpuWaits = FALSE
    /\ listed = GpuLoading
    /\ running = FALSE /\ switched = FALSE
    /\ countdown = Countdown
    /\ gcalls = [c \in Calls |-> GIdle]
    /\ switches = 0
    /\ gluck = {}

\* The list is fetched: here when the page opens, and after a claim and at the
\* end of a countdown with nothing to claim.  Asking may release a GPU.
GpuFetches(c) ==
    /\ listed = GpuLoading /\ ~GpuPending
    /\ GSets(c, GCall("fetch", NoneListed))
    /\ UNCHANGED <<gpuNext, gpuWaits, listed, running, countdown, switched, switches, gluck>>

ListsGpus(c) ==
    /\ gcalls[c].op = "fetch"
    /\ \E waits \in {gpuWaits, gpuNext <= LastGpu} :
          /\ gpuWaits' = waits
          /\ GSets(c, GCall("list", IF waits THEN gpuNext ELSE NoneListed))
    /\ UNCHANGED <<gpuNext, listed, running, countdown, switched, switches, gluck>>

ListArrives(c) ==
    /\ gcalls[c].op = "list"
    /\ listed' = gcalls[c].gpu
    /\ GSets(c, GIdle)
    /\ UNCHANGED <<gpuNext, gpuWaits, running, countdown, switched, switches, gluck>>

\* A list that does not come leaves the old one, or an empty page.
ListIsLost(c) ==
    /\ MayFail
    /\ gcalls[c].op \in {"fetch", "list"}
    /\ listed' = IF listed = GpuLoading THEN NoneListed ELSE listed
    /\ gluck' = gluck \cup {"lost"}
    /\ GSets(c, GIdle)
    /\ UNCHANGED <<gpuNext, gpuWaits, running, countdown, switched, switches>>

handleToggleSystem ==
    /\ listed # GpuLoading
    /\ switches < MaxSwitches
    /\ running' = ~running
    /\ switched' = ~running
    /\ switches' = switches + 1
    /\ UNCHANGED <<gpuNext, gpuWaits, listed, countdown, gcalls, gluck>>

Claims(c, g) ==
    /\ gcalls[c] = GIdle
    /\ GSets(c, GCall("claim", g))
    /\ gluck' = gluck \cup IF GpuPending THEN {"beside"} ELSE {}

\* The button of a GPU, which no claim disables.
ClaimsByHand(c) ==
    /\ listed \in Nat \ {NoneListed} /\ switches < MaxSwitches
    /\ Claims(c, listed)
    /\ switches' = switches + 1
    /\ UNCHANGED <<gpuNext, gpuWaits, listed, running, countdown, switched>>

CountdownTicks ==
    /\ running /\ countdown > 1
    /\ countdown' = countdown - 1
    /\ UNCHANGED <<gpuNext, gpuWaits, listed, running, gcalls, switched, switches, gluck>>

\* processAutoClaim, at the end of a countdown: the first GPU of the list is
\* claimed, or the list is fetched.
processAutoClaim(c) ==
    /\ running /\ countdown = 1
    /\ countdown' = Countdown
    /\ IF listed # NoneListed THEN Claims(c, listed)
       ELSE gcalls[c] = GIdle /\ GSets(c, GCall("fetch", NoneListed)) /\ UNCHANGED gluck
    /\ UNCHANGED <<gpuNext, gpuWaits, listed, running, switched, switches>>

\* The server gives the GPU that waits, and refuses any other; or any, for a
\* limit or for time that was not watched: see WatchTime.
GivesGpu(c) ==
    LET g == gcalls[c].gpu IN
    /\ gcalls[c].op = "claim"
    /\ \/ /\ gpuWaits /\ g = gpuNext
          /\ GSets(c, GCall("claimed", g)) /\ gpuNext' = gpuNext + 1 /\ gpuWaits' = FALSE
          /\ UNCHANGED gluck
       \/ /\ MayFail \/ ~(gpuWaits /\ g = gpuNext)
          /\ GSets(c, GCall("refused", g)) /\ UNCHANGED <<gpuNext, gpuWaits>>
          /\ gluck' = gluck \cup IF gpuWaits /\ g = gpuNext THEN {"limit"} ELSE {}
    /\ UNCHANGED <<listed, running, countdown, switched, switches>>

\* Slip: a claim that succeeded leaves the list as it is.
EndsHere(c) == GIdle

FetchesNext(c) == GCall("fetch", NoneListed)

\* claimGPU's answer: the list is fetched again, or the system is off.  A
\* countdown begins anew when an automatic claim has succeeded.
ClaimSucceeds(c) ==
    /\ gcalls[c].op = "claimed"
    /\ countdown' \in {countdown, Countdown}
    /\ GSets(c, FetchesNext(c))
    /\ UNCHANGED <<gpuNext, gpuWaits, listed, running, switched, switches, gluck>>

ClaimRefused(c) ==
    /\ gcalls[c].op = "refused"
    /\ running' = FALSE
    /\ GSets(c, GIdle)
    /\ UNCHANGED <<gpuNext, gpuWaits, listed, countdown, switched, switches, gluck>>

\* A heartbeat tells the page nothing: see WatchTime for what it earns.
SendsHeartbeat == UNCHANGED gpuPageVars

GpuPageNext ==
    \/ SendsHeartbeat
    \/ handleToggleSystem \/ CountdownTicks
    \/ \E c \in Calls :
          \/ GpuFetches(c) \/ ListsGpus(c) \/ ListArrives(c) \/ ListIsLost(c)
          \/ ClaimsByHand(c) \/ processAutoClaim(c) \/ GivesGpu(c)
          \/ ClaimSucceeds(c) \/ ClaimRefused(c)

GpuPageSpec == GpuPageInit /\ [][GpuPageNext]_gpuPageVars
-----------------------------------------------------------------------------
(* Properties.                                                              *)

\* Type correctness of the page and what it is told.
GpuPageTypeOK ==
    /\ gpuNext \in 1 .. LastGpu + 1 /\ gpuWaits \in BOOLEAN /\ listed \in GpuLoading .. LastGpu
    /\ running \in BOOLEAN /\ switched \in BOOLEAN /\ countdown \in 1 .. Countdown
    /\ gcalls \in [Calls -> [op : {"idle", "fetch", "list", "claim", "claimed", "refused"},
                             gpu : 0 .. LastGpu]]
    /\ gluck \subseteq {"beside", "lost", "limit"}

\* The system runs until the user switches it off: no claim is made of a GPU
\* that was claimed already, unless it was sent beside another request, or a
\* list was lost, and the server had no limit to refuse it by.
RunsAsSwitched == gluck = {} => running = switched
=============================================================================
