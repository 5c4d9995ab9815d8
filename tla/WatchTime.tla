------------------------------ MODULE WatchTime ------------------------------
(***************************************************************************)
(* Focused time of one user: heartbeats add seconds to the balance of an    *)
(* activity; YouTube claims turn them into a power, and Pulse GPUs, which   *)
(* are released one at a time, into a power and a machine.  Each handler    *)
(* reads what limits it and writes later, without repeating the checks.     *)
(* The two activities share no row: a behaviour is about one of them.       *)
(***************************************************************************)
EXTENDS Requests

CONSTANTS
    Cost,           \* heartbeats a claim of each type costs (4 and 30)
    PerWindow,      \* claims of each type allowed in a window (480 and 24)
    Window,         \* 24 hours, in minimal gaps between heartbeats
    ReleaseGap,     \* time between two releases of a GPU
    MaxGpus,        \* bound: GPUs released
    LastBeat        \* bound: the clock

Types == {"youtube", "auto-mining"}

ASSUME WatchTimeAssumption ==
    /\ Cost \in [Types -> Nat] /\ PerWindow \in [Types -> Nat]
    /\ {Window, ReleaseGap, MaxGpus, LastBeat} \subseteq Nat

VARIABLES
    activity,   \* the type the behaviour is about
    beat,       \* the clock
    lastBeat,   \* when the last heartbeat was
    seconds,    \* the balance, in heartbeats
    history,    \* rows of youtube_watch_history, by time of creation
    powers,     \* rows of youtube_watch_power, by time of the claim
    gpu,        \* auto_mining_gpu: [released, claimed] by id
    machines,   \* machines given for each GPU
    wcall,      \* progress of each request
    crowd       \* two requests were in flight together

watchVars == <<activity, beat, lastBeat, seconds, history, powers, gpu, machines, wcall, crowd>>

Beats == 0 .. LastBeat
Gpus == 1 .. MaxGpus
Unset == -1
Absent == LastBeat + 1

Gpu(released, claimed) == [released |-> released, claimed |-> claimed]
NoGpu == Gpu(Absent, Unset)

WCall(pc, now, id) == [pc |-> pc, now |-> now, id |-> id]
WIdle == WCall("idle", 0, 0)

WatchInit ==
    /\ activity \in Types
    /\ beat = 0 /\ lastBeat = Unset /\ seconds = 0
    /\ history = [t \in Beats |-> 0]
    /\ powers = [t \in Beats |-> 0]
    /\ gpu = [g \in Gpus |-> NoGpu]
    /\ machines = [g \in Gpus |-> 0]
    /\ wcall = [c \in Calls |-> WIdle]
    /\ crowd = FALSE

TimePasses ==
    /\ beat < LastBeat
    /\ beat' = beat + 1
    /\ UNCHANGED <<activity, lastBeat, seconds, history, powers, gpu, machines, wcall, crowd>>

\* Request c has passed its checks and goes on as q.
Passes(c, q) ==
    /\ wcall[c].pc = "idle"
    /\ wcall' = [wcall EXCEPT ![c] = q]
    /\ crowd' = (crowd \/ \E d \in Calls : wcall[d].pc # "idle")
    /\ UNCHANGED <<activity, beat, lastBeat, seconds, history, powers, gpu, machines>>

WatchEnds(c) ==
    /\ wcall' = [wcall EXCEPT ![c] = WIdle]
    /\ UNCHANGED <<activity, beat, crowd>>

\* Slip: the gap to the last heartbeat is not looked at.
NeverThrottled == TRUE

FarEnough == lastBeat # beat

processHeartbeat(c) == FarEnough /\ Passes(c, WCall("beat", beat, 0))

HeartbeatCommits(c) ==
    /\ wcall[c].pc = "beat"
    /\ lastBeat' = wcall[c].now
    /\ seconds' = seconds + 1
    /\ WatchEnds(c)
    /\ UNCHANGED <<history, powers, gpu, machines>>

-----------------------------------------------------------------------------
(* YouTube.                                                                 *)

Recent == {t \in Beats : t + Window > beat}
Counted(rows, T) == Cardinality(Numbered(rows, T))

\* Slips: a claim needs some time, not its cost; the limit is one too high.
HasSomeTime == seconds > 0
BelowLimitOnce(done) == done <= PerWindow[activity]

HasTime == seconds >= Cost[activity]
BelowLimit(done) == done < PerWindow[activity]

claimReward(c) ==
    /\ activity = "youtube"
    /\ HasTime
    /\ BelowLimit(Counted(history, Recent))
    /\ Passes(c, WCall("watch", beat, 0))

RewardCommits(c) ==
    LET q == wcall[c] IN
    /\ q.pc = "watch"
    /\ powers' = [powers EXCEPT ![q.now] = @ + 1]
    /\ history' = [history EXCEPT ![beat] = @ + 1]
    /\ seconds' = seconds - Cost[activity]
    /\ WatchEnds(c)
    /\ UNCHANGED <<lastBeat, gpu, machines>>

-----------------------------------------------------------------------------
(* Automatic GPU mining.                                                    *)

Released == {g \in Gpus : gpu[g] # NoGpu}
Waiting == {g \in Released : gpu[g].claimed = Unset}

\* Slip: a GPU is released beside one that waits.
GapIsOver == \A g \in Released : beat >= gpu[g].released + ReleaseGap

ReleaseDue == Waiting = {} /\ \A g \in Released : beat >= gpu[g].released + ReleaseGap

getAvailableGPUsHandler(c) ==
    /\ activity = "auto-mining"
    /\ ReleaseDue
    /\ HasTime
    /\ Passes(c, WCall("release", beat, 0))

GpuIsReleased(c) ==
    LET q == wcall[c] IN
    /\ q.pc = "release"
    /\ \E g \in Gpus \ Released :
          /\ \A h \in Gpus \ Released : g <= h
          /\ gpu' = [gpu EXCEPT ![g] = Gpu(q.now, Unset)]
    /\ WatchEnds(c)
    /\ UNCHANGED <<lastBeat, seconds, history, powers, machines>>

\* Slip: a claimed GPU is found again.
AnyReleased == Released

Unclaimed == Waiting

claimGPUHandler(c) ==
    \E g \in Unclaimed :
        /\ BelowLimit(Cardinality({h \in Released : gpu[h].claimed \in Recent}))
        /\ HasTime
        /\ Passes(c, WCall("claim", beat, g))

\* Slip: the claim is stored as the time of the next one.
ClaimCommitsLate(c) ==
    LET q == wcall[c] IN
    /\ q.pc = "claim"
    /\ gpu' = [gpu EXCEPT ![q.id].claimed = q.now + Window]
    /\ seconds' = seconds - Cost[activity]
    /\ machines' = [machines EXCEPT ![q.id] = @ + 1]
    /\ WatchEnds(c)
    /\ UNCHANGED <<lastBeat, history, powers>>

ClaimCommits(c) ==
    LET q == wcall[c] IN
    /\ q.pc = "claim"
    /\ gpu' = [gpu EXCEPT ![q.id].claimed = q.now]
    /\ seconds' = seconds - Cost[activity]
    /\ machines' = [machines EXCEPT ![q.id] = @ + 1]
    /\ WatchEnds(c)
    /\ UNCHANGED <<lastBeat, history, powers>>

\* A statement throws, or the bound on GPUs is reached.
WatchFails(c) ==
    /\ wcall[c].pc # "idle"
    /\ MayFail \/ (wcall[c].pc = "release" /\ Released = Gpus)
    /\ WatchEnds(c)
    /\ UNCHANGED <<lastBeat, seconds, history, powers, gpu, machines>>

\* The status and history lists change nothing.
getStats == UNCHANGED watchVars

WatchNext ==
    \/ TimePasses
    \/ \E c \in Calls :
          \/ processHeartbeat(c) \/ HeartbeatCommits(c)
          \/ claimReward(c) \/ RewardCommits(c)
          \/ getAvailableGPUsHandler(c) \/ GpuIsReleased(c)
          \/ claimGPUHandler(c) \/ ClaimCommits(c)
          \/ WatchFails(c)
    \/ getStats

WatchSpec == WatchInit /\ [][WatchNext]_watchVars

-----------------------------------------------------------------------------
(* Properties.                                                              *)

\* Requests that may have overlapped a given one.
Others == IF crowd THEN Cardinality(Calls) - 1 ELSE 0

Claims == Counted(powers, Beats) + Counted(machines, Gpus)

\* Type correctness of the balance, the rows and the requests.
WatchTypeOK ==
    /\ activity \in Types
    /\ beat \in Beats /\ crowd \in BOOLEAN
    /\ lastBeat \in Beats \cup {Unset} /\ seconds \in Int
    /\ history \in [Beats -> Nat] /\ powers \in [Beats -> Nat]
    /\ gpu \in [Gpus -> [released: Beats, claimed: Beats \cup {Unset}] \cup {NoGpu}]
    /\ machines \in [Gpus -> Nat]
    /\ wcall \in [Calls -> [pc: {"idle", "beat", "watch", "release", "claim"},
                            now: Beats, id: Gpus \cup {0}]]

\* Every claim was paid with focused time earned in real time: what is left
\* and what was spent are no more than the gaps that have passed, unless
\* requests overlapped.
TimeIsEarned == crowd \/ seconds + Cost[activity] * Claims <= beat + 1

\* A balance of focused time is overdrawn by the claims that overlapped at
\* most, and never by one alone.
TimeCoversClaims == seconds >= -(Cost[activity] * Others)

\* The YouTube powers alive at any time are within the daily limit, and one
\* more for each claim that may have overlapped.
LivePowersAreLimited == Counted(powers, Recent) <= PerWindow["youtube"] + Others

\* A claimed GPU gives exactly one machine and an unclaimed one none; a
\* request that overlapped may give it again.
MachinesMatchClaims ==
    \A g \in Gpus :
        /\ machines[g] <= 1 + Others
        /\ machines[g] > 0 <=> gpu[g].claimed # Unset

\* At most one GPU waits, and one more for each overlapping request.
GpusWaitInTurn == Cardinality(Waiting) <= 1 + Others
=============================================================================
