-------------------------------- MODULE Boost --------------------------------
(***************************************************************************)
(* A player's boost.  The engine has one miner for all of a player's         *)
(* sockets, which a purchase boosts at once; the account is charged           *)
(* afterwards, and the boost taken back when that fails.  What the balances  *)
(* come to is Mining, and the flag `connected` is StateFeed.                  *)
(***************************************************************************)
EXTENDS Requests

CONSTANTS
    Duration,   \* moments a boost lasts
    LastNow,    \* bound: the clock
    MaxBoosts   \* bound: purchases, and switches of the miner

ASSUME BoostAssumption == {Duration, LastNow, MaxBoosts} \subseteq Nat /\ Duration > 0

VARIABLES
    moment,        \* the clock
    miner,      \* the engine's: [boosted, ends, active]
    bcall,      \* progress of each purchase: [pc, until]
    begun,      \* when boosts were begun
    boostedAt,  \* when a tick counted boosted work
    paidUntil,  \* the latest end of a boost that the account was charged for
    boosts,
    bluck       \* "undone": a purchase that failed ended another's boost; "reply": a
                \* charge was made and its answer lost; "restart"

boostVars == <<moment, miner, bcall, begun, boostedAt, paidUntil, boosts, bluck>>

Miner(boosted, ends, active) == [boosted |-> boosted, ends |-> ends, active |-> active]
NewMiner == Miner(FALSE, 0, TRUE)
BCall(pc, until) == [pc |-> pc, until |-> until]
BIdle == BCall("idle", 0)

BoostInit ==
    /\ moment = 0
    /\ miner = NewMiner
    /\ bcall = [c \in Calls |-> BIdle]
    /\ begun = {} /\ boostedAt = {}
    /\ paidUntil = 0
    /\ boosts = 0
    /\ bluck = {}

ClockMoves ==
    /\ moment < LastNow
    /\ moment' = moment + 1
    /\ UNCHANGED <<miner, bcall, begun, boostedAt, paidUntil, boosts, bluck>>

\* Slip: a boost ends a moment after its time.
LateIsOver(m) == m.ends > 0 /\ moment > m.ends

IsOver(m) == m.ends > 0 /\ moment >= m.ends

\* tick, early or late: a boost that is over is taken off before the work of
\* the miner is counted.
tick ==
    LET m == IF IsOver(miner) THEN Miner(FALSE, 0, miner.active) ELSE miner IN
    /\ miner' = m
    /\ boostedAt' = boostedAt \cup IF m.active /\ m.boosted THEN {moment} ELSE {}
    /\ UNCHANGED <<moment, bcall, begun, paidUntil, boosts, bluck>>

OneMore == boosts < MaxBoosts /\ boosts' = boosts + 1

setActive ==
    /\ OneMore
    /\ \E active \in BOOLEAN : miner' = Miner(miner.boosted, miner.ends, active)
    /\ UNCHANGED <<moment, bcall, begun, boostedAt, paidUntil, bluck>>

\* applyBoost, when the engine's balance suffices: the boost begins, whatever
\* one was running.
applyBoost(c) ==
    /\ bcall[c] = BIdle
    /\ OneMore
    /\ miner' = Miner(TRUE, moment + Duration, miner.active)
    /\ begun' = begun \cup {moment}
    /\ bcall' = [bcall EXCEPT ![c] = BCall("reads", moment + Duration)]
    /\ UNCHANGED <<moment, boostedAt, paidUntil, bluck>>

FindsMoney(c) ==
    /\ bcall[c].pc = "reads"
    /\ bcall' = [bcall EXCEPT ![c] = BCall("charges", @.until)]
    /\ UNCHANGED <<moment, miner, begun, boostedAt, paidUntil, boosts, bluck>>

\* The boost's own purchase has already been undone by another's failure.
WasUndone(c) == miner.ends < bcall[c].until /\ moment < bcall[c].until

ChargeCommits(c) ==
    /\ bcall[c].pc = "charges"
    /\ paidUntil' = IF bcall[c].until > paidUntil THEN bcall[c].until ELSE paidUntil
    /\ bcall' = [bcall EXCEPT ![c] = BIdle]
    /\ bluck' = bluck \cup IF WasUndone(c) THEN {"undone"} ELSE {}
    /\ UNCHANGED <<moment, miner, begun, boostedAt, boosts>>

\* Slip: what was bought is taken for granted.
KeepsBoost(m) == m

rollbackBoost(m) == Miner(FALSE, 0, m.active)

\* Too little on the account, or a query that fails; the charge may have been
\* made nevertheless.
ChargeFails(c) ==
    LET charged == bcall[c].pc = "charges" /\ MayFail IN
    /\ bcall[c].pc = "reads" \/ charged
    /\ miner' = rollbackBoost(miner)
    /\ \E lost \in IF charged THEN BOOLEAN ELSE {FALSE} :
          /\ paidUntil' = IF lost /\ bcall[c].until > paidUntil THEN bcall[c].until ELSE paidUntil
          /\ bluck' = bluck \cup (IF lost THEN {"reply"} ELSE {})
                            \cup (IF moment < paidUntil /\ miner.boosted THEN {"undone"} ELSE {})
    /\ bcall' = [bcall EXCEPT ![c] = BIdle]
    /\ UNCHANGED <<moment, begun, boostedAt, boosts>>

\* The server restarts: the engine's miners are made anew.
EngineRestarts ==
    /\ MayFail /\ miner # NewMiner
    /\ miner' = NewMiner
    /\ bcall' = [c \in Calls |-> BIdle]
    /\ bluck' = bluck \cup {"restart"}
    /\ UNCHANGED <<moment, begun, boostedAt, paidUntil, boosts>>

BoostNext ==
    \/ ClockMoves \/ tick \/ setActive \/ EngineRestarts
    \/ \E c \in Calls : applyBoost(c) \/ FindsMoney(c) \/ ChargeCommits(c) \/ ChargeFails(c)

BoostSpec == BoostInit /\ [][BoostNext]_boostVars

-----------------------------------------------------------------------------
(* Properties.                                                              *)

\* Type correctness of the miner, the purchases and the clock.
BoostTypeOK ==
    /\ moment \in 0 .. LastNow
    /\ miner \in [boosted : BOOLEAN, ends : 0 .. LastNow + Duration, active : BOOLEAN]
    /\ bcall \in [Calls -> [pc : {"idle", "reads", "charges"}, until : 0 .. LastNow + Duration]]
    /\ begun \subseteq 0 .. LastNow /\ boostedAt \subseteq 0 .. LastNow
    /\ paidUntil \in 0 .. LastNow + Duration
    /\ boosts \in 0 .. MaxBoosts /\ bluck \subseteq {"undone", "reply", "restart"}

\* Work is boosted only within Duration of a purchase, however late the ticks.
WorkIsBoostedInTime == \A t \in boostedAt : \E b \in begun : b <= t /\ t < b + Duration

\* A boost that was paid runs until its end, unless a purchase that failed
\* ended it (rollbackBoost ends whatever boost is running), its charge was
\* taken for a failure, or the server restarted.
PaidBoostRuns ==
    bluck = {} /\ moment < paidUntil => miner.boosted /\ miner.ends >= paidUntil

\* A boost that nobody was charged for is being charged for.
BoostIsPaidOrDue ==
    miner.boosted => \/ miner.ends <= paidUntil
                     \/ \E c \in Calls : bcall[c].pc # "idle" /\ bcall[c].until = miner.ends
=============================================================================
