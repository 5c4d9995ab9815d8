------------------------------- MODULE Mining -------------------------------
(***************************************************************************)
(* The mining engine's copy of the balances and the database's: blocks that *)
(* credit every miner in memory at once and reach the database by a         *)
(* transaction of their own (MiningEngine.distributeRewards,                *)
(* persistBlockRewards), socket handlers that charge both (boost and rig),  *)
(* the periodic persistMinerProfile that sets the copy to the database's    *)
(* value, and the restart that rebuilds the engine.                         *)
(*                                                                          *)
(* syncOnlineMinerPolBalance, called after every database change, reaches   *)
(* no engine: the instance of miningRuntime.js is never set.  It is left    *)
(* out.  Between two awaits a handler runs alone.                           *)
(***************************************************************************)
EXTENDS Integers

CONSTANTS
    Users,
    Referrer,       \* Referrer[u]: users.referred_by
    Splits,         \* ways rewardBase divides among the miners of a block
    Sockets,        \* socket handlers and profile loads in flight at once
    Savers,         \* calls of persistMinerProfile in flight at once
    InitialBalance,
    BoostCost, RigCost, RigStep,
    Moves,          \* amounts other components add to or take from a balance
    MayFail,        \* whether statements throw and acknowledgements get lost
    MayBootFail,    \* whether the engine's start-up queries throw
    MaxBlocks,      \* bound: block numbers
    MaxRigs,        \* bound: rigs in memory
    MaxMoves,       \* bound: changes by other components
    MaxCrashes,     \* bound: restarts of the node process
    None

ASSUME MiningAssumption ==
    /\ None \notin Users
    /\ Referrer \in [Users -> Users \cup {None}]
    /\ Splits \subseteq [Users -> Nat]
    /\ InitialBalance \in Nat
    /\ {BoostCost, RigCost, RigStep} \subseteq Nat
    /\ Moves \subseteq Int
    /\ MayFail \in BOOLEAN
    /\ MayBootFail \in BOOLEAN
    /\ {MaxBlocks, MaxRigs, MaxMoves, MaxCrashes} \subseteq Nat

VARIABLES
    db,          \* users.pol_balance
    mined,       \* sum of mining_rewards_log and referral_earnings per user
    elsewhere,   \* net of what the other components' tables record
    granted,     \* cost of the boosts and rigs answered "ok"
    distributed, \* block numbers in block_distributions, where they are unique
    lastBlock,   \* the largest of them
    members,     \* users with a miner in the engine
    mem,         \* miner.balance
    rigs,        \* miner.rigs
    boosted,     \* users with boostEndsAt ahead
    blockNumber, \* engine.blockNumber
    phase,       \* "boot": bootstrapEngine is still running
    job,         \* persistBlockRewards, by block number
    sock,        \* progress of each socket handler or profile load
    saver,       \* progress of each persistMinerProfile
    rigsBought,  \* rigs answered "ok" since the miner is in the engine
    moves, crashes

ledger == <<db, mined, elsewhere, granted>>
blocks == <<distributed, lastBlock>>
engine == <<members, mem, rigs, boosted>>
clock == <<blockNumber, phase>>
limits == <<moves, crashes>>
vars == <<ledger, blocks, engine, clock, job, sock, saver, rigsBought, limits>>

Numbers == 1 .. MaxBlocks
Nothing == [u \in Users |-> 0]

\* reward: minerRewards; todo: its users still to be written; due: what the
\* open transaction has added so far; snap: balanceSnapshot.
Job(pc, reward, todo, due, snap) ==
    [pc |-> pc, reward |-> reward, todo |-> todo, due |-> due, snap |-> snap]

NoJob == Job("none", Nothing, {}, Nothing, Nothing)

Jobs ==
    [pc: {"none", "write", "sync"}, reward: [Users -> Nat], todo: SUBSET Users,
     due: [Users -> Nat], snap: [Users -> Int]]

\* cost: polSpent of a purchase; seen: balance of a loaded profile.
Sock(pc, kind, u, cost, seen) ==
    [pc |-> pc, kind |-> kind, user |-> u, cost |-> cost, seen |-> seen]

NoSock == Sock("idle", "none", None, 0, 0)

Socks ==
    {NoSock}
        \cup [pc: {"read", "charge"}, kind: {"boost", "rig"}, user: Users,
              cost: Nat, seen: {0}]
        \cup [pc: {"enter"}, kind: {"join"}, user: Users, cost: {0}, seen: Int]

Saver(u, fresh) == [user |-> u, fresh |-> fresh]
NoSaver == Saver(None, 0)
SaverStates == {NoSaver} \cup [user: Users, fresh: Int]

Running(n) == job[n].pc # "none"

Init ==
    /\ db = [u \in Users |-> InitialBalance]
    /\ mined = Nothing
    /\ elsewhere = Nothing
    /\ granted = Nothing
    /\ distributed = {}
    /\ lastBlock = 0
    /\ members = {}
    /\ mem = Nothing
    /\ rigs = [u \in Users |-> 1]
    /\ boosted = {}
    /\ blockNumber = 1
    /\ phase = "boot"
    /\ job = [n \in Numbers |-> NoJob]
    /\ sock = [s \in Sockets |-> NoSock]
    /\ saver = [v \in Savers |-> NoSaver]
    /\ rigsBought = Nothing
    /\ moves = 0
    /\ crashes = 0

-----------------------------------------------------------------------------
(* Start-up (server.js) and profiles.                                       *)

\* Slip: the number of the last block is not restored.
BootForgetsNumber ==
    /\ phase = "boot"
    /\ phase' = "up"
    /\ UNCHANGED <<ledger, blocks, engine, blockNumber, job, sock, saver, rigsBought, limits>>

bootstrapEngine ==
    /\ phase = "boot"
    /\ blockNumber' = lastBlock + 1
    /\ phase' = "up"
    /\ UNCHANGED <<ledger, blocks, engine, job, sock, saver, rigsBought, limits>>

\* The catch logs the error and the engine runs from block 1.
BootFails ==
    /\ MayBootFail
    /\ phase = "boot"
    /\ phase' = "up"
    /\ UNCHANGED <<ledger, blocks, engine, blockNumber, job, sock, saver, rigsBought, limits>>

\* miner:join, syncEngineMiners and reloadMinerProfile load a profile and
\* then put it into the engine; its balance is for new miners only.
LoadProfile(s, u) ==
    /\ sock[s].pc = "idle"
    /\ sock' = [sock EXCEPT ![s] =
                  Sock("enter", "join", u, 0, IF u \in members THEN 0 ELSE db[u])]
    /\ UNCHANGED <<ledger, blocks, engine, clock, job, saver, rigsBought, limits>>

\* Slip: the number of rigs as counted, also when it is none.
RigsCounted == 0

\* profile.rigs || 1: the racks of these users are empty.
RigsLoaded == 1

\* createOrGetMiner: a new miner, or the rigs of a known one set to what the
\* database counts.
Enter(s) ==
    LET u == sock[s].user IN
    /\ sock[s].pc = "enter"
    /\ IF u \in members
       THEN /\ rigs' = [rigs EXCEPT ![u] = RigsLoaded]
            /\ UNCHANGED <<members, mem>>
       ELSE /\ members' = members \cup {u}
            /\ mem' = [mem EXCEPT ![u] = sock[s].seen]
            /\ UNCHANGED rigs
    /\ sock' = [sock EXCEPT ![s] = NoSock]
    /\ UNCHANGED <<ledger, blocks, boosted, clock, job, saver, rigsBought, limits>>

LoadFails(s) ==
    /\ MayFail
    /\ sock[s].pc = "enter"
    /\ sock' = [sock EXCEPT ![s] = NoSock]
    /\ UNCHANGED <<ledger, blocks, engine, clock, job, saver, rigsBought, limits>>

-----------------------------------------------------------------------------
(* Blocks (MiningEngine.tick).  A block lasts ten minutes: by the first one  *)
(* bootstrapEngine has ended.  Hash rates and ticks show only as the split.  *)

\* tick: a boost is over.
BoostEnds(u) ==
    /\ u \in boosted
    /\ boosted' = boosted \ {u}
    /\ UNCHANGED <<ledger, blocks, members, mem, rigs, clock, job, sock, saver, rigsBought, limits>>

\* No work was done: the number is used up, nothing is written.
EmptyBlock ==
    /\ phase = "up"
    /\ blockNumber \in Numbers
    /\ blockNumber' = blockNumber + 1
    /\ UNCHANGED <<ledger, blocks, engine, phase, job, sock, saver, rigsBought, limits>>

distributeRewards(split) ==
    /\ phase = "up"
    /\ blockNumber \in Numbers
    /\ {u \in Users : split[u] > 0} # {}
    /\ {u \in Users : split[u] > 0} \subseteq members
    /\ mem' = [u \in Users |-> mem[u] + split[u]]
    /\ job' = [job EXCEPT ![blockNumber] =
                 Job("write", split, {u \in Users : split[u] > 0}, Nothing, mem)]
    /\ blockNumber' = blockNumber + 1
    /\ UNCHANGED <<ledger, blocks, members, rigs, boosted, phase, sock, saver, rigsBought, limits>>

\* persistBlockRewards: one miner of the block inside the open transaction,
\* with the referrer's one percent.
CommissionTo(v, u, r) == IF Referrer[u] = v THEN r \div 100 ELSE 0
RewardTo(v, u, r) == IF u = v THEN r ELSE 0

WriteReward(n, u) ==
    LET j == job[n] IN
    /\ j.pc = "write"
    /\ u \in j.todo
    /\ job' = [job EXCEPT ![n] =
                 Job("write", j.reward, j.todo \ {u},
                     [v \in Users |-> j.due[v] + RewardTo(v, u, j.reward[u])
                                               + CommissionTo(v, u, j.reward[u])],
                     j.snap)]
    /\ UNCHANGED <<ledger, blocks, engine, clock, sock, saver, rigsBought, limits>>

\* Slip: the balance is set to what the engine had after the block
\* (balanceAfter), not incremented.
CommitBalanceAfter(n) ==
    LET j == job[n] IN
    /\ j.pc = "write"
    /\ j.todo = {}
    /\ n \notin distributed
    /\ db' = [u \in Users |-> IF j.reward[u] > 0 THEN j.snap[u] + j.reward[u] ELSE db[u]]
    /\ mined' = [u \in Users |-> mined[u] + j.due[u]]
    /\ distributed' = distributed \cup {n}
    /\ lastBlock' = IF n > lastBlock THEN n ELSE lastBlock
    /\ job' = [job EXCEPT ![n] = Job("sync", j.reward, {}, Nothing, j.snap)]
    /\ UNCHANGED <<elsewhere, granted, engine, clock, sock, saver, rigsBought, limits>>

CommitBlock(n) ==
    LET j == job[n] IN
    /\ j.pc = "write"
    /\ j.todo = {}
    /\ n \notin distributed
    /\ db' = [u \in Users |-> db[u] + j.due[u]]
    /\ mined' = [u \in Users |-> mined[u] + j.due[u]]
    /\ distributed' = distributed \cup {n}
    /\ lastBlock' = IF n > lastBlock THEN n ELSE lastBlock
    /\ job' = [job EXCEPT ![n] = Job("sync", j.reward, {}, Nothing, j.snap)]
    /\ UNCHANGED <<elsewhere, granted, engine, clock, sock, saver, rigsBought, limits>>

\* The balances are read again after the commit, for nothing.
BlockDone(n) ==
    /\ job[n].pc = "sync"
    /\ job' = [job EXCEPT ![n] = NoJob]
    /\ UNCHANGED <<ledger, blocks, engine, clock, sock, saver, rigsBought, limits>>

\* A statement throws, the transaction outlives its five seconds, or the
\* block number is taken: the catch in distributeRewards rolls back.
RollBackBlock(n) ==
    LET j == job[n] IN
    /\ Running(n)
    /\ MayFail \/ (j.pc = "write" /\ j.todo = {} /\ n \in distributed)
    /\ mem' = [u \in Users |-> IF j.reward[u] > 0 THEN j.snap[u] ELSE mem[u]]
    /\ job' = [job EXCEPT ![n] = NoJob]
    /\ UNCHANGED <<ledger, blocks, members, rigs, boosted, clock, sock, saver, rigsBought, limits>>

-----------------------------------------------------------------------------
(* miner:boost and miner:upgrade-rig.                                       *)

applyBoost(s, u) ==
    /\ sock[s].pc = "idle"
    /\ u \in members
    /\ mem[u] >= BoostCost
    /\ mem' = [mem EXCEPT ![u] = @ - BoostCost]
    /\ boosted' = boosted \cup {u}
    /\ sock' = [sock EXCEPT ![s] = Sock("read", "boost", u, BoostCost, 0)]
    /\ UNCHANGED <<ledger, blocks, members, rigs, clock, job, saver, rigsBought, limits>>

CostOfRig(u) == RigCost + (rigs[u] - 1) * RigStep

upgradeRig(s, u) ==
    /\ sock[s].pc = "idle"
    /\ u \in members
    /\ rigs[u] < MaxRigs
    /\ mem[u] >= CostOfRig(u)
    /\ mem' = [mem EXCEPT ![u] = @ - CostOfRig(u)]
    /\ rigs' = [rigs EXCEPT ![u] = @ + 1]
    /\ sock' = [sock EXCEPT ![s] = Sock("read", "rig", u, CostOfRig(u), 0)]
    /\ UNCHANGED <<ledger, blocks, members, boosted, clock, job, saver, rigsBought, limits>>

\* rollbackBoost and rollbackRigUpgrade, and the answer ok: false.
RollBack(s) ==
    LET u == sock[s].user IN
    /\ mem' = [mem EXCEPT ![u] = @ + sock[s].cost]
    /\ IF sock[s].kind = "boost"
       THEN boosted' = boosted \ {u} /\ UNCHANGED rigs
       ELSE /\ rigs' = [rigs EXCEPT ![u] = IF @ > 1 THEN @ - 1 ELSE @]
            /\ UNCHANGED boosted
    /\ sock' = [sock EXCEPT ![s] = NoSock]
    /\ UNCHANGED <<blocks, members, mined, elsewhere, granted, clock, job, saver, rigsBought, limits>>

\* Slip: the database's balance is not looked at.
CoveredAlways(s) == TRUE

Covered(s) == db[sock[s].user] >= sock[s].cost

FindsCovered(s) ==
    /\ sock[s].pc = "read"
    /\ Covered(s)
    /\ sock' = [sock EXCEPT ![s] = Sock("charge", sock[s].kind, sock[s].user, sock[s].cost, 0)]
    /\ UNCHANGED <<ledger, blocks, engine, clock, job, saver, rigsBought, limits>>

FindsUncovered(s) ==
    /\ sock[s].pc = "read"
    /\ ~Covered(s)
    /\ RollBack(s)
    /\ UNCHANGED db

Debit(s) == db' = [db EXCEPT ![sock[s].user] = @ - sock[s].cost]

Charge(s) ==
    LET u == sock[s].user IN
    /\ sock[s].pc = "charge"
    /\ Debit(s)
    /\ granted' = [granted EXCEPT ![u] = @ + sock[s].cost]
    /\ rigsBought' = IF sock[s].kind = "rig"
                     THEN [rigsBought EXCEPT ![u] = @ + 1]
                     ELSE rigsBought
    /\ sock' = [sock EXCEPT ![s] = NoSock]
    /\ UNCHANGED <<mined, elsewhere, blocks, engine, clock, job, saver, limits>>

PurchaseFails(s) ==
    /\ MayFail
    /\ sock[s].pc \in {"read", "charge"}
    /\ RollBack(s)
    /\ UNCHANGED db

\* The debit commits, its acknowledgement is lost.
ChargeReplyLost(s) ==
    /\ MayFail
    /\ sock[s].pc = "charge"
    /\ Debit(s)
    /\ RollBack(s)

-----------------------------------------------------------------------------
(* persistMinerProfile: of its two reads the second decides; then memory is *)
(* set to it, whichever of the two is larger.                               *)

SaverReads(v, u) ==
    /\ saver[v] = NoSaver
    /\ u \in members
    /\ saver' = [saver EXCEPT ![v] = Saver(u, db[u])]
    /\ UNCHANGED <<ledger, blocks, engine, clock, job, sock, rigsBought, limits>>

\* Slip: memory above the database is written to it.
SaverPromotes(v) ==
    LET u == saver[v].user IN
    /\ u # None
    /\ IF mem[u] > saver[v].fresh
       THEN db' = [db EXCEPT ![u] = mem[u]] /\ UNCHANGED mem
       ELSE mem' = [mem EXCEPT ![u] = saver[v].fresh] /\ UNCHANGED db
    /\ saver' = [saver EXCEPT ![v] = NoSaver]
    /\ UNCHANGED <<mined, elsewhere, granted, blocks, members, rigs, boosted, clock, job, sock, rigsBought, limits>>

\* Slip: only credits are taken over.
SaverPullsUp(v) ==
    LET u == saver[v].user IN
    /\ u # None
    /\ mem' = [mem EXCEPT ![u] = IF @ < saver[v].fresh THEN saver[v].fresh ELSE @]
    /\ saver' = [saver EXCEPT ![v] = NoSaver]
    /\ UNCHANGED <<ledger, blocks, members, rigs, boosted, clock, job, sock, rigsBought, limits>>

SaverAligns(v) ==
    LET u == saver[v].user IN
    /\ u # None
    /\ mem' = [mem EXCEPT ![u] = saver[v].fresh]
    /\ saver' = [saver EXCEPT ![v] = NoSaver]
    /\ UNCHANGED <<ledger, blocks, members, rigs, boosted, clock, job, sock, rigsBought, limits>>

SaverFails(v) ==
    /\ MayFail
    /\ saver[v] # NoSaver
    /\ saver' = [saver EXCEPT ![v] = NoSaver]
    /\ UNCHANGED <<ledger, blocks, engine, clock, job, sock, rigsBought, limits>>

-----------------------------------------------------------------------------
\* Deposits, withdrawals, purchases and swaps: the other components.
Move(u, a) ==
    /\ moves < MaxMoves
    /\ moves' = moves + 1
    /\ db[u] + a >= 0
    /\ db' = [db EXCEPT ![u] = @ + a]
    /\ elsewhere' = [elsewhere EXCEPT ![u] = @ + a]
    /\ UNCHANGED <<mined, granted, blocks, engine, clock, job, sock, saver, rigsBought, crashes>>

Crash ==
    /\ crashes < MaxCrashes
    /\ crashes' = crashes + 1
    /\ members' = {}
    /\ mem' = Nothing
    /\ rigs' = [u \in Users |-> 1]
    /\ boosted' = {}
    /\ blockNumber' = 1
    /\ phase' = "boot"
    /\ job' = [n \in Numbers |-> NoJob]
    /\ sock' = [s \in Sockets |-> NoSock]
    /\ saver' = [v \in Savers |-> NoSaver]
    /\ rigsBought' = Nothing
    /\ UNCHANGED <<ledger, blocks, moves>>

-----------------------------------------------------------------------------
SocketStep(s) ==
    \/ \E u \in Users : applyBoost(s, u) \/ upgradeRig(s, u)
    \/ \E u \in Users : LoadProfile(s, u)
    \/ Enter(s)
    \/ LoadFails(s)
    \/ FindsCovered(s)
    \/ FindsUncovered(s)
    \/ Charge(s)
    \/ PurchaseFails(s)
    \/ ChargeReplyLost(s)

BlockStep(n) ==
    \/ \E u \in Users : WriteReward(n, u)
    \/ CommitBlock(n)
    \/ BlockDone(n)
    \/ RollBackBlock(n)

SaverStep(v) ==
    \/ \E u \in Users : SaverReads(v, u)
    \/ SaverAligns(v)
    \/ SaverFails(v)

Next ==
    \/ bootstrapEngine
    \/ BootFails
    \/ EmptyBlock
    \/ \E split \in Splits : distributeRewards(split)
    \/ \E n \in Numbers : BlockStep(n)
    \/ \E u \in Users : BoostEnds(u)
    \/ \E s \in Sockets : SocketStep(s)
    \/ \E v \in Savers : SaverStep(v)
    \/ \E u \in Users, a \in Moves : Move(u, a)
    \/ Crash

Spec == Init /\ [][Next]_vars

\* The timer starts a persistMinerProfile for every miner every 15 seconds,
\* and not all of them fail.
Fairness ==
    \A u \in Users :
        /\ SF_vars(\E v \in Savers : SaverReads(v, u))
        /\ SF_vars(\E v \in Savers : saver[v].user = u /\ SaverAligns(v))

FairSpec == Spec /\ Fairness

-----------------------------------------------------------------------------
TypeOK ==
    /\ db \in [Users -> Int]
    /\ mined \in [Users -> Nat]
    /\ elsewhere \in [Users -> Int]
    /\ granted \in [Users -> Nat]
    /\ distributed \subseteq Numbers
    /\ lastBlock \in 0 .. MaxBlocks
    /\ members \subseteq Users
    /\ mem \in [Users -> Int]
    /\ rigs \in [Users -> Nat \ {0}]
    /\ boosted \subseteq Users
    /\ blockNumber \in 1 .. MaxBlocks + 1
    /\ phase \in {"boot", "up"}
    /\ job \in [Numbers -> Jobs]
    /\ sock \in [Sockets -> Socks]
    /\ saver \in [Savers -> SaverStates]
    /\ rigsBought \in [Users -> Nat]
    /\ moves \in 0 .. MaxMoves
    /\ crashes \in 0 .. MaxCrashes

\* The balance never holds more than the tables account for: whatever memory
\* says and whenever it is aligned, rolled back or rebuilt, a reward enters by
\* its block alone and a debit stays made ("Nunca promover pol_balance com
\* este valor").
LedgerAddsUp ==
    \A u \in Users :
        db[u] + granted[u] <= InitialBalance + mined[u] + elsewhere[u]

\* The next block's number is new to the database and to the blocks being
\* written, after any number of failed blocks and restarts, provided that the
\* start-up queries succeed: no block is refused for its number.
NextBlockIsNew ==
    phase = "up" =>
        \A n \in Numbers : n \in distributed \/ Running(n) => n < blockNumber

\* With one handler and no other spender at a time, a purchase never takes
\* more than the account has ("Saldo insuficiente na conta").
NoOverdraft == \A u \in Users : db[u] >= 0

\* "Rig #n comprado com sucesso.": a rig that was paid for stays.
PaidRigIsKept == \A u \in Users : rigs[u] > rigsBought[u]

\* Memory that differs from the database is aligned again and again, however
\* often blocks, failures and purchases set them apart.
MemoryIsAligned ==
    \A u \in Users : []<>(u \in members => mem[u] = db[u])
=============================================================================
