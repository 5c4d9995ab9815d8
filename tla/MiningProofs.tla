---------------------------- MODULE MiningProofs ----------------------------
(***************************************************************************)
(* Theorems about Mining, for every number of users, socket handlers,       *)
(* blocks and restarts, every split of a block's reward, and with           *)
(* statements that fail and acknowledgements that get lost at any point.    *)
(***************************************************************************)
EXTENDS Mining, TLAPS

LEMMA NextCases ==
    ASSUME Next
    PROVE  \/ bootstrapEngine \/ BootFails \/ EmptyBlock \/ Crash
           \/ \E split \in Splits : distributeRewards(split)
           \/ \E n \in Numbers :
                \/ \E u \in Users : WriteReward(n, u)
                \/ CommitBlock(n) \/ BlockDone(n) \/ RollBackBlock(n)
           \/ \E u \in Users : BoostEnds(u)
           \/ \E s \in Sockets :
                \/ \E u \in Users : applyBoost(s, u) \/ upgradeRig(s, u) \/ LoadProfile(s, u)
                \/ Enter(s) \/ LoadFails(s) \/ FindsCovered(s)
                \/ FindsUncovered(s) \/ Charge(s) \/ PurchaseFails(s) \/ ChargeReplyLost(s)
           \/ \E v \in Savers :
                \/ \E u \in Users : SaverReads(v, u)
                \/ SaverAligns(v) \/ SaverFails(v)
           \/ \E u \in Users, a \in Moves : Move(u, a)
  BY DEF Next, BlockStep, SocketStep, SaverStep

\* What the type of sock says of a handler that waits.
LEMMA SockFields ==
    ASSUME TypeOK, NEW s \in Sockets, sock[s].pc # "idle"
    PROVE  /\ sock[s].user \in Users
           /\ sock[s].cost \in Nat
           /\ sock[s].seen \in Int
           /\ sock[s].pc \in {"read", "charge", "enter"}
           /\ sock[s].pc # "enter" => sock[s].kind \in {"boost", "rig"} /\ sock[s].seen = 0
  BY DEF TypeOK, Socks, NoSock, Sock

LEMMA JobFields ==
    ASSUME TypeOK, NEW n \in Numbers
    PROVE  /\ job[n].reward \in [Users -> Nat]
           /\ job[n].todo \in SUBSET Users
           /\ job[n].due \in [Users -> Nat]
           /\ job[n].snap \in [Users -> Int]
           /\ job[n].pc \in {"none", "write", "sync"}
           /\ NoJob \in Jobs
  BY DEF TypeOK, Jobs, NoJob, Job, Nothing

\* What a saver that is at work carries.
LEMMA SaverFields ==
    ASSUME TypeOK, NEW v \in Savers, saver[v].user # None
    PROVE  saver[v].user \in Users /\ saver[v].fresh \in Int
  BY MiningAssumption DEF TypeOK, SaverStates, NoSaver, Saver

\* Every price is a natural number.
LEMMA PricesAreNat ==
    ASSUME TypeOK
    PROVE  /\ BoostCost \in Nat
           /\ \A u \in Users : CostOfRig(u) \in Nat
<1>1. ASSUME NEW u \in Users PROVE CostOfRig(u) \in Nat
  <2>1. rigs[u] - 1 \in Nat /\ RigCost \in Nat /\ RigStep \in Nat
    BY MiningAssumption DEF TypeOK
  <2>2. \A a, b \in Nat : a * b \in Nat
    OBVIOUS
  <2> QED
    BY <2>1, <2>2 DEF CostOfRig
<1> QED
  BY <1>1, MiningAssumption

\* A rolled back purchase keeps the types.
LEMMA RollBackTypes ==
    ASSUME TypeOK, NEW s \in Sockets, sock[s].pc \in {"read", "charge"}, RollBack(s)
    PROVE  /\ mem' \in [Users -> Int]
           /\ rigs' \in [Users -> Nat \ {0}]
           /\ boosted' \subseteq Users
           /\ sock' \in [Sockets -> Socks]
  BY SockFields DEF TypeOK, RollBack, Socks

-----------------------------------------------------------------------------
LEMMA TypeStep ==
    ASSUME TypeOK, [Next]_vars
    PROVE  TypeOK'
<1> USE MiningAssumption
<1> USE DEF ledger, blocks, engine, clock, limits
<1>1. CASE UNCHANGED vars
  BY <1>1 DEF TypeOK, vars
<1>2. CASE bootstrapEngine
  BY <1>2 DEF TypeOK, bootstrapEngine
<1>3. CASE BootFails
  BY <1>3 DEF TypeOK, BootFails
<1>4. CASE EmptyBlock
  BY <1>4 DEF TypeOK, EmptyBlock, Numbers
<1>5. CASE Crash
  <2>1. Nothing \in [Users -> Nat] /\ Nothing \in [Users -> Int]
    BY DEF Nothing
  <2>2. NoJob \in Jobs /\ NoSock \in Socks /\ NoSaver \in SaverStates
    BY <2>1 DEF NoJob, Jobs, Job, Socks, SaverStates
  <2> QED
    BY <1>5, <2>1, <2>2 DEF TypeOK, Crash
<1>6. ASSUME NEW split \in Splits, distributeRewards(split) PROVE TypeOK'
  <2>1. split \in [Users -> Nat] /\ mem \in [Users -> Int] /\ Nothing \in [Users -> Nat]
    BY DEF TypeOK, Nothing
  <2>2. Job("write", split, {u \in Users : split[u] > 0}, Nothing, mem) \in Jobs
    BY <2>1 DEF Jobs, Job
  <2>3. mem' \in [Users -> Int]
    BY <1>6, <2>1 DEF distributeRewards
  <2>4. blockNumber' \in 1 .. MaxBlocks + 1
    BY <1>6 DEF distributeRewards, Numbers, TypeOK
  <2> QED
    BY <1>6, <2>2, <2>3, <2>4 DEF TypeOK, distributeRewards
<1>7. ASSUME NEW n \in Numbers, NEW u \in Users, WriteReward(n, u) PROVE TypeOK'
  <2> DEFINE due == [v \in Users |-> job[n].due[v] + RewardTo(v, u, job[n].reward[u])
                                       + CommissionTo(v, u, job[n].reward[u])]
  <2>1. job[n].reward[u] \in Nat
    BY JobFields
  <2>2. ASSUME NEW v \in Users
        PROVE  RewardTo(v, u, job[n].reward[u]) \in Nat /\ CommissionTo(v, u, job[n].reward[u]) \in Nat
    BY <2>1 DEF RewardTo, CommissionTo
  <2>3. due \in [Users -> Nat]
    BY <2>2, JobFields
  <2>4. job' = [job EXCEPT ![n] = Job("write", job[n].reward, job[n].todo \ {u}, due, job[n].snap)]
    BY <1>7 DEF WriteReward
  <2> HIDE DEF due
  <2>5. Job("write", job[n].reward, job[n].todo \ {u}, due, job[n].snap) \in Jobs
    BY <2>3, JobFields DEF Jobs, Job
  <2> QED
    BY <1>7, <2>4, <2>5 DEF TypeOK, WriteReward
<1>8. ASSUME NEW n \in Numbers, CommitBlock(n) PROVE TypeOK'
  <2>1. Nothing \in [Users -> Nat]
    BY DEF Nothing
  <2>2. Job("sync", job[n].reward, {}, Nothing, job[n].snap) \in Jobs
    BY <2>1, JobFields DEF Jobs, Job
  <2>3. job' \in [Numbers -> Jobs]
    BY <1>8, <2>2 DEF TypeOK, CommitBlock
  <2>4. db' \in [Users -> Int] /\ mined' \in [Users -> Nat]
    BY <1>8, JobFields DEF TypeOK, CommitBlock
  <2>5. lastBlock' \in 0 .. MaxBlocks /\ distributed' \subseteq Numbers
    BY <1>8 DEF TypeOK, CommitBlock, Numbers
  <2> QED
    BY <1>8, <2>3, <2>4, <2>5 DEF TypeOK, CommitBlock
<1>9. ASSUME NEW n \in Numbers, BlockDone(n) PROVE TypeOK'
  BY <1>9, JobFields DEF TypeOK, BlockDone
<1>10. ASSUME NEW n \in Numbers, RollBackBlock(n) PROVE TypeOK'
  <2>1. mem' \in [Users -> Int]
    BY <1>10, JobFields DEF TypeOK, RollBackBlock
  <2> QED
    BY <1>10, <2>1, JobFields DEF TypeOK, RollBackBlock
<1>11. ASSUME NEW u \in Users, BoostEnds(u) PROVE TypeOK'
  BY <1>11 DEF TypeOK, BoostEnds
<1>12. ASSUME NEW s \in Sockets, NEW u \in Users, applyBoost(s, u) PROVE TypeOK'
  <2>1. Sock("read", "boost", u, BoostCost, 0) \in Socks
    BY DEF Socks, Sock
  <2> QED
    BY <1>12, <2>1 DEF TypeOK, applyBoost
<1>13. ASSUME NEW s \in Sockets, NEW u \in Users, upgradeRig(s, u) PROVE TypeOK'
  <2>1. CostOfRig(u) \in Nat
    BY PricesAreNat
  <2>2. Sock("read", "rig", u, CostOfRig(u), 0) \in Socks
    BY <2>1 DEF Socks, Sock
  <2>3. mem' \in [Users -> Int] /\ rigs' \in [Users -> Nat \ {0}]
    BY <1>13, <2>1 DEF TypeOK, upgradeRig
  <2> QED
    BY <1>13, <2>2, <2>3 DEF TypeOK, upgradeRig
<1>14. ASSUME NEW s \in Sockets, NEW u \in Users, LoadProfile(s, u) PROVE TypeOK'
  <2>1. Sock("enter", "join", u, 0, IF u \in members THEN 0 ELSE db[u]) \in Socks
    BY DEF TypeOK, Socks, Sock
  <2> QED
    BY <1>14, <2>1 DEF TypeOK, LoadProfile
<1>15. ASSUME NEW s \in Sockets, Enter(s) PROVE TypeOK'
  <2>1. sock[s].user \in Users /\ sock[s].seen \in Int /\ NoSock \in Socks
    BY <1>15, SockFields DEF Enter, Socks
  <2>2. mem' \in [Users -> Int] /\ rigs' \in [Users -> Nat \ {0}] /\ members' \subseteq Users
    <3>1. CASE sock[s].user \in members
      BY <1>15, <2>1, <3>1 DEF TypeOK, Enter, RigsLoaded
    <3>2. CASE sock[s].user \notin members
      BY <1>15, <2>1, <3>2 DEF TypeOK, Enter
    <3> QED
      BY <3>1, <3>2
  <2> QED
    BY <1>15, <2>1, <2>2 DEF TypeOK, Enter
<1>16. ASSUME NEW s \in Sockets, LoadFails(s) PROVE TypeOK'
  BY <1>16 DEF TypeOK, LoadFails, Socks
<1>17. ASSUME NEW s \in Sockets, FindsCovered(s) PROVE TypeOK'
  <2>1. Sock("charge", sock[s].kind, sock[s].user, sock[s].cost, 0) \in Socks
    BY <1>17, SockFields DEF FindsCovered, Socks, Sock
  <2> QED
    BY <1>17, <2>1 DEF TypeOK, FindsCovered
<1>18. ASSUME NEW s \in Sockets, Charge(s) PROVE TypeOK'
  <2>1. sock[s].user \in Users /\ sock[s].cost \in Nat
    BY <1>18, SockFields DEF Charge
  <2>2. db' \in [Users -> Int] /\ granted' \in [Users -> Nat]
    BY <1>18, <2>1 DEF TypeOK, Charge, Debit
  <2>3. rigsBought' \in [Users -> Nat]
    BY <1>18, <2>1 DEF TypeOK, Charge
  <2> QED
    BY <1>18, <2>2, <2>3 DEF TypeOK, Charge, Socks
<1>19. ASSUME NEW s \in Sockets, FindsUncovered(s) \/ PurchaseFails(s) PROVE TypeOK'
  <2>1. sock[s].pc \in {"read", "charge"} /\ RollBack(s) /\ UNCHANGED db
    BY <1>19 DEF FindsUncovered, PurchaseFails
  <2> QED
    BY <2>1, RollBackTypes DEF TypeOK, RollBack
<1>20. ASSUME NEW s \in Sockets, ChargeReplyLost(s) PROVE TypeOK'
  <2>1. sock[s].pc \in {"read", "charge"} /\ RollBack(s) /\ Debit(s)
    BY <1>20 DEF ChargeReplyLost
  <2>2. db' \in [Users -> Int]
    BY <2>1, SockFields DEF TypeOK, Debit
  <2> QED
    BY <2>1, <2>2, RollBackTypes DEF TypeOK, RollBack
<1>21. ASSUME NEW v \in Savers, NEW u \in Users, SaverReads(v, u) PROVE TypeOK'
  BY <1>21 DEF TypeOK, SaverReads, SaverStates, Saver
<1>22. ASSUME NEW v \in Savers, SaverAligns(v) PROVE TypeOK'
  BY <1>22, SaverFields DEF TypeOK, SaverAligns, SaverStates
<1>23. ASSUME NEW v \in Savers, SaverFails(v) PROVE TypeOK'
  BY <1>23 DEF TypeOK, SaverFails, SaverStates
<1>24. ASSUME NEW u \in Users, NEW a \in Moves, Move(u, a) PROVE TypeOK'
  BY <1>24 DEF TypeOK, Move
<1> QED
  BY NextCases, <1>1, <1>2, <1>3, <1>4, <1>5, <1>6, <1>7, <1>8, <1>9, <1>10, <1>11,
     <1>12, <1>13, <1>14, <1>15, <1>16, <1>17, <1>18, <1>19, <1>20, <1>21, <1>22,
     <1>23, <1>24

\* The variables of the mining engine, its handlers and the ledger keep their
\* types.
THEOREM TypeCorrect == Spec => []TypeOK
<1>1. Init => TypeOK
  <2>1. Nothing \in [Users -> Nat] /\ Nothing \in [Users -> Int]
    BY DEF Nothing
  <2>2. NoJob \in Jobs /\ NoSock \in Socks /\ NoSaver \in SaverStates
    BY <2>1 DEF NoJob, Jobs, Job, Socks, SaverStates
  <2> QED
    BY <2>1, <2>2, MiningAssumption DEF Init, TypeOK
<1>2. TypeOK /\ [Next]_vars => TypeOK'
  BY TypeStep
<1> QED
  BY <1>1, <1>2, PTL DEF Spec

-----------------------------------------------------------------------------
\* Only commits, debits and other components change the ledger.
LEMMA LedgerStep ==
    ASSUME TypeOK, LedgerAddsUp, [Next]_vars
    PROVE  LedgerAddsUp'
<1> USE DEF ledger, blocks, engine, clock, limits
<1>1. CASE UNCHANGED ledger
  BY <1>1 DEF LedgerAddsUp
<1>2. ASSUME NEW n \in Numbers, CommitBlock(n) PROVE LedgerAddsUp'
  <2> SUFFICES ASSUME NEW u \in Users
               PROVE db'[u] + granted'[u] <= InitialBalance + mined'[u] + elsewhere'[u]
    BY DEF LedgerAddsUp
  <2>1. /\ db'[u] = db[u] + job[n].due[u]
        /\ mined'[u] = mined[u] + job[n].due[u]
        /\ granted'[u] = granted[u] /\ elsewhere'[u] = elsewhere[u]
    BY <1>2 DEF CommitBlock
  <2>2. job[n].due[u] \in Nat /\ db[u] \in Int /\ mined[u] \in Nat
        /\ granted[u] \in Nat /\ elsewhere[u] \in Int
    BY JobFields DEF TypeOK
  <2>3. db[u] + granted[u] <= InitialBalance + mined[u] + elsewhere[u]
    BY DEF LedgerAddsUp
  <2> QED
    BY <2>1, <2>2, <2>3, MiningAssumption
<1>3. ASSUME NEW s \in Sockets, Charge(s) PROVE LedgerAddsUp'
  <2> SUFFICES ASSUME NEW u \in Users
               PROVE db'[u] + granted'[u] <= InitialBalance + mined'[u] + elsewhere'[u]
    BY DEF LedgerAddsUp
  <2>1. sock[s].user \in Users /\ sock[s].cost \in Nat
    BY <1>3, SockFields DEF Charge
  <2>2. db'[u] + granted'[u] = db[u] + granted[u]
    BY <1>3, <2>1 DEF Charge, Debit, TypeOK
  <2>3. mined'[u] = mined[u] /\ elsewhere'[u] = elsewhere[u]
    BY <1>3 DEF Charge
  <2> QED
    BY <2>2, <2>3 DEF LedgerAddsUp
<1>4. ASSUME NEW s \in Sockets, ChargeReplyLost(s) PROVE LedgerAddsUp'
  <2> SUFFICES ASSUME NEW u \in Users
               PROVE db'[u] + granted'[u] <= InitialBalance + mined'[u] + elsewhere'[u]
    BY DEF LedgerAddsUp
  <2>1. sock[s].user \in Users /\ sock[s].cost \in Nat
    BY <1>4, SockFields DEF ChargeReplyLost
  <2>2. db'[u] <= db[u] /\ db'[u] \in Int
    BY <1>4, <2>1 DEF ChargeReplyLost, Debit, TypeOK
  <2>3. mined' = mined /\ elsewhere' = elsewhere /\ granted' = granted
    BY <1>4 DEF ChargeReplyLost, RollBack
  <2> QED
    BY <2>2, <2>3, MiningAssumption DEF LedgerAddsUp, TypeOK
<1>5. ASSUME NEW u \in Users, NEW a \in Moves, Move(u, a) PROVE LedgerAddsUp'
  BY <1>5, MiningAssumption DEF LedgerAddsUp, Move, TypeOK
<1>6. ASSUME NEW s \in Sockets, FindsUncovered(s) \/ PurchaseFails(s) PROVE LedgerAddsUp'
  BY <1>6, <1>1 DEF FindsUncovered, PurchaseFails, RollBack
<1>7. CASE bootstrapEngine \/ BootFails \/ EmptyBlock \/ Crash
  BY <1>7, <1>1 DEF bootstrapEngine, BootFails, EmptyBlock, Crash
<1>8. ASSUME NEW split \in Splits, distributeRewards(split) PROVE LedgerAddsUp'
  BY <1>8, <1>1 DEF distributeRewards
<1>9. ASSUME NEW n \in Numbers,
             (\E u \in Users : WriteReward(n, u)) \/ BlockDone(n) \/ RollBackBlock(n)
      PROVE  LedgerAddsUp'
  BY <1>9, <1>1 DEF WriteReward, BlockDone, RollBackBlock
<1>10. ASSUME NEW u \in Users, BoostEnds(u) PROVE LedgerAddsUp'
  BY <1>10, <1>1 DEF BoostEnds
<1>11. ASSUME NEW s \in Sockets,
              \/ \E u \in Users : applyBoost(s, u) \/ upgradeRig(s, u) \/ LoadProfile(s, u)
              \/ Enter(s) \/ LoadFails(s) \/ FindsCovered(s)
       PROVE  LedgerAddsUp'
  BY <1>11, <1>1 DEF applyBoost, upgradeRig, LoadProfile, Enter, LoadFails, FindsCovered
<1>12. ASSUME NEW v \in Savers,
              (\E u \in Users : SaverReads(v, u)) \/ SaverAligns(v) \/ SaverFails(v)
       PROVE  LedgerAddsUp'
  BY <1>12, <1>1 DEF SaverReads, SaverAligns, SaverFails
<1>13. CASE UNCHANGED vars
  BY <1>13, <1>1 DEF vars
<1> QED
  BY NextCases, <1>2, <1>3, <1>4, <1>5, <1>6, <1>7, <1>8, <1>9, <1>10, <1>11, <1>12, <1>13

\* However many blocks are being written, rolled back or lost with the
\* process, and whatever the savers align memory to, no balance holds more
\* than the tables account for: a debit stays made and a reward is counted
\* by its block alone.
THEOREM BalancesAddUp == Spec => []LedgerAddsUp
<1>1. Init => TypeOK /\ LedgerAddsUp
  <2>1. Nothing \in [Users -> Nat] /\ Nothing \in [Users -> Int]
    BY DEF Nothing
  <2>2. NoJob \in Jobs /\ NoSock \in Socks /\ NoSaver \in SaverStates
    BY <2>1 DEF NoJob, Jobs, Job, Socks, SaverStates
  <2>3. ASSUME Init PROVE TypeOK
    BY <2>1, <2>2, <2>3, MiningAssumption DEF Init, TypeOK
  <2>4. ASSUME Init PROVE LedgerAddsUp
    <3> SUFFICES ASSUME NEW u \in Users
                 PROVE  db[u] + granted[u] <= InitialBalance + mined[u] + elsewhere[u]
      BY DEF LedgerAddsUp
    <3>1. db[u] = InitialBalance /\ mined[u] = 0 /\ elsewhere[u] = 0 /\ granted[u] = 0
      BY <2>4 DEF Init, Nothing
    <3>2. InitialBalance \in Int
      BY MiningAssumption
    <3>3. \A i \in Int : i + 0 <= i + 0 + 0
      OBVIOUS
    <3>4. InitialBalance + 0 <= InitialBalance + 0 + 0
      BY <3>2, <3>3
    <3> QED
      BY <3>1, <3>4, Zenon
  <2> QED
    BY <2>3, <2>4
<1>2. TypeOK /\ LedgerAddsUp /\ [Next]_vars => (TypeOK /\ LedgerAddsUp)'
  BY TypeStep, LedgerStep
<1> QED
  BY <1>1, <1>2, PTL DEF Spec

-----------------------------------------------------------------------------
(* Block numbers, when the start-up queries succeed.                        *)

\* A start-up finds no block in flight, and what the database has seen is
\* what it reads.
NumbersInv ==
    /\ \A n \in distributed : n <= lastBlock
    /\ phase = "boot" => \A n \in Numbers : ~Running(n)
    /\ phase = "up" => lastBlock < blockNumber
    /\ NextBlockIsNew

LEMMA NumbersStep ==
    ASSUME MayBootFail = FALSE, TypeOK, NumbersInv, [Next]_vars
    PROVE  NumbersInv'
<1> USE DEF ledger, blocks, engine, clock, limits
<1>0. \A n \in Numbers : n \in Int
  BY MiningAssumption DEF Numbers
<1>1. ASSUME UNCHANGED <<blocks, clock>>,
             \A n \in Numbers : Running(n)' => Running(n)
      PROVE  NumbersInv'
  BY <1>1 DEF NumbersInv, NextBlockIsNew
<1>2. CASE bootstrapEngine
  BY <1>2, <1>0 DEF bootstrapEngine, NumbersInv, NextBlockIsNew, TypeOK, Running
<1>3. CASE BootFails
  BY <1>3 DEF BootFails
<1>4. CASE EmptyBlock
  BY <1>4, <1>0 DEF EmptyBlock, NumbersInv, NextBlockIsNew, TypeOK, Running
<1>5. CASE Crash
  <2>1. distributed' = distributed /\ lastBlock' = lastBlock /\ phase' = "boot"
    BY <1>5 DEF Crash
  <2>2. \A n \in Numbers : ~Running(n)'
    BY <1>5 DEF Crash, Running, NoJob, Job
  <2> QED
    BY <2>1, <2>2 DEF NumbersInv, NextBlockIsNew
<1>6. ASSUME NEW split \in Splits, distributeRewards(split) PROVE NumbersInv'
  <2>1. /\ phase = "up" /\ phase' = "up" /\ blockNumber' = blockNumber + 1
        /\ distributed' = distributed /\ lastBlock' = lastBlock
        /\ blockNumber \in Int /\ lastBlock \in Int
    BY <1>6 DEF distributeRewards, TypeOK
  <2>2. \A n \in Numbers : Running(n)' => Running(n) \/ n = blockNumber
    BY <1>6 DEF distributeRewards, Running, TypeOK
  <2> QED
    BY <2>1, <2>2, <1>0 DEF NumbersInv, NextBlockIsNew
<1>7. ASSUME NEW n \in Numbers, NEW u \in Users, WriteReward(n, u) PROVE NumbersInv'
  <2>1. \A k \in Numbers : Running(k)' => Running(k)
    BY <1>7 DEF WriteReward, Running, Job, TypeOK
  <2> QED
    BY <1>7, <2>1, <1>1 DEF WriteReward
<1>8. ASSUME NEW n \in Numbers, CommitBlock(n) PROVE NumbersInv'
  <2>1. /\ Running(n) /\ distributed' = distributed \cup {n}
        /\ lastBlock' = (IF n > lastBlock THEN n ELSE lastBlock)
        /\ phase' = phase /\ blockNumber' = blockNumber
        /\ distributed \subseteq Numbers
        /\ blockNumber \in Int /\ lastBlock \in Int
    BY <1>8 DEF CommitBlock, Running, TypeOK
  <2>2. \A k \in Numbers : Running(k)' => Running(k)
    BY <1>8 DEF CommitBlock, Running, Job, TypeOK
  <2>3. phase = "up"
    BY <2>1 DEF NumbersInv, TypeOK
  <2>4. n < blockNumber /\ lastBlock < blockNumber
    BY <2>1, <2>3 DEF NumbersInv, NextBlockIsNew
  <2>5. \A k \in distributed' : k <= lastBlock' /\ k < blockNumber'
    BY <2>1, <2>3, <2>4, <1>0 DEF NumbersInv, NextBlockIsNew
  <2>6. lastBlock' < blockNumber'
    BY <2>1, <2>4
  <2> QED
    BY <2>1, <2>2, <2>3, <2>5, <2>6 DEF NumbersInv, NextBlockIsNew
<1>9. ASSUME NEW n \in Numbers, BlockDone(n) \/ RollBackBlock(n) PROVE NumbersInv'
  <2>1. \A k \in Numbers : Running(k)' => Running(k)
    BY <1>9 DEF BlockDone, RollBackBlock, Running, NoJob, Job, TypeOK
  <2> QED
    BY <1>9, <2>1, <1>1 DEF BlockDone, RollBackBlock
<1>10. CASE UNCHANGED <<blocks, clock, job>>
  BY <1>10, <1>1 DEF Running
<1>11. ASSUME NEW u \in Users, BoostEnds(u) PROVE NumbersInv'
  BY <1>11, <1>10 DEF BoostEnds
<1>12. ASSUME NEW s \in Sockets,
              \/ \E u \in Users : applyBoost(s, u) \/ upgradeRig(s, u) \/ LoadProfile(s, u)
              \/ Enter(s) \/ LoadFails(s) \/ FindsCovered(s) \/ Charge(s)
       PROVE  NumbersInv'
  BY <1>12, <1>10
     DEF applyBoost, upgradeRig, LoadProfile, Enter, LoadFails, FindsCovered, Charge
<1>13. ASSUME NEW s \in Sockets,
              FindsUncovered(s) \/ PurchaseFails(s) \/ ChargeReplyLost(s)
       PROVE  NumbersInv'
  BY <1>13, <1>10 DEF FindsUncovered, PurchaseFails, ChargeReplyLost, RollBack
<1>14. ASSUME NEW v \in Savers,
              (\E u \in Users : SaverReads(v, u)) \/ SaverAligns(v) \/ SaverFails(v)
       PROVE  NumbersInv'
  BY <1>14, <1>10 DEF SaverReads, SaverAligns, SaverFails
<1>15. ASSUME NEW u \in Users, NEW a \in Moves, Move(u, a) PROVE NumbersInv'
  BY <1>15, <1>10 DEF Move
<1>16. CASE UNCHANGED vars
  BY <1>16, <1>10 DEF vars
<1> QED
  BY NextCases, <1>2, <1>3, <1>4, <1>5, <1>6, <1>7, <1>8, <1>9, <1>11, <1>12, <1>13,
     <1>14, <1>15, <1>16

\* When the start-up queries succeed, the engine never hands out the number
\* of a block that is distributed or on its way, after any restarts, failed
\* and empty blocks, and blocks that are written at once.
THEOREM BlockNumbersAreNew ==
    ASSUME MayBootFail = FALSE
    PROVE  Spec => []NextBlockIsNew
<1>1. Init => NumbersInv
  BY DEF Init, NumbersInv, NextBlockIsNew, Running, NoJob, Job
<1>2. TypeOK /\ NumbersInv /\ [Next]_vars => NumbersInv'
  BY NumbersStep
<1>3. NumbersInv => NextBlockIsNew
  BY DEF NumbersInv
<1> QED
  BY <1>1, <1>2, <1>3, TypeCorrect, PTL DEF Spec

-----------------------------------------------------------------------------
(* Purchases, one at a time and with no other spender.                      *)

OneHandler == \A s, t \in Sockets : s = t

\* A handler past its check still finds the balance it saw.
CoveredInv ==
    /\ NoOverdraft
    /\ \A s \in Sockets : sock[s].pc = "charge" => Covered(s)

\* Steps that debit nothing and let no handler past its check.
LEMMA CoveredKept ==
    ASSUME TypeOK, CoveredInv,
           db' \in [Users -> Int], \A u \in Users : db'[u] >= db[u],
           \A s \in Sockets :
               sock'[s].pc = "charge" => sock'[s] = sock[s] \/ db'[sock'[s].user] >= sock'[s].cost
    PROVE  CoveredInv'
<1>1. NoOverdraft'
  BY DEF CoveredInv, NoOverdraft, TypeOK
<1>2. ASSUME NEW s \in Sockets, sock'[s].pc = "charge" PROVE Covered(s)'
  <2>1. CASE sock'[s] = sock[s]
    <3>1. sock[s].user \in Users /\ sock[s].cost \in Int
      BY <1>2, <2>1, SockFields
    <3>2. db[sock[s].user] >= sock[s].cost
      BY <1>2, <2>1 DEF CoveredInv, Covered
    <3>3. db'[sock[s].user] >= db[sock[s].user]
      BY <3>1
    <3>4. db'[sock[s].user] \in Int /\ db[sock[s].user] \in Int
      BY <3>1 DEF TypeOK
    <3> QED
      BY <2>1, <3>1, <3>2, <3>3, <3>4 DEF Covered
  <2>2. CASE db'[sock'[s].user] >= sock'[s].cost
    BY <2>2 DEF Covered
  <2> QED
    BY <1>2, <2>1, <2>2
<1> QED
  BY <1>1, <1>2 DEF CoveredInv

LEMMA CoveredStep ==
    ASSUME OneHandler, Moves \subseteq Nat, TypeOK, CoveredInv, [Next]_vars
    PROVE  CoveredInv'
<1> USE DEF ledger, blocks, engine, clock, limits
<1>0. db \in [Users -> Int] /\ \A u \in Users : db[u] >= db[u]
  BY DEF TypeOK
<1>1. CASE UNCHANGED <<db, sock>>
  BY <1>1, <1>0, CoveredKept
<1>2. ASSUME NEW s \in Sockets, sock' = [sock EXCEPT ![s] = NoSock],
             \/ db' = db
             \/ sock[s].pc = "charge" /\ Debit(s)
      PROVE  CoveredInv'
  <2>1. \A t \in Sockets : sock'[t].pc # "charge"
    BY <1>2 DEF OneHandler, NoSock, Sock, TypeOK
  <2>2. NoOverdraft'
    <3>1. CASE db' = db
      BY <3>1 DEF CoveredInv, NoOverdraft
    <3>2. CASE sock[s].pc = "charge" /\ Debit(s)
      <4>1. sock[s].user \in Users /\ sock[s].cost \in Nat
        BY <3>2, SockFields
      <4>2. db[sock[s].user] >= sock[s].cost
        BY <3>2 DEF CoveredInv, Covered
      <4> QED
        BY <3>2, <4>1, <4>2 DEF Debit, CoveredInv, NoOverdraft, TypeOK
    <3> QED
      BY <1>2, <3>1, <3>2
  <2> QED
    BY <2>1, <2>2 DEF CoveredInv
<1>3. ASSUME NEW n \in Numbers, CommitBlock(n) PROVE CoveredInv'
  <2>1. db' \in [Users -> Int] /\ \A u \in Users : db'[u] >= db[u]
    BY <1>3, JobFields DEF CommitBlock, TypeOK
  <2>2. sock' = sock
    BY <1>3 DEF CommitBlock
  <2> QED
    BY <2>1, <2>2, CoveredKept
<1>4. ASSUME NEW u \in Users, NEW a \in Moves, Move(u, a) PROVE CoveredInv'
  <2>1. db' \in [Users -> Int] /\ \A v \in Users : db'[v] >= db[v]
    BY <1>4 DEF Move, TypeOK
  <2>2. sock' = sock
    BY <1>4 DEF Move
  <2> QED
    BY <2>1, <2>2, CoveredKept
<1>5. ASSUME NEW s \in Sockets, FindsCovered(s) PROVE CoveredInv'
  <2>1. db' = db /\ \A t \in Sockets : t = s
    BY <1>5 DEF FindsCovered, OneHandler
  <2>2. sock'[s].user = sock[s].user /\ sock'[s].cost = sock[s].cost
    BY <1>5 DEF FindsCovered, Sock, TypeOK
  <2>3. db'[sock'[s].user] >= sock'[s].cost
    BY <1>5, <2>1, <2>2 DEF FindsCovered, Covered
  <2> QED
    BY <1>0, <2>1, <2>3, CoveredKept
<1>6. ASSUME NEW s \in Sockets,
             Enter(s) \/ LoadFails(s) \/ FindsUncovered(s) \/ PurchaseFails(s)
      PROVE  CoveredInv'
  BY <1>6, <1>2 DEF Enter, LoadFails, FindsUncovered, PurchaseFails, RollBack
<1>7. ASSUME NEW s \in Sockets, Charge(s) \/ ChargeReplyLost(s) PROVE CoveredInv'
  BY <1>7, <1>2 DEF Charge, ChargeReplyLost, RollBack
<1>8. ASSUME NEW s \in Sockets, NEW u \in Users,
             applyBoost(s, u) \/ upgradeRig(s, u) \/ LoadProfile(s, u)
      PROVE  CoveredInv'
  <2>1. db' = db /\ \A t \in Sockets : t = s
    BY <1>8 DEF applyBoost, upgradeRig, LoadProfile, OneHandler
  <2>2. sock'[s].pc # "charge"
    BY <1>8 DEF applyBoost, upgradeRig, LoadProfile, Sock, TypeOK
  <2> QED
    BY <1>0, <2>1, <2>2, CoveredKept
<1>9. CASE Crash
  <2>1. db' = db /\ \A t \in Sockets : sock'[t].pc # "charge"
    BY <1>9 DEF Crash, NoSock, Sock
  <2> QED
    BY <1>0, <2>1, CoveredKept
<1>10. CASE bootstrapEngine \/ BootFails \/ EmptyBlock
  BY <1>10, <1>1 DEF bootstrapEngine, BootFails, EmptyBlock
<1>11. ASSUME NEW split \in Splits, distributeRewards(split) PROVE CoveredInv'
  BY <1>11, <1>1 DEF distributeRewards
<1>12. ASSUME NEW n \in Numbers,
              (\E u \in Users : WriteReward(n, u)) \/ BlockDone(n) \/ RollBackBlock(n)
       PROVE  CoveredInv'
  BY <1>12, <1>1 DEF WriteReward, BlockDone, RollBackBlock
<1>13. ASSUME NEW u \in Users, BoostEnds(u) PROVE CoveredInv'
  BY <1>13, <1>1 DEF BoostEnds
<1>14. ASSUME NEW v \in Savers,
              (\E u \in Users : SaverReads(v, u)) \/ SaverAligns(v) \/ SaverFails(v)
       PROVE  CoveredInv'
  BY <1>14, <1>1 DEF SaverReads, SaverAligns, SaverFails
<1>15. CASE UNCHANGED vars
  BY <1>15, <1>1 DEF vars
<1> QED
  BY NextCases, <1>3, <1>4, <1>5, <1>6, <1>7, <1>8, <1>9, <1>10, <1>11, <1>12, <1>13,
     <1>14, <1>15

\* With one purchase at a time and other components that only credit, boosts
\* and rigs never overdraw the balance, whatever memory says: blocks that are
\* rolled back, savers and restarts leave memory above the database.
THEOREM SerialPurchasesAreCovered ==
    ASSUME OneHandler, Moves \subseteq Nat
    PROVE  Spec => []NoOverdraft
<1>1. Init => CoveredInv
  BY MiningAssumption DEF Init, CoveredInv, NoOverdraft, NoSock, Sock
<1>2. TypeOK /\ CoveredInv /\ [Next]_vars => CoveredInv'
  BY CoveredStep
<1>3. CoveredInv => NoOverdraft
  BY DEF CoveredInv
<1> QED
  BY <1>1, <1>2, <1>3, TypeCorrect, PTL DEF Spec
=============================================================================
