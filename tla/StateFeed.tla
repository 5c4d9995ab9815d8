------------------------------ MODULE StateFeed ------------------------------
(***************************************************************************)
(* The state that the engine sends to the pages of one player after every    *)
(* tick: to the player's room with the player's own rewards while the miner  *)
(* is `minerConnected`, and to everybody else with none.  A page joins the  *)
(* room when its socket connects; the disconnection of any socket of the    *)
(* player's is handled later, and takes the flag from all of them.          *)
(***************************************************************************)
EXTENDS Requests, Sequences

CONSTANTS
    Pages,          \* the player's open tabs
    HistoryLength,  \* blocks that the engine keeps (12)
    LastBlock,      \* bound: the highest block number
    MaxDrops        \* bound: sockets that break, and restarts of the server

ASSUME StateFeedAssumption ==
    /\ IsFiniteSet(Pages)
    /\ {HistoryLength, LastBlock} \subseteq Nat \ {0} /\ MaxDrops \in Nat

VARIABLES
    pageOf,           \* each tab: [pc, shown]
    minerConnected,      \* the miner's flag
    ghosts,         \* joined sockets that broke and whose end the server has yet to see
    leaving,        \* handlers of a disconnection that await persistMinerProfile
    orphans,        \* joins under way whose socket broke
    blockHistory, blockNumber,      \* the engine's
    booting,        \* progress of bootstrapEngine
    written,        \* blocks in the database
    writing,        \* blocks whose transaction is under way
    told,           \* whether a tick has sent the history that is kept now
    deaf,           \* joined pages that the last tick sent a visitor's state
    drops

feedVars == <<pageOf, minerConnected, ghosts, leaving, orphans, blockHistory, blockNumber,
              booting, written, writing, told, deaf, drops>>
socketVars == <<pageOf, minerConnected, ghosts, leaving, orphans, deaf>>
engineVars == <<blockHistory, blockNumber, booting, written, writing, told>>

\* mine: whether the block rewarded the player.
Block(n, mine) == [number |-> n, mine |-> mine]
Shows(pc, shown) == [pc |-> pc, shown |-> shown]
Rewards(history) == \E i \in DOMAIN history : history[i].mine

NewestOf(s, n) == SubSeq(s, 1, IF Len(s) < n THEN Len(s) ELSE n)

\* getPublicState, without a miner: everyone else's rewards are zero.
VisitorsView(history) == [i \in DOMAIN history |-> Block(history[i].number, FALSE)]

\* loadRecentBlocks: block_distributions, and the older mining_rewards_log for
\* what they lack.
Numbers(blocks) == {b.number : b \in blocks}
Highest(ns) == CHOOSE n \in ns : \A m \in ns : m <= n
loadRecentBlocks(blocks) ==
    LET down[ns \in SUBSET Numbers(blocks)] ==
            IF ns = {} THEN <<>>
            ELSE <<CHOOSE b \in blocks : b.number = Highest(ns)>> \o down[ns \ {Highest(ns)}]
    IN NewestOf(down[Numbers(blocks)], HistoryLength)

FeedInit ==
    /\ pageOf = [t \in Pages |-> Shows("off", <<>>)]
    /\ minerConnected = TRUE    \* as createOrGetMiner makes it
    /\ ghosts = 0 /\ leaving = 0 /\ orphans = 0
    /\ blockHistory = <<>> /\ blockNumber = 1
    /\ booting = "loads"
    /\ written = {Block(1, TRUE)} /\ writing = {}
    /\ told = FALSE /\ deaf = {}
    /\ drops = 0

-----------------------------------------------------------------------------
(* The engine.                                                              *)

\* bootstrapEngine runs beside the server's start; the first block is due ten
\* minutes later.
BootLoads ==
    /\ booting = "loads"
    /\ blockHistory' = loadRecentBlocks(written)
    /\ booting' = "numbers"
    /\ told' = FALSE
    /\ UNCHANGED <<socketVars, blockNumber, written, writing, drops>>

\* Slip: the number of the newest block is taken again.
LastNumber == Highest(Numbers(written))

NextNumber == Highest(Numbers(written) \cup {0}) + 1

BootNumbers ==
    /\ booting = "numbers"
    /\ blockNumber' = NextNumber
    /\ booting' = "done"
    /\ UNCHANGED <<socketVars, blockHistory, written, writing, told, drops>>

BootBreaks ==
    /\ booting \in {"loads", "numbers"}
    /\ booting' = IF booting = "loads" THEN "empty" ELSE "halfway"
    /\ UNCHANGED <<socketVars, blockHistory, blockNumber, written, writing, told, drops>>

Writable(b) == b.number \notin Numbers(written)

BlockCommits ==
    \E b \in writing :
        /\ Writable(b)
        /\ written' = written \cup {b} /\ writing' = writing \ {b}
        /\ UNCHANGED <<socketVars, blockHistory, blockNumber, booting, told, drops>>

\* Rolled back: the history keeps the block.
BlockFails ==
    \E b \in writing :
        /\ writing' = writing \ {b}
        /\ UNCHANGED <<socketVars, blockHistory, blockNumber, booting, written, told, drops>>

\* Slip: an update with no reward of the player's never replaces the history.
KeepsAny(shown, incoming) == ~Rewards(incoming)

\* The page keeps the history it shows when that has rewards of the player's
\* and the update has none.
shouldKeepCurrentHistory(shown, incoming) == ~Rewards(incoming) /\ Rewards(shown)

Merged(shown, incoming) ==
    IF shouldKeepCurrentHistory(shown, incoming) THEN shown ELSE incoming

\* tick, which distributes a block when it is due: an empty one, one that
\* rewards the player, or one that rewards others only.
TickSends ==
    \E history \in {blockHistory} \cup
        (IF booting \in {"loads", "numbers"} \/ blockNumber > LastBlock THEN {}
         ELSE {NewestOf(<<Block(blockNumber, mine)>> \o blockHistory, HistoryLength) : mine \in BOOLEAN}) :
      LET mined == history # blockHistory
          OwnState(t) == pageOf[t].pc = "in" /\ minerConnected
      IN
        /\ blockHistory' = history
        /\ blockNumber' = IF mined THEN blockNumber + 1 ELSE blockNumber
        /\ \E empty \in BOOLEAN :
              /\ empty => mined /\ ~history[1].mine
              /\ writing' = IF mined /\ ~empty THEN writing \cup {history[1]} ELSE writing
        /\ pageOf' = [t \in Pages |->
              IF pageOf[t].pc = "off" THEN pageOf[t]
              ELSE Shows(pageOf[t].pc, Merged(pageOf[t].shown,
                                           IF OwnState(t) THEN history ELSE VisitorsView(history)))]
        /\ deaf' = {t \in Pages : pageOf[t].pc = "in" /\ ~OwnState(t)}
        /\ told' = TRUE
        /\ UNCHANGED <<minerConnected, ghosts, leaving, orphans, booting, written, drops>>

-----------------------------------------------------------------------------
(* Sockets.                                                                 *)

SocketConnects(t) ==
    /\ pageOf[t].pc = "off"
    /\ pageOf' = [pageOf EXCEPT ![t].pc = "joins"]
    /\ UNCHANGED <<minerConnected, ghosts, leaving, orphans, deaf, engineVars, drops>>

\* miner:join is answered with the player's own state.
JoinEnds(t) ==
    /\ pageOf[t].pc = "joins"
    /\ minerConnected' = TRUE
    /\ pageOf' = [pageOf EXCEPT ![t] = Shows("in", blockHistory)]
    /\ deaf' = deaf \ {t}
    /\ UNCHANGED <<ghosts, leaving, orphans, engineVars, drops>>

\* No session, or a query that fails: the page stays a visitor.
JoinRefused(t) ==
    /\ pageOf[t].pc = "joins"
    /\ pageOf' = [pageOf EXCEPT ![t].pc = "visitor"]
    /\ UNCHANGED <<minerConnected, ghosts, leaving, orphans, deaf, engineVars, drops>>

\* The socket breaks, or the page is reloaded and forgets what it showed.
FeedBreaks(t) ==
    /\ pageOf[t].pc # "off" /\ drops < MaxDrops
    /\ drops' = drops + 1
    /\ \E shown \in {pageOf[t].shown, <<>>} : pageOf' = [pageOf EXCEPT ![t] = Shows("off", shown)]
    /\ ghosts' = IF pageOf[t].pc = "in" THEN ghosts + 1 ELSE ghosts
    /\ orphans' = IF pageOf[t].pc = "joins" THEN orphans + 1 ELSE orphans
    /\ deaf' = deaf \ {t}
    /\ UNCHANGED <<minerConnected, leaving, engineVars>>

\* A join whose socket has broken; the server may have seen that already.
OrphanJoins ==
    /\ orphans > 0
    /\ orphans' = orphans - 1
    /\ minerConnected' = TRUE
    /\ ghosts' \in {ghosts, ghosts + 1}
    /\ UNCHANGED <<pageOf, leaving, deaf, engineVars, drops>>

SeesDisconnect ==
    /\ ghosts > 0
    /\ ghosts' = ghosts - 1 /\ leaving' = leaving + 1
    /\ UNCHANGED <<pageOf, minerConnected, orphans, deaf, engineVars, drops>>

\* A query that fails leaves the flag as it is.
DisconnectEnds ==
    /\ leaving > 0
    /\ leaving' = leaving - 1
    /\ minerConnected' \in {FALSE, minerConnected}
    /\ UNCHANGED <<pageOf, ghosts, orphans, deaf, engineVars, drops>>

FeedRestarts ==
    /\ MayFail /\ drops < MaxDrops
    /\ drops' = drops + 1
    /\ pageOf' = [t \in Pages |-> Shows("off", pageOf[t].shown)]
    /\ minerConnected' = TRUE
    /\ ghosts' = 0 /\ leaving' = 0 /\ orphans' = 0
    /\ blockHistory' = <<>> /\ blockNumber' = 1
    /\ booting' = "loads"
    /\ writing' = {}
    /\ told' = FALSE /\ deaf' = {}
    /\ UNCHANGED written

FeedNext ==
    \/ BootLoads \/ BootNumbers \/ BootBreaks \/ BlockCommits \/ BlockFails \/ TickSends
    \/ OrphanJoins \/ SeesDisconnect \/ DisconnectEnds \/ FeedRestarts
    \/ \E t \in Pages : SocketConnects(t) \/ JoinEnds(t) \/ JoinRefused(t) \/ FeedBreaks(t)

FeedSpec == FeedInit /\ [][FeedNext]_feedVars

-----------------------------------------------------------------------------
(* Properties.                                                              *)

BlockSet == [number : 1 .. LastBlock, mine : BOOLEAN]

\* Type correctness of the pages, the engine's blocks and the sockets' counts.
FeedTypeOK ==
    /\ \A t \in Pages : pageOf[t].pc \in {"off", "joins", "in", "visitor"}
    /\ \A t \in Pages : pageOf[t].shown \in Seq(BlockSet) /\ Len(pageOf[t].shown) <= HistoryLength
    /\ minerConnected \in BOOLEAN /\ told \in BOOLEAN /\ deaf \subseteq Pages
    /\ {ghosts, leaving, orphans, drops} \subseteq 0 .. MaxDrops
    /\ blockHistory \in Seq(BlockSet) /\ Len(blockHistory) <= HistoryLength
    /\ blockNumber \in 1 .. LastBlock + 1
    /\ booting \in {"loads", "numbers", "done", "empty", "halfway"}
    /\ written \subseteq BlockSet /\ writing \subseteq BlockSet

\* What a joined page shows after a tick is the engine's history with the
\* player's own rewards.  It is not while the end of another socket has taken
\* the flag (the page is `deaf`), nor when the last of the player's rewards has
\* left the newest blocks: then the page shows the older ones on.
HistoryIsShown ==
    \A t \in Pages : pageOf[t].pc = "in" /\ told /\ t \notin deaf =>
        \/ pageOf[t].shown = blockHistory
        \/ Rewards(pageOf[t].shown) /\ ~Rewards(blockHistory)

\* The blocks of the engine are numbered on from those in the database, however
\* it was stopped, and kept newest first: unless the bootstrap broke off.
BlocksAreNumberedOn ==
    booting \notin {"empty", "halfway"} =>
        /\ \A i, j \in DOMAIN blockHistory : i < j => blockHistory[i].number > blockHistory[j].number
        /\ \A b \in writing : Writable(b)
=============================================================================
