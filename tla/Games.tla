-------------------------------- MODULE Games --------------------------------
(***************************************************************************)
(* The games of one user, who plays in several tabs, one socket each.  The  *)
(* server keeps a session per socket and the last finish per game, in       *)
(* memory; a start waits for the database between checking the cooldown and *)
(* making the session, and a win waits for it before the power is written.  *)
(* The boards are module Boards.                                *)
(***************************************************************************)
EXTENDS Requests

CONSTANTS
    Sockets,
    GameCooldown, MinPlay,
    LastMoment      \* bound: the clock

ASSUME GamesAssumption ==
    IsFiniteSet(Sockets) /\ {GameCooldown, MinPlay, LastMoment} \subseteq Nat

VARIABLES
    moment,
    online,     \* sockets that are connected
    session,    \* GAME_SESSIONS: None or [game, since]
    lastFinish, \* LAST_GAME_FINISH, by game
    gcall,      \* starts and wins that wait for the database
    wins,       \* powers given since the server started: [game][time of finish]
    crossed,    \* a game was finished while a start was waiting
    orphans     \* sockets that closed while a start was waiting

gamesVars == <<moment, online, session, lastFinish, gcall, wins, crossed, orphans>>

Slugs == {"crypto-memory", "crypto-match-3"}
Moments == 0 .. LastMoment
Unfinished == -1

Session(game, since) == [game |-> game, since |-> since]

GCall(pc, s, game, at) == [pc |-> pc, socket |-> s, game |-> game, at |-> at]
GIdle == GCall("idle", None, "none", 0)

GamesInit ==
    /\ moment = 0
    /\ online = Sockets
    /\ session = [s \in Sockets |-> None]
    /\ lastFinish = [g \in Slugs |-> Unfinished]
    /\ gcall = [c \in Calls |-> GIdle]
    /\ wins = [g \in Slugs |-> [t \in Moments |-> 0]]
    /\ crossed = FALSE /\ orphans = {}

MomentPasses ==
    /\ moment < LastMoment
    /\ moment' = moment + 1
    /\ UNCHANGED <<online, session, lastFinish, gcall, wins, crossed, orphans>>

-----------------------------------------------------------------------------
(* game:start.                                                              *)

\* Slip: nothing is looked up before a start.
CooledAlways(g) == TRUE

Cooled(g) == lastFinish[g] = Unfinished \/ moment >= lastFinish[g] + GameCooldown

gameStart(c, s, g) ==
    /\ s \in online /\ gcall[c].pc = "idle"
    /\ Cooled(g)
    /\ gcall' = [gcall EXCEPT ![c] = GCall("start", s, g, 0)]
    /\ UNCHANGED <<moment, online, session, lastFinish, wins, crossed, orphans>>

\* The session is made for the socket's id, whether it is connected or not.
GameStarted(c) ==
    /\ gcall[c].pc = "start"
    /\ session' = [session EXCEPT ![gcall[c].socket] = Session(gcall[c].game, moment)]
    /\ gcall' = [gcall EXCEPT ![c] = GIdle]
    /\ UNCHANGED <<moment, online, lastFinish, wins, crossed, orphans>>

StartFails(c) ==
    /\ MayFail
    /\ gcall[c].pc = "start"
    /\ gcall' = [gcall EXCEPT ![c] = GIdle]
    /\ UNCHANGED <<moment, online, session, lastFinish, wins, crossed, orphans>>

-----------------------------------------------------------------------------
(* Playing and finishing.                                                   *)

\* Slip: the finish is not recorded when the game is won.
FinishForgotten(s) == lastFinish

FinishRecorded(s) == [lastFinish EXCEPT ![session[s].game] = moment]

\* finishGame: a win waits for the check-in of the day and for its row,
\* unless it took less than the minimum.
finishGame(s, success) ==
    /\ session' = [session EXCEPT ![s] = None]
    /\ lastFinish' = FinishRecorded(s)
    /\ crossed' = (crossed \/ \E c \in Calls : gcall[c].pc = "start")
    /\ IF success /\ moment - session[s].since >= MinPlay
       THEN \E c \in Calls :
               /\ gcall[c].pc = "idle"
               /\ gcall' = [gcall EXCEPT ![c] = GCall("win", s, session[s].game, moment)]
       ELSE UNCHANGED gcall
    /\ UNCHANGED <<moment, online, wins, orphans>>

\* The row is written; when that fails the tab is told the same.
PowerGiven(c) ==
    LET q == gcall[c] IN
    /\ q.pc = "win"
    /\ wins' = [wins EXCEPT ![q.game][q.at] = @ + 1]
    /\ gcall' = [gcall EXCEPT ![c] = GIdle]
    /\ UNCHANGED <<moment, online, session, lastFinish, crossed, orphans>>

PowerFails(c) ==
    /\ MayFail
    /\ gcall[c].pc = "win"
    /\ gcall' = [gcall EXCEPT ![c] = GIdle]
    /\ UNCHANGED <<moment, online, session, lastFinish, wins, crossed, orphans>>

\* game:action opens the last pair, or brings the score to the goal.
actionWins(s) ==
    /\ s \in online /\ session[s] # None
    /\ finishGame(s, TRUE)

\* game:end, sent when the tab's timer has run down.
gameEnd(s) ==
    /\ s \in online /\ session[s] # None
    /\ finishGame(s, FALSE)

disconnect(s) ==
    /\ s \in online
    /\ online' = online \ {s}
    /\ session' = [session EXCEPT ![s] = None]
    /\ orphans' = IF \E c \in Calls : gcall[c].pc = "start" /\ gcall[c].socket = s
                  THEN orphans \cup {s} ELSE orphans
    /\ UNCHANGED <<moment, lastFinish, gcall, wins, crossed>>

\* A restart loses the maps, the timers and what was waiting; the tabs
\* connect again.
Restart ==
    /\ MayFail
    /\ online' = Sockets
    /\ session' = [s \in Sockets |-> None]
    /\ lastFinish' = [g \in Slugs |-> Unfinished]
    /\ gcall' = [c \in Calls |-> GIdle]
    /\ wins' = [g \in Slugs |-> [t \in Moments |-> 0]]
    /\ crossed' = FALSE /\ orphans' = {}
    /\ UNCHANGED moment

GamesNext ==
    \/ MomentPasses
    \/ \E s \in Sockets :
          \/ \E c \in Calls, g \in Slugs : gameStart(c, s, g)
          \/ actionWins(s) \/ gameEnd(s) \/ disconnect(s)
    \/ \E c \in Calls : GameStarted(c) \/ StartFails(c) \/ PowerGiven(c) \/ PowerFails(c)
    \/ Restart

GamesSpec == GamesInit /\ [][GamesNext]_gamesVars

-----------------------------------------------------------------------------
(* Properties.                                                              *)

\* Type correctness of the maps, the timers and the requests.
GamesTypeOK ==
    /\ moment \in Moments /\ online \subseteq Sockets /\ orphans \subseteq Sockets
    /\ session \in [Sockets -> [game: Slugs, since: Moments] \cup {None}]
    /\ lastFinish \in [Slugs -> Moments \cup {Unfinished}]
    /\ wins \in [Slugs -> [Moments -> Nat]] /\ crossed \in BOOLEAN
    /\ gcall \in [Calls -> [pc: {"idle", "start", "win"}, socket: Sockets \cup {None},
                            game: Slugs \cup {"none"}, at: Moments]]

\* The powers of g for finishes in T.
WonIn(g, T) == Numbered(wins[g], T)
CooldownFrom(t) == {u \in Moments : t <= u /\ u < t + GameCooldown}

\* In any cooldown, a game gives at most one power for each tab, and one more
\* for each start that was waiting when a game was finished (game:start looks
\* at the cooldown before it waits, finishGame does not).
PowersAreSpaced ==
    \A g \in Slugs, t \in Moments :
        Cardinality(WonIn(g, CooldownFrom(t)))
            <= Cardinality(Sockets) + (IF crossed THEN Cardinality(Calls) ELSE 0)

\* A session belongs to a connected socket, and is dropped with it, unless the
\* socket closed while a start was waiting.
SessionsAreLive == \A s \in Sockets : session[s] # None => s \in online \cup orphans
=============================================================================
