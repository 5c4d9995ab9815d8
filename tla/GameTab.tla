------------------------------ MODULE GameTab -------------------------------
(***************************************************************************)
(* The games' page and its socket: what the tab shows of a game, and the     *)
(* session the server keeps for the socket.  Messages arrive in the order     *)
(* they were sent, but the server answers a start when the database has       *)
(* answered it, and a win when the power is written.  The cooldowns are here   *)
(* as they are seen from one tab; see Games for several.                     *)
(***************************************************************************)
EXTENDS Requests, Sequences

SeqExt == INSTANCE SequencesExt

CONSTANT MaxStarts     \* bound: games started

ASSUME GameTabAssumption == MaxStarts \in Nat

VARIABLES
    view,      \* the page: [active, board, over, cool], cool a set of games
    toServer,   \* emitted by the page
    toPage,     \* emitted by the server
    live,       \* GAME_SESSIONS: the game, or None
    cooling,    \* games that were finished less than a cooldown ago
    startsDue,  \* starts that wait for the database, a game each
    winsDue,    \* games that were won and wait for it
    starts,
    tabLuck     \* "crossed": a start beside one that is due; "late": a start beside a
                \* win that is written; "offline": the socket was closed; "failed": a start
                \* was not answered

gameTabVars == <<view, toServer, toPage, live, cooling, startsDue, winsDue, starts, tabLuck>>

TabGames == {"memory", "match-3"}
Msg(kind, game) == [kind |-> kind, game |-> game]
Pending(kind, queue) == \E i \in 1 .. Len(queue) : queue[i].kind = kind
StartIsDue == startsDue # <<>> \/ Pending("start", toServer) \/ Pending("started", toPage)

GameTabInit ==
    /\ view = [active |-> None, board |-> None, over |-> FALSE, cool |-> {}]
    /\ toServer = <<>> /\ toPage = <<>>
    /\ live = None
    /\ cooling = {} /\ startsDue = <<>> /\ winsDue = {}
    /\ starts = 0
    /\ tabLuck = {}

Emits(m) == toServer' = Append(toServer, m)

SendsStart(g) ==
    /\ starts < MaxStarts
    /\ starts' = starts + 1
    /\ Emits(Msg("start", g))
    /\ tabLuck' = tabLuck \cup (IF StartIsDue THEN {"crossed"} ELSE {})
                          \cup (IF winsDue # {} \/ Pending("finished", toPage) THEN {"late"} ELSE {})

\* A card of the lobby, disabled while its game cools down.
ClicksCard ==
    /\ view.active = None
    /\ \E g \in TabGames \ view.cool :
          /\ view' = [view EXCEPT !.active = g, !.board = None, !.over = FALSE]
          /\ SendsStart(g)
    /\ UNCHANGED <<toPage, live, cooling, startsDue, winsDue>>

\* The button of the final report, which leaves what is shown.
RestartsGame ==
    /\ view.active # None /\ view.over /\ view.active \notin view.cool
    /\ SendsStart(view.active)
    /\ UNCHANGED <<view, toPage, live, cooling, startsDue, winsDue>>

\* Slip: the lobby is shown again, and the server is not told.
LeavesOnly == UNCHANGED toServer

TellsServer == Emits(Msg("end", None))

\* Abortar, Sair; the final report is left without a word.
AbortsGame ==
    /\ view.active # None /\ ~view.over
    /\ view' = [view EXCEPT !.active = None, !.board = None]
    /\ TellsServer
    /\ UNCHANGED <<toPage, live, cooling, startsDue, winsDue, starts, tabLuck>>

LeavesReport ==
    /\ view.active # None /\ view.over
    /\ view' = [view EXCEPT !.active = None, !.board = None]
    /\ UNCHANGED <<toServer, toPage, live, cooling, startsDue, winsDue, starts, tabLuck>>

\* The time of a board is over, also behind the lobby.
TimeIsUp ==
    /\ view.board # None /\ ~view.over
    /\ view' = [view EXCEPT !.over = TRUE]
    /\ TellsServer
    /\ UNCHANGED <<toPage, live, cooling, startsDue, winsDue, starts, tabLuck>>

\* A cooldown of the page began after the server's, and ends after it.
PageCools ==
    /\ \E g \in view.cool \ cooling : view' = [view EXCEPT !.cool = @ \ {g}]
    /\ UNCHANGED <<toServer, toPage, live, cooling, startsDue, winsDue, starts, tabLuck>>

ServerCools ==
    /\ \E g \in cooling : cooling' = cooling \ {g}
    /\ UNCHANGED <<view, toServer, toPage, live, startsDue, winsDue, starts, tabLuck>>

-----------------------------------------------------------------------------
(* The server.                                                              *)

Tells(m) == toPage' = Append(toPage, m)
Takes(kind) ==
    /\ toServer # <<>> /\ Head(toServer).kind = kind
    /\ toServer' = Tail(toServer)

\* game:start: refused while its game cools down, or on its way to the database.
TakesStart ==
    LET g == Head(toServer).game IN
    /\ Takes("start")
    /\ IF g \in cooling THEN Tells(Msg("cooldown", g)) /\ UNCHANGED startsDue
       ELSE startsDue' = Append(startsDue, g) /\ UNCHANGED toPage
    /\ UNCHANGED <<view, live, cooling, winsDue, starts, tabLuck>>

\* The session replaces the one the socket had.
StartsSession ==
    /\ \E i \in DOMAIN startsDue :
          /\ startsDue' = SeqExt!RemoveAt(startsDue, i)
          /\ live' = startsDue[i]
          /\ Tells(Msg("started", startsDue[i]))
    /\ UNCHANGED <<view, toServer, cooling, winsDue, starts, tabLuck>>

StartIsLost ==
    /\ MayFail
    /\ \E i \in DOMAIN startsDue : startsDue' = SeqExt!RemoveAt(startsDue, i)
    /\ tabLuck' = tabLuck \cup {"failed"}
    /\ UNCHANGED <<view, toServer, toPage, live, cooling, winsDue, starts>>

\* finishGame: a game is won by an action of the page's board.
WinsGame ==
    /\ live # None
    /\ cooling' = cooling \cup {live}
    /\ winsDue' = winsDue \cup {live}
    /\ live' = None
    /\ tabLuck' = tabLuck \cup IF StartIsDue THEN {"late"} ELSE {}
    /\ UNCHANGED <<view, toServer, toPage, startsDue, starts>>

WinIsTold ==
    /\ \E g \in winsDue :
          /\ winsDue' = winsDue \ {g}
          /\ Tells(Msg("finished", g))
    /\ UNCHANGED <<view, toServer, live, cooling, startsDue, starts, tabLuck>>

\* Slip: a session that is ended is kept.
EndsBriefly == cooling' = cooling \cup {live} /\ Tells(Msg("finished", live)) /\ UNCHANGED live

EndsSession == cooling' = cooling \cup {live} /\ Tells(Msg("finished", live)) /\ live' = None

\* game:end.
TakesEnd ==
    /\ Takes("end")
    /\ IF live = None THEN UNCHANGED <<cooling, toPage, live>> ELSE EndsSession
    /\ UNCHANGED <<view, startsDue, winsDue, starts, tabLuck>>

-----------------------------------------------------------------------------
(* The page's handlers.                                                     *)

Hears(kind) ==
    /\ toPage # <<>> /\ Head(toPage).kind = kind
    /\ toPage' = Tail(toPage)
    /\ UNCHANGED <<toServer, live, cooling, startsDue, winsDue, starts, tabLuck>>

\* game:started: the board, whatever the page shows.
HearsStarted ==
    /\ Hears("started")
    /\ view' = [view EXCEPT !.board = Head(toPage).game, !.over = FALSE]

\* game:finished: over, whatever the page shows.
HearsFinished ==
    /\ Hears("finished")
    /\ view' = [view EXCEPT !.over = TRUE, !.cool = @ \cup {Head(toPage).game}]

\* game:cooldown, and the error that goes with it.
HearsCooldown ==
    /\ Hears("cooldown")
    /\ view' = [view EXCEPT !.cool = @ \cup {Head(toPage).game}]

\* The socket is closed: its session is deleted, and what was sent is lost.
SocketCloses ==
    /\ MayFail
    /\ live' = None
    /\ toServer' = <<>> /\ toPage' = <<>>
    /\ startsDue' = <<>> /\ winsDue' = {}
    /\ tabLuck' = tabLuck \cup {"offline"}
    /\ UNCHANGED <<view, cooling, starts>>

GameTabNext ==
    \/ ClicksCard \/ RestartsGame \/ AbortsGame \/ LeavesReport \/ TimeIsUp
    \/ PageCools \/ ServerCools
    \/ TakesStart \/ StartsSession \/ StartIsLost \/ WinsGame \/ WinIsTold \/ TakesEnd
    \/ HearsStarted \/ HearsFinished \/ HearsCooldown
    \/ SocketCloses

GameTabSpec == GameTabInit /\ [][GameTabNext]_gameTabVars
-----------------------------------------------------------------------------
(* Properties.                                                              *)

\* Type correctness of the page, the queues and the session.
GameTabTypeOK ==
    /\ view \in [active : TabGames \cup {None}, board : TabGames \cup {None},
                  over : BOOLEAN, cool : SUBSET TabGames]
    /\ \A i \in 1 .. Len(toServer) : toServer[i] \in [kind : {"start", "end"}, game : TabGames \cup {None}]
    /\ \A i \in 1 .. Len(toPage) : toPage[i] \in [kind : {"started", "finished", "cooldown"}, game : TabGames]
    /\ live \in TabGames \cup {None}
    /\ cooling \subseteq TabGames /\ startsDue \in Seq(TabGames) /\ winsDue \subseteq TabGames
    /\ starts \in 0 .. MaxStarts /\ tabLuck \subseteq {"crossed", "late", "offline", "failed"}

\* A board that is shown is of the game that was chosen, and it can be played,
\* or its end is on the way; unless a start was sent beside one that was due,
\* or while a win was written, or the socket was closed.
BoardIsLive ==
    tabLuck = {} /\ view.active # None /\ view.board # None /\ ~view.over =>
        /\ view.board = view.active
        /\ live = view.board \/ winsDue # {} \/ Pending("finished", toPage)

\* A report that is shown is of a game that is over at the server as well, or
\* is about to be: no game goes on behind it.
ReportIsFinal ==
    tabLuck = {} /\ view.active # None /\ view.over /\ ~StartIsDue =>
        live = None \/ Pending("end", toServer)
=============================================================================
