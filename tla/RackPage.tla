------------------------------ MODULE RackPage ------------------------------
(***************************************************************************)
(* The lists of machines and of items that the store of the pages keeps, and *)
(* the requests that make them old: an installation, a move, a removal, a      *)
(* purchase.  The lists are numbered by the changes the server has made.  Each *)
(* is fetched anew when a request is answered and when the socket says so;     *)
(* what the server does to the rows themselves is Machines.                   *)
(***************************************************************************)
EXTENDS Requests

CONSTANT MaxChanges     \* bound: requests that change a list

ASSUME RackPageAssumption == MaxChanges \in Nat

VARIABLES
    served,       \* the server's lists, by number
    lists,      \* the store's, likewise
    toFetch,      \* fetches the server has not read for
    answers,    \* those it has, by list and number
    rcall,      \* progress of each request
    updates,       \* events on the socket: each says that both lists are old
    inRoom,     \* whether the socket is in the player's room
    buying,     \* isPurchasing
    changes,
    rluck       \* "crossed": a list was shown after a newer one; "lost": a fetch was
                \* lost; "untold": a change was neither answered nor told

rackVars == <<served, lists, toFetch, answers, rcall, updates, inRoom, buying, changes, rluck>>

Lists == {"machines", "inventory"}
Versions == 0 .. MaxChanges
Ops == {"install", "move", "remove", "buy"}
Bump(changed) == [l \in Lists |-> IF l \in changed THEN 1 ELSE 0]
Plus(f, g) == [l \in Lists |-> f[l] + g[l]]

RackPageInit ==
    /\ served = [l \in Lists |-> 0]
    /\ lists = [l \in Lists |-> 0]
    /\ toFetch = [l \in Lists |-> 0]
    /\ answers = [l \in Lists |-> [v \in Versions |-> 0]]
    /\ rcall = [c \in Calls |-> "idle"]
    /\ updates = 0
    /\ inRoom = TRUE
    /\ buying = FALSE
    /\ changes = 0
    /\ rluck = {}

Asks(ls) == toFetch' = Plus(toFetch, Bump(ls))

\* A drop, or a button of the dialog; the shop's, one purchase at a time.
ClicksChange(c) ==
    /\ rcall[c] = "idle" /\ changes < MaxChanges
    /\ changes' = changes + 1
    /\ \E op \in Ops :
          /\ op = "buy" => ~buying
          /\ rcall' = [rcall EXCEPT ![c] = op]
          /\ buying' = (buying \/ op = "buy")
    /\ UNCHANGED <<served, lists, toFetch, answers, updates, inRoom, rluck>>

\* What a request may change: an installation and a move may displace
\* machines into the inventory.
Changes(op) ==
    CASE op = "buy" -> {{"inventory"}}
      [] op = "move" -> {{"machines"}, Lists}
      [] OTHER -> {Lists}

Done == [op \in Ops |-> CASE op = "install" -> "installed" [] op = "move" -> "moved"
                         [] op = "remove" -> "removed" [] OTHER -> "bought"]

\* The request is refused, or committed; the profile is reloaded, which tells
\* the room, or fails, and then the answer is an error.  The shop tells no one.
ServerChanges(c) ==
    LET op == rcall[c] IN
    /\ op \in Ops
    /\ \/ /\ \E ls \in Changes(op) : served' = Plus(served, Bump(ls))
          /\ \/ /\ rcall' = [rcall EXCEPT ![c] = Done[op]]
                /\ updates' = updates + (IF op # "buy" /\ inRoom THEN 1 ELSE 0)
                /\ rluck' = rluck \cup IF op = "move" /\ ~inRoom THEN {"untold"} ELSE {}
             \/ /\ MayFail /\ op # "buy"
                /\ rcall' = [rcall EXCEPT ![c] = "refused"]
                /\ rluck' = rluck \cup {"untold"}
                /\ UNCHANGED updates
       \/ /\ rcall' = [rcall EXCEPT ![c] = IF op = "buy" THEN "unsold" ELSE "refused"]
          /\ UNCHANGED <<served, updates, rluck>>
    /\ UNCHANGED <<lists, toFetch, answers, inRoom, buying, changes>>

\* Slip: a purchase fetches what is installed.
FetchesMachines(done) == {"machines"}

\* The lists an answer fetches: fetchAll after a purchase.
FetchesAfter(done) == IF done = "moved" THEN {"machines"} ELSE Lists

ChangeAnswered(c) ==
    /\ rcall[c] \in {Done[op] : op \in Ops}
    /\ Asks(FetchesAfter(rcall[c]))
    /\ buying' = (buying /\ rcall[c] # "bought")
    /\ rcall' = [rcall EXCEPT ![c] = "idle"]
    /\ UNCHANGED <<served, lists, answers, updates, inRoom, changes, rluck>>

\* A message is shown; nothing is fetched.
RefusalAnswered(c) ==
    /\ rcall[c] \in {"refused", "unsold"}
    /\ rcall' = [rcall EXCEPT ![c] = "idle"]
    /\ buying' = (buying /\ rcall[c] # "unsold")
    /\ UNCHANGED <<served, lists, toFetch, answers, updates, inRoom, changes, rluck>>

\* machines:update and inventory:update, without a list of their own.
HearsUpdate ==
    /\ updates > 0
    /\ updates' = updates - 1
    /\ Asks(Lists)
    /\ UNCHANGED <<served, lists, answers, rcall, inRoom, buying, changes, rluck>>

SocketDrops ==
    /\ MayFail /\ inRoom
    /\ inRoom' = FALSE
    /\ updates' = 0
    /\ rluck' = rluck \cup IF updates > 0 THEN {"untold"} ELSE {}
    /\ UNCHANGED <<served, lists, toFetch, answers, rcall, buying, changes>>

SocketJoins ==
    /\ ~inRoom
    /\ inRoom' = TRUE
    /\ UNCHANGED <<served, lists, toFetch, answers, rcall, updates, buying, changes, rluck>>

ReadsList(l) ==
    /\ toFetch[l] > 0
    /\ toFetch' = [toFetch EXCEPT ![l] = @ - 1]
    /\ answers' = [answers EXCEPT ![l][served[l]] = @ + 1]
    /\ UNCHANGED <<served, lists, rcall, updates, inRoom, buying, changes, rluck>>

\* The list that arrives is shown, whichever was shown before.
ListShown(l) ==
    \E v \in Versions :
        /\ answers[l][v] > 0
        /\ answers' = [answers EXCEPT ![l][v] = @ - 1]
        /\ lists' = [lists EXCEPT ![l] = v]
        /\ rluck' = rluck \cup IF v < lists[l] THEN {"crossed"} ELSE {}
        /\ UNCHANGED <<served, toFetch, rcall, updates, inRoom, buying, changes>>

ListLost(l) ==
    /\ MayFail
    /\ toFetch[l] > 0
    /\ toFetch' = [toFetch EXCEPT ![l] = @ - 1]
    /\ rluck' = rluck \cup {"lost"}
    /\ UNCHANGED <<served, lists, answers, rcall, updates, inRoom, buying, changes>>

\* The page is opened: fetchAll and initSocket, for a store that has nothing
\* under way.
OpensPage ==
    /\ toFetch = [l \in Lists |-> 0] /\ answers = [l \in Lists |-> [v \in Versions |-> 0]]
    /\ \A c \in Calls : rcall[c] = "idle"
    /\ updates = 0 /\ inRoom
    /\ Asks(Lists)
    /\ rluck' = {}
    /\ UNCHANGED <<served, lists, answers, rcall, updates, inRoom, buying, changes>>

RackPageNext ==
    \/ \E c \in Calls :
          ClicksChange(c) \/ ServerChanges(c) \/ ChangeAnswered(c) \/ RefusalAnswered(c)
    \/ \E l \in Lists : ReadsList(l) \/ ListShown(l) \/ ListLost(l)
    \/ HearsUpdate \/ SocketDrops \/ SocketJoins \/ OpensPage

RackPageSpec == RackPageInit /\ [][RackPageNext]_rackVars
-----------------------------------------------------------------------------
(* Properties.                                                              *)

\* Type correctness of the lists and what is under way.
RackPageTypeOK ==
    /\ served \in [Lists -> Versions] /\ lists \in [Lists -> Versions]
    /\ toFetch \in [Lists -> Nat] /\ answers \in [Lists -> [Versions -> Nat]]
    /\ rcall \in [Calls -> {"idle", "refused", "unsold"} \cup Ops \cup {Done[op] : op \in Ops}]
    /\ updates \in Nat /\ inRoom \in BOOLEAN /\ buying \in BOOLEAN /\ changes \in Versions
    /\ rluck \subseteq {"crossed", "lost", "untold"}

\* When nothing is under way the store's lists are the server's, or as long
\* ago as the bad luck: a list shown after a newer one, lost, or never told.
ListsCatchUp ==
    /\ rluck = {} /\ updates = 0 /\ \A c \in Calls : rcall[c] = "idle"
    /\ \A l \in Lists : toFetch[l] = 0 /\ \A v \in Versions : answers[l][v] = 0
    => lists = served
=============================================================================
