----------------------------- MODULE AdminPanels ----------------------------
(***************************************************************************)
(* The administrator's pages: the tickets of the support, the tables of     *)
(* rows and buttons, and the users with their details and credit form.      *)
(***************************************************************************)
EXTENDS Requests

-----------------------------------------------------------------------------
(***************************************************************************)
(* The administrator's support page: a list of tickets, the selected one,   *)
(* what is typed for it, and the panels of its account.  Each answer is      *)
(* applied when it arrives, whatever is selected by then, and the list that  *)
(* marks the tickets read is rewritten from the one of the click.            *)
(***************************************************************************)

CONSTANTS
    Tickets,
    Panels      \* the panels a ticket's subject calls for

Kinds == {"password", "wallet"}

ASSUME AdminPageAssumption ==
    /\ None \notin Tickets
    /\ Panels \in [Tickets -> SUBSET Kinds]

VARIABLES
    read,       \* the tickets whose row is read
    list,       \* those the page shows as read
    selected,   \* selectedMessage, or None
    spinner,    \* loadingDetails
    typed,      \* the ticket a reply or a credit is typed for, or None
    panel,      \* by kind: the ticket whose account is shown, or None
    mcall,      \* progress of each request
    both        \* whether a ticket was opened or acted on while another request was in flight

adminVars == <<read, list, selected, spinner, typed, panel, mcall, both>>

\* ticket: the one it is about; was: the list when it was clicked.
MCall(pc, op, ticket, was) == [pc |-> pc, op |-> op, ticket |-> ticket, was |-> was]
MIdle == MCall("idle", "none", None, {})

AdminInit ==
    /\ read = {}
    /\ list = {}
    /\ selected = None
    /\ spinner = FALSE
    /\ typed = None
    /\ panel = [k \in Kinds |-> None]
    /\ mcall = [c \in Calls |-> MIdle]
    /\ both = FALSE

AdminInFlight == \E c \in Calls : mcall[c].pc # "idle"
Turns(c, q) == mcall' = [mcall EXCEPT ![c] = q]

Sent(c, op, ticket) ==
    /\ mcall[c].pc = "idle"
    /\ Turns(c, MCall("sent", op, ticket, list))
    /\ both' = (both \/ AdminInFlight)

\* Clears what is typed, and shows the spinner until the details are there.
\* Slip: what is typed stays.
SelectsOnly(c, t) ==
    /\ Sent(c, "select", t)
    /\ spinner' = TRUE
    /\ UNCHANGED <<read, list, selected, typed, panel>>

SelectsTicket(c, t) ==
    /\ Sent(c, "select", t)
    /\ spinner' = TRUE
    /\ typed' = None
    /\ UNCHANGED <<read, list, selected, panel>>

selectMessage(c) == \E t \in Tickets : SelectsTicket(c, t)

Types ==
    /\ selected # None /\ ~spinner
    /\ typed' = selected
    /\ UNCHANGED <<read, list, selected, spinner, panel, mcall, both>>

\* handleReply, handleCreditPolMigration and handleSendResetLink.
ActsOnTicket(c) ==
    /\ selected # None /\ ~spinner
    /\ \/ typed # None /\ \E op \in {"reply", "credit"} : Sent(c, op, selected)
       \/ "password" \in Panels[selected] /\ Sent(c, "link", selected)
    /\ UNCHANGED <<read, list, selected, spinner, typed, panel>>

fetchMessages(c) ==
    /\ Sent(c, "list", None)
    /\ UNCHANGED <<read, list, selected, spinner, typed, panel>>

\* A request for the details marks the ticket as read, as the link does.
ServerHandles(c) ==
    LET q == mcall[c] IN
    /\ q.pc \in {"sent", "refetch"}
    /\ read' = IF q.pc = "refetch" \/ q.op \in {"select", "link"} THEN read \cup {q.ticket} ELSE read
    /\ Turns(c, IF q.op = "list" THEN MCall("answered", "list", None, read)
                ELSE [q EXCEPT !.pc = IF @ = "sent" THEN "answered" ELSE "refetched"])
    /\ UNCHANGED <<list, selected, spinner, typed, panel, both>>

\* Slip: a panel keeps what it shows.
KeepsPanels(t) == panel

\* The effects of another selection: the password panel is cleared, and so
\* is one the new ticket does not call for; the rest is loaded anew.
ShowsPanels(t) ==
    [k \in Kinds |-> IF t = selected THEN panel[k]
                     ELSE IF k = "password" \/ k \notin Panels[t] THEN None ELSE panel[k]]

\* setSelectedMessage with details that have arrived.
Selects(t) ==
    /\ selected' = t
    /\ panel' = ShowsPanels(t)

\* What a request goes on with: the panels of a newly selected ticket, one
\* after the other, or nothing.
AdminLoads(t, kinds) ==
    IF kinds = {} THEN MIdle
    ELSE MCall("panel", CHOOSE k \in kinds : \A j \in kinds : j = "wallet" => k = "wallet", t, {})

SelectAnswered(c) ==
    LET q == mcall[c] IN
    /\ q.pc = "answered" /\ q.op = "select"
    /\ Selects(q.ticket)
    /\ spinner' = FALSE
    \* The list it rewrites is the one of the click.
    /\ list' = IF q.ticket \in q.was THEN list ELSE q.was \cup {q.ticket}
    /\ Turns(c, AdminLoads(q.ticket, IF q.ticket = selected THEN {} ELSE Panels[q.ticket]))
    /\ UNCHANGED <<read, typed, both>>

\* After a reply, a credit or a link the details are fetched again; after a
\* credit the wallet's analysis before them.
AdminActAnswered(c) ==
    LET q == mcall[c] IN
    /\ q.pc = "answered" /\ q.op \in {"reply", "credit", "link"}
    /\ \/ q.op = "credit" /\ panel' = [panel EXCEPT !["wallet"] = q.ticket]
       \/ q.op # "credit" /\ UNCHANGED panel
    /\ Turns(c, [q EXCEPT !.pc = "refetch"])
    /\ UNCHANGED <<read, list, selected, spinner, typed, both>>

\* Of the three only the reply rewrites the list of its click, and only the
\* link leaves what is typed.
DetailsAnswered(c) ==
    LET q == mcall[c] IN
    /\ q.pc = "refetched"
    /\ Selects(q.ticket)
    /\ typed' = IF q.op = "link" THEN typed ELSE None
    /\ list' = IF q.op = "reply" THEN q.was ELSE list
    /\ Turns(c, AdminLoads(q.ticket, IF q.ticket # selected THEN Panels[q.ticket]
                                ELSE IF q.op = "link" THEN {"password"} ELSE {}))
    /\ UNCHANGED <<read, spinner, both>>

ListAnswered(c) ==
    LET q == mcall[c] IN
    /\ q.pc = "answered" /\ q.op = "list"
    /\ list' = q.was
    /\ Turns(c, MIdle)
    /\ UNCHANGED <<read, selected, spinner, typed, panel, both>>

\* refreshWalletForensics, refreshPasswordRecoveryContext: on a failure the
\* panel is emptied.
PanelAnswered(c) ==
    LET q == mcall[c] IN
    /\ q.pc = "panel"
    /\ \E shown \in {q.ticket} \cup (IF MayFail THEN {None} ELSE {}) :
          panel' = [panel EXCEPT ![q.op] = shown]
    /\ Turns(c, AdminLoads(q.ticket, IF q.op = "wallet" THEN Panels[q.ticket] \ {"wallet"} ELSE {}))
    /\ UNCHANGED <<read, list, selected, spinner, typed, both>>

\* A request or its answer is lost: a message, and the spinner goes.
RequestLost(c) ==
    LET q == mcall[c] IN
    /\ MayFail
    /\ q.pc \notin {"idle", "panel"}
    /\ spinner' = (spinner /\ q.op # "select")
    /\ Turns(c, MIdle)
    /\ UNCHANGED <<read, list, selected, typed, panel, both>>

AdminNext ==
    \/ Types
    \/ \E c \in Calls :
          \/ selectMessage(c) \/ ActsOnTicket(c) \/ fetchMessages(c) \/ ServerHandles(c)
          \/ SelectAnswered(c) \/ AdminActAnswered(c) \/ DetailsAnswered(c) \/ ListAnswered(c) \/ PanelAnswered(c)
          \/ RequestLost(c)

AdminSpec == AdminInit /\ [][AdminNext]_adminVars

-----------------------------------------------------------------------------
(* Properties.                                                              *)

\* Type correctness of the rows, the page and its requests.
AdminTypeOK ==
    /\ read \subseteq Tickets /\ list \subseteq Tickets
    /\ {selected, typed} \cup {panel[k] : k \in Kinds} \subseteq Tickets \cup {None}
    /\ spinner \in BOOLEAN /\ both \in BOOLEAN
    /\ DOMAIN mcall = Calls

\* What is typed is for the ticket that is shown, and goes to no other, unless
\* the administrator did not wait for an answer.
TypedForShown == both \/ typed \in {None, selected}

\* Once everything has arrived the panels show the selected ticket's account,
\* unless the administrator did not wait: decisions on resets and credits are
\* taken from them.
PanelsOfShown ==
    both \/ AdminInFlight \/ \A k \in Kinds : panel[k] \in {None, selected}

\* However late its answers are, the page never shows a ticket as read that
\* is not: no unread ticket is filtered away.
ListIsNotAhead == list \subseteq read

-----------------------------------------------------------------------------
(***************************************************************************)
(* The administrator's tables: withdrawals (on two pages), users, backups    *)
(* and the miners of the catalogue.  Each page fetches a list, offers for a    *)
(* row the buttons its status calls for, and fetches the list again once a     *)
(* button is answered.  Nothing is disabled meanwhile, and the server has      *)
(* rows changed by its jobs, by players and by other administrators.         *)
(***************************************************************************)

CONSTANTS
    Rows,
    MaxClicks   \* bound: buttons pressed

ASSUME DeskAssumption == None \notin Rows /\ MaxClicks \in Nat

VARIABLES
    desk,       \* the page
    status,     \* of each row, on the server
    cells,      \* what the page shows of each, or None
    dcall,      \* progress of each request
    clicks,
    toasts,       \* rows whose last change is one this page was told of
    dluck       \* "crossed": requests in flight together; "lost"

deskVars == <<desk, status, cells, dcall, clicks, toasts, dluck>>

\* What a handler accepts, and what it makes of the row.
Handler(accepts, to) == [accepts |-> accepts, to |-> to]
approveWithdrawal == Handler({"pending"}, "approved")
rejectWithdrawal == Handler({"pending", "approved"}, "failed")
completeWithdrawal == Handler({"approved"}, "completed")
setUserBan(isBanned) == Handler({"active", "banned"}, IF isBanned THEN "banned" ELSE "active")
createBackup == Handler({"gone", "there"}, "there")
deleteBackup == Handler({"there"}, "gone")
createMiner == Handler({"gone"}, "free")
deleteMiner == Handler({"free"}, "gone")    \* no player has one

\* A button: what it is shown for, and its handler.
Button(shownFor, handler) == [shownFor |-> shownFor, handler |-> handler]

FinanceButtons == {
    Button({"pending"}, approveWithdrawal),
    Button({"pending", "approved"}, rejectWithdrawal),
    Button({"approved"}, completeWithdrawal)}

\* The dashboard reads a field that its list does not have: a banned user
\* looks like any other, and the button bans again.
DashboardButtons == FinanceButtons \cup {Button({"active"}, setUserBan(TRUE))}
UsersButtons == {Button({"active"}, setUserBan(TRUE)), Button({"banned"}, setUserBan(FALSE))}
BackupsButtons == {Button({None}, createBackup), Button({"there"}, deleteBackup)}
handleCreateMiner == Button({None}, createMiner)
handleDeleteMiner == Button({"free", "used"}, deleteMiner)

Buttons ==
    CASE desk = "finance" -> FinanceButtons
      [] desk = "dashboard" -> DashboardButtons
      [] desk = "users" -> UsersButtons
      [] desk = "backups" -> BackupsButtons
      [] desk = "miners" -> {handleCreateMiner, handleDeleteMiner}

\* The rows that each list has.
getPendingWithdrawals == {"pending", "approved"}
listUsers == {"active", "banned"}
listBackups == {"there"}
listMiners == {"free", "used"}
ListedRows == getPendingWithdrawals \cup listUsers \cup listBackups \cup listMiners

Cell(s) ==
    IF s \notin ListedRows THEN None
    ELSE IF desk = "dashboard" /\ s = "banned" THEN "active" ELSE s

\* What the jobs, the players and other administrators do.
OtherChanges == {<<"approved", "completed">>, <<"approved", "failed">>, <<"free", "used">>, <<"used", "free">>}
LeavesDesk == OtherChanges \cup UNION {{<<s, b.handler.to>> : s \in b.handler.accepts} : b \in Buttons}

DCall(pc, row, button) == [pc |-> pc, row |-> row, button |-> button, list |-> <<>>]
NoButton == Button({}, Handler({}, "none"))
DIdle == DCall("idle", None, NoButton)

Firsts == [finance |-> {"pending"}, dashboard |-> {"pending", "active"}, users |-> {"active"},
           backups |-> {"there"}, miners |-> {"free"}]

DeskInit ==
    /\ desk \in DOMAIN Firsts
    /\ status \in [Rows -> Firsts[desk]]
    /\ cells = [r \in Rows |-> None]
    /\ dcall = [c \in Calls |-> DIdle]
    /\ clicks = 0
    /\ toasts = {}
    /\ dluck = {}

DeskWaits == \E c \in Calls : dcall[c].pc # "idle"

DeskSends(c, q) ==
    /\ dcall[c] = DIdle
    /\ dcall' = [dcall EXCEPT ![c] = q]
    /\ dluck' = dluck \cup (IF DeskWaits THEN {"crossed"} ELSE {})
    /\ UNCHANGED <<desk, status, cells, toasts>>

\* fetchData, when the page is opened and by its button.
fetchData(c) ==
    /\ DeskSends(c, DCall("fetch", None, NoButton))
    /\ UNCHANGED clicks

\* handleApprove, handleBanToggle, handleDeleteBackup, handleDeleteMiner, ...
PressesButton(c) ==
    \E r \in Rows : \E b \in Buttons :
        /\ clicks < MaxClicks
        /\ cells[r] \in b.shownFor
        /\ DeskSends(c, DCall("act", r, b))
        /\ clicks' = clicks + 1

\* The handler: it looks at the row, and changes it or refuses.
DeskHandles(c) ==
    LET q == dcall[c]
        accepted == status[q.row] \in q.button.handler.accepts IN
    /\ q.pc = "act"
    /\ status' = IF accepted THEN [status EXCEPT ![q.row] = q.button.handler.to] ELSE status
    /\ toasts' = IF accepted THEN toasts \cup {q.row} ELSE toasts
    /\ dcall' = [dcall EXCEPT ![c] = IF accepted THEN DCall("done", q.row, q.button) ELSE DIdle]
    /\ UNCHANGED <<desk, cells, clicks, dluck>>

\* Slip: the page trusts its own list.
ShowsOnly(q) == DIdle

\* Once a button is answered, the list is fetched.
FetchesAgain(q) == DCall("fetch", None, NoButton)

DeskAnswered(c) ==
    /\ dcall[c].pc = "done"
    /\ dcall' = [dcall EXCEPT ![c] = FetchesAgain(@)]
    /\ UNCHANGED <<desk, status, cells, clicks, toasts, dluck>>

ListsRows(c) ==
    /\ dcall[c].pc = "fetch"
    /\ dcall' = [dcall EXCEPT ![c] = [pc |-> "list", row |-> None, button |-> NoButton, list |-> status]]
    /\ UNCHANGED <<desk, status, cells, clicks, toasts, dluck>>

DeskListAnswered(c) ==
    /\ dcall[c].pc = "list"
    /\ cells' = [r \in Rows |-> Cell(dcall[c].list[r])]
    /\ dcall' = [dcall EXCEPT ![c] = DIdle]
    /\ UNCHANGED <<desk, status, clicks, toasts, dluck>>

DeskFails(c) ==
    /\ MayFail
    /\ dcall[c].pc # "idle"
    /\ dcall' = [dcall EXCEPT ![c] = DIdle]
    /\ dluck' = dluck \cup {"lost"}
    /\ UNCHANGED <<desk, status, cells, clicks, toasts>>

ChangesElsewhere ==
    \E r \in Rows : \E e \in LeavesDesk :
        /\ status[r] = e[1]
        /\ status' = [status EXCEPT ![r] = e[2]]
        /\ toasts' = toasts \ {r}
        /\ UNCHANGED <<desk, cells, dcall, clicks, dluck>>

DeskNext ==
    \/ ChangesElsewhere
    \/ \E c \in Calls :
          \/ fetchData(c) \/ PressesButton(c) \/ DeskHandles(c) \/ DeskAnswered(c)
          \/ ListsRows(c) \/ DeskListAnswered(c) \/ DeskFails(c)

DeskSpec == DeskInit /\ [][DeskNext]_deskVars

-----------------------------------------------------------------------------
(* Properties.                                                              *)

Statuses == {"pending", "approved", "failed", "completed", "active", "banned", "there", "gone", "free", "used"}

\* Type correctness of the tables.
DeskTypeOK ==
    /\ desk \in DOMAIN Firsts
    /\ status \in [Rows -> Statuses] /\ cells \in [Rows -> Statuses \cup {None}]
    /\ DOMAIN dcall = Calls /\ clicks \in 0 .. MaxClicks
    /\ toasts \subseteq Rows /\ dluck \subseteq {"crossed", "lost"}

\* With nothing being asked, a table shows what its buttons have made of the
\* rows, so that the next button is offered for what the row is: unless
\* requests crossed, one was lost, or the row has changed elsewhere since.
ActsAreListed ==
    (~DeskWaits /\ dluck = {}) => \A r \in toasts : cells[r] = Cell(status[r])

-----------------------------------------------------------------------------
(***************************************************************************)
(* The administrator's page of users: a list for a page number, fetched      *)
(* whenever the number changes and after each act; one user's details over    *)
(* it; and a form there that credits whichever user is shown when it is sent.  *)
(* Answers are applied as they arrive.                                       *)
(***************************************************************************)

CONSTANTS
    Customers,  \* the users listed
    LastPage,
    MaxAsks     \* bound: requests made

ASSUME UserPanelAssumption == None \notin Customers /\ {LastPage, MaxAsks} \subseteq Nat \ {0}

VARIABLES
    pageNo,     \* page
    listOf,     \* the page number whose users are shown, and the request it was
    selectedUser, detailsOf,    \* the same of the details
    draftFor,   \* the user the form was filled in for, or None
    submitting, \* creditPolSubmitting
    asks,       \* requests on their way: [op, arg, n]
    pageAsks,
    pluck       \* "overtaken", "moved", "hasty", "lost"

userPanelVars == <<pageNo, listOf, selectedUser, detailsOf, draftFor, submitting, asks, pageAsks, pluck>>

Ask(op, arg, n) == [op |-> op, arg |-> arg, n |-> n]

UserPanelInit ==
    /\ pageNo = 1
    /\ listOf = <<0, 0>>
    /\ selectedUser = None /\ detailsOf = 0
    /\ draftFor = None
    /\ submitting = FALSE
    /\ asks = {Ask("list", 1, 1)}
    /\ pageAsks = 1
    /\ pluck = {}

Due(op) == {q \in asks : q.op = op}

\* One request, or one and then another.
Asks1(op, arg) ==
    /\ pageAsks < MaxAsks
    /\ pageAsks' = pageAsks + 1
    /\ asks' = asks \cup {Ask(op, arg, pageAsks + 1)}

\* setPage, or a key typed in the search: the effect fetches.
setPage ==
    \E p \in (1 .. LastPage) \ {pageNo} :
        /\ Asks1("list", p)
        /\ pageNo' = p
        /\ UNCHANGED <<listOf, selectedUser, detailsOf, draftFor, submitting, pluck>>

\* handleSearch fetches with the page number of before, and goes to the first.
handleSearch ==
    /\ IF pageNo = 1 THEN Asks1("list", 1)
       ELSE /\ pageAsks + 2 <= MaxAsks
            /\ pageAsks' = pageAsks + 2
            /\ asks' = asks \cup {Ask("list", pageNo, pageAsks + 1), Ask("list", 1, pageAsks + 2)}
    /\ pageNo' = 1
    /\ UNCHANGED <<listOf, selectedUser, detailsOf, draftFor, submitting, pluck>>

\* The details of a user: hasty over what is typed, or while others are due.
loadUserDetails ==
    \E u \in Customers :
        /\ selectedUser = None
        /\ Asks1("details", u)
        /\ pluck' = pluck \cup
              (IF draftFor # None \/ Due("details") \cup Due("credit") \cup Due("ban") # {} THEN {"hasty"} ELSE {})
        /\ UNCHANGED <<pageNo, listOf, selectedUser, detailsOf, draftFor, submitting>>

ClosesDetails ==
    /\ selectedUser # None
    /\ selectedUser' = None
    /\ UNCHANGED <<pageNo, listOf, detailsOf, draftFor, submitting, asks, pageAsks, pluck>>

FillsIn ==
    /\ selectedUser # None
    /\ draftFor' = selectedUser
    /\ UNCHANGED <<pageNo, listOf, selectedUser, detailsOf, submitting, asks, pageAsks, pluck>>

handleCreditPol ==
    /\ selectedUser # None /\ draftFor # None /\ ~submitting
    /\ Asks1("credit", <<selectedUser, pageNo>>)
    /\ submitting' = TRUE
    /\ UNCHANGED <<pageNo, listOf, selectedUser, detailsOf, draftFor, pluck>>

\* From the list, or from the details: the user, who was selected, and the
\* page number that the handler was made with.
handleBanToggle ==
    \E u \in Customers :
        /\ Asks1("ban", <<u, selectedUser, pageNo>>)
        /\ UNCHANGED <<pageNo, listOf, selectedUser, detailsOf, draftFor, submitting, pluck>>

Overtaken(q, last) == pluck \cup (IF q.n < last THEN {"overtaken"} ELSE {})

UsersAnswered ==
    \E q \in Due("list") :
        /\ listOf' = <<q.arg, q.n>>
        /\ asks' = asks \ {q}
        /\ pluck' = Overtaken(q, listOf[2])
        /\ UNCHANGED <<pageNo, selectedUser, detailsOf, draftFor, submitting, pageAsks>>

\* The user is shown, whoever is by now, and though the details were closed.
UserAnswered ==
    \E q \in Due("details") :
        /\ selectedUser' = q.arg /\ detailsOf' = q.n
        /\ asks' = asks \ {q}
        /\ pluck' = Overtaken(q, detailsOf)
        /\ UNCHANGED <<pageNo, listOf, draftFor, submitting, pageAsks>>

Moved(p) == pluck \cup (IF p # pageNo THEN {"moved"} ELSE {})

\* The form is emptied, the details are fetched, and the list of the page
\* number of the click.
CreditAnswered ==
    \E q \in Due("credit") :
        /\ pageAsks + 2 <= MaxAsks
        /\ draftFor' = None
        /\ submitting' = FALSE
        /\ asks' = (asks \ {q}) \cup {Ask("details", q.arg[1], pageAsks + 1), Ask("list", q.arg[2], pageAsks + 2)}
        /\ pageAsks' = pageAsks + 2
        /\ pluck' = Moved(q.arg[2])
        /\ UNCHANGED <<pageNo, listOf, selectedUser, detailsOf>>

\* Slip: the user is reloaded whether or not it is the one shown.
ReloadsAny(arg) == {arg[1]}

\* The user whose details are fetched again, if they were those shown.
ReloadsList(arg) == {arg[1]} \cap {arg[2]}

BanAnswered ==
    \E q \in Due("ban") :
        /\ pageAsks + 2 <= MaxAsks
        /\ asks' = (asks \ {q}) \cup {Ask("list", q.arg[3], pageAsks + 1)}
                                \cup {Ask("details", u, pageAsks + 2) : u \in ReloadsList(q.arg)}
        /\ pageAsks' = pageAsks + 2
        /\ pluck' = Moved(q.arg[3])
        /\ UNCHANGED <<pageNo, listOf, selectedUser, detailsOf, draftFor, submitting>>

AnswerLost ==
    /\ MayFail
    /\ \E q \in asks :
          /\ asks' = asks \ {q}
          /\ submitting' = IF q.op = "credit" THEN FALSE ELSE submitting
    /\ pluck' = pluck \cup {"lost"}
    /\ UNCHANGED <<pageNo, listOf, selectedUser, detailsOf, draftFor, pageAsks>>

UserPanelNext ==
    \/ setPage \/ handleSearch \/ loadUserDetails \/ ClosesDetails \/ FillsIn
    \/ handleCreditPol \/ handleBanToggle
    \/ UsersAnswered \/ UserAnswered \/ CreditAnswered \/ BanAnswered \/ AnswerLost
    \/ UNCHANGED userPanelVars

UserPanelSpec == UserPanelInit /\ [][UserPanelNext]_userPanelVars

-----------------------------------------------------------------------------
(* Properties.                                                              *)

\* Type correctness of the page.
UserPanelTypeOK ==
    /\ pageNo \in 1 .. LastPage /\ pageAsks \in 0 .. MaxAsks
    /\ listOf \in (0 .. LastPage) \X (0 .. MaxAsks) /\ detailsOf \in 0 .. MaxAsks
    /\ {selectedUser, draftFor} \subseteq Customers \cup {None}
    /\ submitting \in BOOLEAN /\ \A q \in asks : q.n <= pageAsks
    /\ pluck \subseteq {"overtaken", "moved", "hasty", "lost"}

\* The users listed are those of the page number, once its request is
\* answered: unless an older answer came after it, one was lost, or the number
\* was changed while an act was due, which fetches the one of its click.
PageIsListed ==
    (Due("list") = {} /\ pluck \cap {"overtaken", "moved", "lost"} = {}) => listOf[1] = pageNo

\* The amount is credited to the user it was typed for, whatever is reloaded
\* meanwhile: unless the administrator opens another user over what is typed,
\* or while requests about a user are due.
CreditIsForDraft ==
    (pluck = {} /\ selectedUser # None /\ draftFor # None) => selectedUser = draftFor

\* The form is disabled for no longer than its request is due.
FormComesBack == submitting => Due("credit") # {}
=============================================================================
