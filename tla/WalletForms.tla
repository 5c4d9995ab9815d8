----------------------------- MODULE WalletForms ----------------------------
(***************************************************************************)
(* The wallet page: what it shows and its address field, and the actions it *)
(* sends.                                                                   *)
(***************************************************************************)
EXTENDS Requests

-----------------------------------------------------------------------------
(***************************************************************************)
(* What the wallet page shows, and its address field.  Fetches are begun by  *)
(* a timer, a button, every change of the field and every success of an      *)
(* action; their answers arrive in any order and each overwrites the page.   *)
(***************************************************************************)

CONSTANT MaxDone    \* bound on the actions that the server carries out

ASSUME WalletAssumption == MaxDone \in Nat /\ None \notin {"typed", "saved", "account"}

VARIABLES
    done,       \* actions of this page that the server has carried out
    shown,      \* how many of them the balance and the list on the page show
    answerDue,  \* whether one of them has not been answered yet
    saved,      \* whether the account has an address saved
    connected,  \* whether the browser's wallet is connected
    field,      \* the withdrawal's address: None, "typed", "saved" or "account"
    loads,      \* progress of each fetch
    amiss       \* "shown": a fetch failed or was overtaken; "field": filled over

walletVars == <<done, shown, answerDue, saved, connected, field, loads, amiss>>

\* over: whether the field was empty for the closure that fetches; began: the
\* field as it was; older: the fetches in flight when this one was sent;
\* overtaken: whether one that was sent after it has been answered.
Load(pc, over, began, upTo, older, overtaken) ==
    [pc |-> pc, over |-> over, began |-> began, upTo |-> upTo, older |-> older, overtaken |-> overtaken]
NoLoad == Load("idle", FALSE, None, 0, {}, FALSE)

WalletInit ==
    /\ done = 0 /\ shown = 0
    /\ answerDue = FALSE
    /\ saved = FALSE /\ connected = FALSE
    /\ field = None
    /\ loads = [c \in Calls |-> NoLoad]
    /\ amiss = {}

Loads == {c \in Calls : loads[c].pc # "idle"}

\* Slip: the closure of the first render, when the field was empty.
FirstClosure(f) == TRUE

\* useCallback's dependencies make a new closure for every change.
Closure(f) == f = None

\* fetchWalletData, with the field as it is rendered, while a call is free.
fetchWalletData(f) ==
    \E c \in Calls \ Loads :
        loads' = [loads EXCEPT ![c] = Load("sent", Closure(f), f, 0, Loads, FALSE)]

Refreshes ==
    /\ fetchWalletData(field)
    /\ UNCHANGED <<done, shown, answerDue, saved, connected, field, amiss>>

\* The user types an address or empties the field: the effect fetches.
TypesAddress ==
    \E f \in {None, "typed"} \ {field} :
        /\ field' = f
        /\ fetchWalletData(f)
        /\ UNCHANGED <<done, shown, answerDue, saved, connected, amiss>>

\* connect saves the address it has verified; accountsChanged just connects.
WalletConnects ==
    /\ ~connected
    /\ connected' = TRUE
    /\ saved' \in {saved, TRUE}
    /\ UNCHANGED <<done, shown, answerDue, field, loads, amiss>>

\* The account fills an empty field.
AccountFills ==
    /\ connected /\ field = None
    /\ field' = "account"
    /\ fetchWalletData("account")
    /\ UNCHANGED <<done, shown, answerDue, saved, connected, amiss>>

ServerLoads(c) ==
    /\ loads[c].pc = "sent"
    /\ loads' = [loads EXCEPT ![c].pc = "answered", ![c].upTo = done]
    /\ UNCHANGED <<done, shown, answerDue, saved, connected, field, amiss>>

\* The fetches without c's, those sent before it now being overtaken.
Without(c, answered) ==
    [d \in Calls |->
        IF d = c THEN NoLoad
        ELSE [loads[d] EXCEPT !.older = @ \ {c}, !.overtaken = @ \/ (answered /\ d \in loads[c].older)]]

\* The answer is shown; a saved address fills the field that the closure took
\* for empty, also one typed into meanwhile.  A change of the field fetches.
LoadAnswered(c) ==
    LET q == loads[c]
        fills == q.over /\ saved /\ field # "saved"
        fetch == Load("sent", Closure("saved"), "saved", 0, Loads \ {c}, FALSE)
    IN  /\ q.pc = "answered"
        /\ shown' = q.upTo
        /\ field' = IF fills THEN "saved" ELSE field
        /\ loads' = IF fills THEN [Without(c, TRUE) EXCEPT ![c] = fetch] ELSE Without(c, TRUE)
        /\ amiss' = amiss \cup (IF q.overtaken THEN {"shown"} ELSE {})
                          \cup (IF fills /\ field = "typed" /\ q.began = "typed" THEN {"field"} ELSE {})
        /\ UNCHANGED <<done, answerDue, saved, connected>>

LoadFails(c) ==
    /\ MayFail
    /\ c \in Loads
    /\ loads' = Without(c, FALSE)
    /\ amiss' = amiss \cup {"shown"}
    /\ UNCHANGED <<done, shown, answerDue, saved, connected, field>>

\* The server carries out a withdrawal, a deposit or a resync; a success makes
\* the page fetch, after a lost answer it just waits for the timer.
ServerActs ==
    /\ ~answerDue /\ done < MaxDone
    /\ done' = done + 1
    /\ answerDue' = TRUE
    /\ UNCHANGED <<shown, saved, connected, field, loads, amiss>>

ActAnswered ==
    /\ answerDue
    /\ answerDue' = FALSE
    /\ \/ fetchWalletData(field) /\ UNCHANGED amiss
       \/ MayFail /\ amiss' = amiss \cup {"shown"} /\ UNCHANGED loads
    /\ UNCHANGED <<done, shown, saved, connected, field>>

WalletNext ==
    \/ Refreshes \/ TypesAddress \/ WalletConnects \/ AccountFills \/ ServerActs \/ ActAnswered
    \/ \E c \in Calls : ServerLoads(c) \/ LoadAnswered(c) \/ LoadFails(c)

WalletSpec == WalletInit /\ [][WalletNext]_walletVars

-----------------------------------------------------------------------------
(* Properties.                                                              *)

\* Type correctness of the page and its fetches.
WalletTypeOK ==
    /\ done \in 0 .. MaxDone /\ shown \in 0 .. done
    /\ {answerDue, saved, connected} \subseteq BOOLEAN
    /\ field \in {None, "typed", "saved", "account"}
    /\ \A c \in Calls : loads[c].upTo \in 0 .. done /\ loads[c].older \subseteq Loads \ {c}
    /\ amiss \subseteq {"shown", "field"}

\* With nothing on its way the page shows every action that has been answered,
\* unless a fetch failed or was overtaken by a later one.
ActionsAreShown == (Loads = {} /\ ~answerDue /\ "shown" \notin amiss) => shown = done

\* An address that the user has typed is not replaced by a fetch that began
\* when it was there.  (One begun before does replace it.)
TypedIsKept == "field" \notin amiss

-----------------------------------------------------------------------------
(***************************************************************************)
(* The wallet page's actions, which a busy flag keeps apart: a withdrawal, a *)
(* deposit sent by the browser's wallet, the claim of a transfer by its hash *)
(* and a resync.  A ticket about a deposit has a flag of its own, and takes   *)
(* the hash of a claim that failed.                                           *)
(***************************************************************************)

CONSTANT Hashes     \* transfers made with another wallet

ASSUME DepositFormAssumption == None \notin Hashes

VARIABLES
    isActionLoading,
    acts,       \* progress of each action
    wallet,     \* the browser's wallet: "off", "elsewhere" or "ready"
    transfers,  \* those that it was asked for and that await their claim's answer
    hash,       \* the manual form's hash, or None
    ticket,     \* [hashes, sending]: what the ticket's field has, and has been sent
    failed,     \* hashes of claims that failed and are not in a ticket that was sent
    wiped       \* hashes that the answer of a ticket wiped from its field

formVars == <<isActionLoading, acts, wallet, transfers, hash, ticket, failed, wiped>>

Act(pc, op, of) == [pc |-> pc, op |-> op, of |-> of]
NoAct == Act("idle", "none", None)

NotSending == [hashes |-> {}, sending |-> {}, busy |-> FALSE]

FormInit ==
    /\ isActionLoading = FALSE
    /\ acts = [c \in Calls |-> NoAct]
    /\ wallet = "off"
    /\ transfers = {}
    /\ hash = None
    /\ ticket = NotSending
    /\ failed = {}
    /\ wiped = {}

\* Slip: the buttons stay as they are.
AlwaysFree == TRUE

ButtonsAreFree == ~isActionLoading

\* One of the four buttons is pressed.
Presses(c) ==
    \E op \in {"withdraw", "auto", "manual", "resync"} :
        /\ acts[c] = NoAct
        /\ ButtonsAreFree
        /\ op = "manual" => hash # None
        /\ isActionLoading' = TRUE
        /\ acts' = [acts EXCEPT ![c] =
                       IF op = "auto" THEN Act("wallet", op, None)
                       ELSE Act("posted", op, IF op = "manual" THEN hash ELSE None)]
        /\ UNCHANGED <<wallet, transfers, hash, ticket, failed, wiped>>

\* catch tells the user what went wrong; finally frees the buttons.
EndsAct(c) ==
    /\ acts' = [acts EXCEPT ![c] = NoAct]
    /\ isActionLoading' = FALSE

\* handleAutoDeposit: without a connection the user connects, on another
\* network the user switches, and either way has to press the button again.
\* Otherwise the transfer is sent and then claimed.
AsksWallet(c) ==
    /\ acts[c].pc = "wallet"
    /\ \/ /\ wallet # "ready"
          /\ EndsAct(c)
          /\ wallet' \in (IF wallet = "off" THEN {"elsewhere", "ready"} ELSE {"ready"})
          /\ UNCHANGED transfers
       \/ /\ wallet = "ready"
          /\ acts' = [acts EXCEPT ![c].pc = "posted"]
          /\ transfers' = transfers \cup {c}
          /\ UNCHANGED <<isActionLoading, wallet>>
    /\ UNCHANGED <<hash, ticket, failed, wiped>>

\* The header's connect button, accountsChanged and chainChanged.
WalletChanges ==
    /\ wallet' \in {"off", "elsewhere", "ready"} \ {wallet}
    /\ UNCHANGED <<isActionLoading, acts, transfers, hash, ticket, failed, wiped>>

\* A success clears the form, whatever was typed since.
Succeeds(c) ==
    LET q == acts[c] IN
    /\ q.pc = "posted"
    /\ EndsAct(c)
    /\ transfers' = transfers \ {c}
    /\ hash' = IF q.op \in {"auto", "manual"} THEN None ELSE hash
    /\ failed' = failed \ {q.of}
    /\ UNCHANGED <<wallet, ticket, wiped>>

\* Slip: the ticket is just opened.
OpensTicket(h) == ticket

\* promptBalanceTicketAfterManualFailure
PutInTicket(h) == [ticket EXCEPT !.hashes = @ \cup {h}]

\* Refused by the user, the wallet or the server, or lost.  The claim of a
\* transfer just made is not tried again: its hash is on no form.
Fails(c) ==
    LET q == acts[c] IN
    /\ q # NoAct
    /\ EndsAct(c)
    /\ transfers' = transfers \ {c}
    /\ ticket' = IF q.op = "manual" THEN PutInTicket(q.of) ELSE ticket
    /\ failed' = IF q.op = "manual" THEN failed \cup {q.of} ELSE failed
    /\ wiped' = wiped \ {q.of}
    /\ UNCHANGED <<wallet, hash>>

TypesHash ==
    \E h \in Hashes \ {hash} :
        /\ hash' = h
        /\ UNCHANGED <<isActionLoading, acts, wallet, transfers, ticket, failed, wiped>>

\* handleBalanceRecoveryTicket
SendsTicket ==
    /\ ~ticket.busy
    /\ ticket' = [ticket EXCEPT !.sending = ticket.hashes, !.busy = TRUE]
    /\ UNCHANGED <<isActionLoading, acts, wallet, transfers, hash, failed, wiped>>

\* Its answer clears the field, with the hashes that came meanwhile.
TicketAnswered ==
    /\ ticket.busy
    /\ \/ /\ ticket' = NotSending
          /\ failed' = failed \ ticket.sending
          /\ wiped' = (wiped \ ticket.sending) \cup (ticket.hashes \ ticket.sending)
       \/ /\ ticket' = [ticket EXCEPT !.sending = {}, !.busy = FALSE]
          /\ UNCHANGED <<failed, wiped>>
    /\ UNCHANGED <<isActionLoading, acts, wallet, transfers, hash>>

FormNext ==
    \/ WalletChanges \/ TypesHash \/ SendsTicket \/ TicketAnswered
    \/ \E c \in Calls : Presses(c) \/ AsksWallet(c) \/ Succeeds(c) \/ Fails(c)

FormSpec == FormInit /\ [][FormNext]_formVars

-----------------------------------------------------------------------------
(* Properties.                                                              *)

\* Type correctness of the actions, the form and the ticket.
FormTypeOK ==
    /\ isActionLoading \in BOOLEAN
    /\ wallet \in {"off", "elsewhere", "ready"} /\ transfers \subseteq Calls
    /\ \A c \in Calls : acts[c].of \in Hashes \cup {None}
    /\ hash \in Hashes \cup {None}
    /\ ticket.hashes \subseteq Hashes /\ ticket.sending \subseteq Hashes /\ ticket.busy \in BOOLEAN
    /\ failed \subseteq Hashes /\ wiped \subseteq Hashes

\* The wallet is not asked for a transfer while another awaits its claim's
\* answer, however the connection and the network change meanwhile.
OneTransferAtATime == Cardinality(transfers) <= 1

\* The busy flag is on exactly as long as an action is on its way: the buttons
\* come back, and not before it is over.
FlagFollowsActions == isActionLoading <=> \E c \in Calls : acts[c] # NoAct

\* The hash of a claim that failed is in the ticket's field until a ticket with
\* it is sent or the claim succeeds, unless a ticket on its way wiped it.
FailedIsInTicket == failed \subseteq ticket.hashes \cup wiped
=============================================================================
