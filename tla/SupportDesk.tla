----------------------------- MODULE SupportDesk ----------------------------
(***************************************************************************)
(* What the administrators' support does: tickets, recoveries and replies,  *)
(* and the comparison of a customer's transfers with the ledger.            *)
(***************************************************************************)
EXTENDS Requests, Sequences

-----------------------------------------------------------------------------
(***************************************************************************)
(* Support tickets.  A ticket that asks for a password finds its account or  *)
(* creates one, mails a link and then becomes a row; users and              *)
(* administrators reply to rows, an administrator may have a link mailed.        *)
(* None of it is one transaction, but the administrator's replies.           *)
(***************************************************************************)

CONSTANTS
    Emails,     \* normalized
    LocalPart,  \* what comes before the @: the user name that is tried first
    MaxTickets  \* bound on the rows

ASSUME SupportAssumption == None \notin Emails \cup {"local", "other"} /\ MaxTickets \in Nat

VARIABLES
    accounts,   \* the user name of each e-mail's account: None, "local" or "other"
    tickets,
    helps,      \* progress of each request
    linkMailed,     \* tickets for which an administrator's link has been mailed
    halfway     \* tickets with a reply whose flag failed

supportVars == <<accounts, tickets, helps, linkMailed, halfway>>

\* linked: whether the ticket names its account; excused: whether a statement
\* failed or the user name was taken meanwhile; replied, told: whether it has a
\* reply, and one of an administrator that says a link was mailed.
Ticket(email, linked, excused) ==
    [email |-> email, linked |-> linked, excused |-> excused,
     replied |-> FALSE, told |-> FALSE, flagged |-> FALSE]

\* name: the user name picked; row: the ticket replied to; raced: as excused.
Help(pc, op, email, name, row, raced) ==
    [pc |-> pc, op |-> op, email |-> email, name |-> name, row |-> row, raced |-> raced]
NoHelp == Help("idle", "none", None, "other", 0, FALSE)

SupportInit ==
    /\ accounts = [e \in Emails |-> None]
    /\ tickets = <<>>
    /\ helps = [c \in Calls |-> NoHelp]
    /\ linkMailed = {}
    /\ halfway = {}

NameIsFree(e) == \A f \in Emails : LocalPart[f] = LocalPart[e] => accounts[f] # "local"
HelpGoes(c, q) == helps' = [helps EXCEPT ![c] = q]

\* Someone registers meanwhile.
SomeoneRegisters ==
    \E e \in Emails, name \in {"local", "other"} :
        /\ accounts[e] = None /\ (name = "local" => NameIsFree(e))
        /\ accounts' = [accounts EXCEPT ![e] = name]
        /\ UNCHANGED <<tickets, helps, linkMailed, halfway>>

\* createMessage of a ticket that asks for a password.
createMessage(c) ==
    \E e \in Emails :
        /\ helps[c] = NoHelp /\ Len(tickets) < MaxTickets
        /\ HelpGoes(c, Help("find", "ask", e, "other", 0, FALSE))
        /\ UNCHANGED <<accounts, tickets, linkMailed, halfway>>

FindsUser(c) ==
    LET q == helps[c] IN
    /\ q.pc = "find"
    /\ HelpGoes(c, [q EXCEPT !.pc = IF accounts[q.email] = None THEN "pick" ELSE "linked"])
    /\ UNCHANGED <<accounts, tickets, linkMailed, halfway>>

\* pickUsernameFromEmail: random letters follow a name that is taken.
PicksName(c) ==
    LET q == helps[c] IN
    /\ q.pc = "pick"
    /\ HelpGoes(c, [q EXCEPT !.pc = "create", !.name = IF NameIsFree(q.email) THEN "local" ELSE "other"])
    /\ UNCHANGED <<accounts, tickets, linkMailed, halfway>>

Clashes(q) == accounts[q.email] # None \/ (q.name = "local" /\ ~NameIsFree(q.email))

\* Slip: a clash is left to the caller.
GivesUp(q) == "unlinked"

\* P2002: someone was faster, with this e-mail or just with this user name.
AfterClash(q) == IF accounts[q.email] # None THEN "linked" ELSE "unlinked"

CreatesUser(c) ==
    LET q == helps[c] IN
    /\ q.pc = "create"
    /\ IF Clashes(q)
       THEN /\ HelpGoes(c, [q EXCEPT !.pc = AfterClash(q), !.raced = accounts[q.email] = None])
            /\ UNCHANGED accounts
       ELSE /\ HelpGoes(c, [q EXCEPT !.pc = "linked"])
            /\ accounts' = [accounts EXCEPT ![q.email] = q.name]
    /\ UNCHANGED <<tickets, linkMailed, halfway>>

\* The link is mailed, or fails to be, and the row is written all the same.
WritesTicket(c) ==
    LET q == helps[c] IN
    /\ q.op = "ask" /\ q.pc \in {"linked", "unlinked"}
    /\ Len(tickets) < MaxTickets
    /\ tickets' = Append(tickets, Ticket(q.email, q.pc = "linked", q.raced))
    /\ HelpGoes(c, NoHelp)
    /\ UNCHANGED <<accounts, linkMailed, halfway>>

\* A statement of the recovery throws: it is caught, and the ticket is written
\* without its account.
RecoveryFails(c) ==
    /\ MayFail
    /\ helps[c].pc \in {"find", "pick", "create"}
    /\ HelpGoes(c, [helps[c] EXCEPT !.pc = "unlinked", !.raced = TRUE])
    /\ UNCHANGED <<accounts, tickets, linkMailed, halfway>>

-----------------------------------------------------------------------------
\* A user's reply, of a session or of who knows the ticket's e-mail, an
\* administrator's, and an administrator's link.
Replies(c) ==
    \E i \in 1 .. Len(tickets), op \in {"user", "admin", "link"} :
        /\ helps[c] = NoHelp
        /\ HelpGoes(c, Help("reply", op, tickets[i].email, "other", i, FALSE))
        /\ UNCHANGED <<accounts, tickets, linkMailed, halfway>>

\* replyToMessage and publicReplyToMessage: the reply, then the flag.
UserReplies(c) ==
    LET q == helps[c] IN
    /\ q.op = "user" /\ q.pc = "reply"
    /\ tickets' = [tickets EXCEPT ![q.row].replied = TRUE]
    /\ HelpGoes(c, [q EXCEPT !.pc = "flag"])
    /\ UNCHANGED <<accounts, linkMailed, halfway>>

UserFlags(c) ==
    LET q == helps[c] IN
    /\ q.pc = "flag"
    /\ tickets' = [tickets EXCEPT ![q.row].flagged = TRUE]
    /\ HelpGoes(c, NoHelp)
    /\ UNCHANGED <<accounts, linkMailed, halfway>>

\* sendPasswordResetLink mails first; resolveUserFromTicket finds an account
\* by the ticket's link or its e-mail.
MailsLink(c) ==
    LET q == helps[c] IN
    /\ q.op = "link" /\ q.pc = "reply"
    /\ accounts[q.email] # None
    /\ linkMailed' = linkMailed \cup {q.row}
    /\ HelpGoes(c, [q EXCEPT !.pc = "tell"])
    /\ UNCHANGED <<accounts, tickets, halfway>>

\* The administrator's reply and the flag, in one transaction.
AdminReplies(c) ==
    LET q == helps[c] IN
    /\ (q.op = "admin" /\ q.pc = "reply") \/ q.pc = "tell"
    /\ tickets' = [tickets EXCEPT ![q.row].replied = TRUE, ![q.row].flagged = TRUE,
                                  ![q.row].told = @ \/ q.op = "link"]
    /\ HelpGoes(c, NoHelp)
    /\ UNCHANGED <<accounts, linkMailed, halfway>>

\* Any of the other statements throws, or no account is found: 500 or 404.
HelpFails(c) ==
    LET q == helps[c] IN
    /\ q.pc \in {"reply", "flag", "tell"} \cup (IF q.op = "ask" THEN {"linked", "unlinked"} ELSE {})
    /\ MayFail \/ (q.op = "link" /\ accounts[q.email] = None)
    /\ halfway' = IF q.pc = "flag" THEN halfway \cup {q.row} ELSE halfway
    /\ HelpGoes(c, NoHelp)
    /\ UNCHANGED <<accounts, tickets, linkMailed>>

SupportNext ==
    \/ SomeoneRegisters
    \/ \E c \in Calls :
          \/ createMessage(c) \/ FindsUser(c) \/ PicksName(c) \/ CreatesUser(c)
          \/ WritesTicket(c) \/ RecoveryFails(c) \/ Replies(c) \/ UserReplies(c)
          \/ UserFlags(c) \/ MailsLink(c) \/ AdminReplies(c) \/ HelpFails(c)

SupportSpec == SupportInit /\ [][SupportNext]_supportVars

-----------------------------------------------------------------------------
(* Properties.                                                              *)

\* Type correctness of the accounts, the tickets and the requests.
SupportTypeOK ==
    /\ accounts \in [Emails -> {None, "local", "other"}]
    /\ tickets \in Seq([email : Emails, linked : BOOLEAN, excused : BOOLEAN,
                       replied : BOOLEAN, told : BOOLEAN, flagged : BOOLEAN])
    /\ Len(tickets) <= MaxTickets /\ linkMailed \cup halfway \subseteq 1 .. Len(tickets)
    /\ helps \in [Calls -> [pc : {"idle", "find", "pick", "create", "linked", "unlinked",
                                 "reply", "flag", "tell"},
                            op : {"none", "ask", "user", "admin", "link"},
                            email : Emails \cup {None}, name : {"local", "other"},
                            row : 0 .. Len(tickets), raced : BOOLEAN]]

\* A ticket that asks for a password names an account, unless a statement
\* failed or someone else took the user name in between: two requests with one
\* e-mail end with the same account.
RecoveryIsLinked ==
    \A i \in 1 .. Len(tickets) : LET t == tickets[i] IN
        /\ t.linked \/ t.excused
        /\ t.linked => accounts[t.email] # None

\* A ticket with a reply is flagged as replied, or will be, or its flag failed.
RepliesAreFlagged ==
    \A i \in 1 .. Len(tickets) :
        tickets[i].replied => \/ tickets[i].flagged \/ i \in halfway
                             \/ \E c \in Calls : helps[c].pc = "flag" /\ helps[c].row = i

\* The reply that says that a link was mailed is there only if it was.
ToldIsMailed == \A i \in 1 .. Len(tickets) : tickets[i].told => i \in linkMailed

-----------------------------------------------------------------------------
(***************************************************************************)
(* An administrator's analysis of a ticket about a deposit, in one request:  *)
(* the account of the ticket is looked for along several paths, its ledger   *)
(* is read, and the explorer is asked for the transactions of each wallet in *)
(* turn, while deposits go on being credited.                                *)
(***************************************************************************)

CONSTANTS
    Players,
    Wallets,
    WalletOf,   \* the address saved for each player, or None
    Chain       \* recent transactions that did not fail: [from, to, worth]

ASSUME ForensicsAssumption ==
    /\ None \notin Players \cup Wallets /\ "game" \notin Wallets
    /\ Chain \subseteq [from : Wallets, to : Wallets \cup {"game"}, worth : BOOLEAN]
    /\ WalletOf \in [Players -> Wallets \cup {None}]

VARIABLES
    request,    \* the ticket: its user, the one its text names, those that its
                \* e-mail matches, and its wallets
    step,       \* "resolve", "ledger", "chain" or "done"
    linked,     \* linkedUser, or None
    credited,   \* the player each transaction is credited to by now, or None
    ledger,     \* linked's deposits, as read
    toScan,     \* wallets left to ask for
    merged,     \* transactions the explorer has answered
    broken      \* wallets whose request failed

forensicsVars == <<request, step, linked, credited, ledger, toScan, merged, broken>>

Requested(user, named, matching, wallets) ==
    [user |-> user, named |-> named, matching |-> matching, wallets |-> wallets]

\* resolveUserFromTicket: the ticket's user, the one named in its text, one
\* that its e-mail matches, and only then the owner of one of its wallets.
Resolved(t) ==
    LET owners == {p \in Players : WalletOf[p] \in t.wallets} IN
    IF t.user # None THEN {t.user}
    ELSE IF t.named # None THEN {t.named}
    ELSE IF t.matching # {} THEN t.matching
    ELSE owners

ForensicsInit ==
    /\ request \in {Requested(u, n, m, w) :
                       u \in Players \cup {None}, n \in {None}, m \in {{}}, w \in SUBSET Wallets}
                \cup {Requested(None, n, m, w) :
                       n \in Players \cup {None}, m \in SUBSET Players, w \in SUBSET Wallets}
    /\ step = "resolve"
    /\ linked = None
    /\ credited = [x \in Chain |-> None]
    /\ ledger = {}
    /\ toScan = {}
    /\ merged = {}
    /\ broken = {}

ResolvesUser ==
    /\ step = "resolve"
    /\ linked' \in IF Resolved(request) = {} THEN {None} ELSE Resolved(request)
    /\ step' = "ledger"
    /\ UNCHANGED <<request, credited, ledger, toScan, merged, broken>>

\* linkedLower and the wallets of the ticket.
ScanWallets ==
    request.wallets \cup (IF linked = None THEN {} ELSE {WalletOf[linked]} \ {None})

ReadsLedger ==
    /\ step = "ledger"
    /\ ledger' = {x \in Chain : linked # None /\ credited[x] = linked}
    /\ toScan' = ScanWallets
    /\ step' = "chain"
    /\ UNCHANGED <<request, linked, credited, merged, broken>>

\* The explorer has, or has not yet, the latest transactions of the wallet.
AsksExplorer ==
    \E w \in toScan :
        /\ step = "chain"
        /\ toScan' = toScan \ {w}
        /\ \/ merged' = merged \cup {x \in Chain : w \in {x.from, x.to}} /\ UNCHANGED broken
           \/ MayFail /\ broken' = broken \cup {w} /\ UNCHANGED merged
        /\ UNCHANGED <<request, step, linked, credited, ledger>>

\* The answer is put together in one go.
AnalysisAnswered ==
    /\ step = "chain" /\ toScan = {}
    /\ step' = "done"
    /\ UNCHANGED <<request, linked, credited, ledger, toScan, merged, broken>>

\* The scanner, a resync or another administrator.
Credits ==
    \E x \in Chain, p \in Players :
        /\ credited[x] = None /\ x.to = "game" /\ x.worth
        /\ credited' = [credited EXCEPT ![x] = p]
        /\ UNCHANGED <<request, step, linked, ledger, toScan, merged, broken>>

Analyses ==
    /\ step = "done"
    /\ step' = "resolve" /\ linked' = None /\ ledger' = {} /\ merged' = {} /\ broken' = {}
    /\ UNCHANGED <<request, credited, toScan>>

ForensicsNext == ResolvesUser \/ ReadsLedger \/ AsksExplorer \/ AnalysisAnswered \/ Credits \/ Analyses

ForensicsSpec == ForensicsInit /\ [][ForensicsNext]_forensicsVars

-----------------------------------------------------------------------------
\* What the answer shows: deposits to the game, which of them are inLedger,
\* and a sample of the rest.

onChainDepositsToGame == {x \in merged : x.to = "game" /\ x.from \in ScanWallets /\ x.worth}

inLedger == onChainDepositsToGame \cap ledger

\* Slip: the sample has the deposits, too.
SampleOfAll == {x \in merged : x.from \in ScanWallets \/ x.to \in ScanWallets}

chainSample ==
    {x \in merged : ~(x.from \in ScanWallets /\ x.to = "game")
                    /\ (x.from \in ScanWallets \/ x.to \in ScanWallets)}

-----------------------------------------------------------------------------
(* Properties.                                                              *)

\* Type correctness of the analysis.
ForensicsTypeOK ==
    /\ step \in {"resolve", "ledger", "chain", "done"} /\ linked \in Players \cup {None}
    /\ credited \in [Chain -> Players \cup {None}]
    /\ ledger \subseteq Chain /\ merged \subseteq Chain /\ toScan \cup broken \subseteq Wallets

\* Everything that was found is shown in one place only, except that a transfer
\* of nothing to the game is shown nowhere.
EachIsShownOnce ==
    step = "done" =>
        /\ onChainDepositsToGame \cap chainSample = {}
        /\ merged = onChainDepositsToGame \cup chainSample
                    \cup {x \in merged : x.to = "game" /\ ~x.worth}

\* Every deposit from the account's wallet is shown unless the explorer failed
\* for that wallet, and what is shown as credited is credited to the account.
DepositsAreShown ==
    (step = "done" /\ linked # None) =>
        \A x \in Chain : (x.to = "game" /\ x.worth /\ x.from = WalletOf[linked]) =>
            /\ x \in onChainDepositsToGame \/ x.from \in broken
            /\ x \in inLedger => credited[x] = linked
=============================================================================
