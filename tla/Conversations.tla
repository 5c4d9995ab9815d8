--------------------------- MODULE Conversations ---------------------------
(***************************************************************************)
(* The two conversations a user can have: with the support, and with        *)
(* another user.                                                            *)
(***************************************************************************)
EXTENDS Requests

-----------------------------------------------------------------------------
(***************************************************************************)
(* The customer's support chat: a ticket chosen from the list or opened by  *)
(* the first message, its conversation fetched on a choice, after a message  *)
(* and by a poll, and a draft that stays until its message is answered.      *)
(***************************************************************************)

CONSTANTS
    Chats,          \* the customer's tickets
    MaxMessages     \* bound: messages composed

ASSUME MiniChatAssumption == None \notin Chats \cup 1 .. MaxMessages /\ MaxMessages \in Nat

VARIABLES
    exists,     \* the tickets there are
    stored,     \* the messages stored
    again,      \* the messages stored more than once
    chosen,     \* ticketId, or None
    conv,       \* the ticket whose conversation is shown, or None
    draft,      \* the message being written, or None
    composed,   \* messages written so far
    sending,
    tcall,      \* progress of each request
    haste       \* what happened: fetches "crossed", an answer was "lost", a draft "given" up

chatVars == <<exists, stored, again, chosen, conv, draft, composed, sending, tcall, haste>>

\* ticket, message: as in the closure that sends.
TCall(pc, op, ticket, message) == [pc |-> pc, op |-> op, ticket |-> ticket, message |-> message]

TIdle == TCall("idle", "none", None, None)
Messages == 1 .. MaxMessages

ChatInit ==
    /\ exists = {}
    /\ stored = {}
    /\ again = {}
    /\ chosen = None
    /\ conv = None
    /\ draft = None
    /\ composed = 0
    /\ sending = FALSE
    /\ tcall = [c \in Calls |-> TIdle]
    /\ haste = {}

Fetching == \E c \in Calls : tcall[c].op = "fetch"

\* Request c goes on with a fetch of the conversation of t.
WithFetch(c, t) ==
    /\ tcall' = [tcall EXCEPT ![c] = TCall("sent", "fetch", t, None)]
    /\ haste' = haste \cup (IF \E d \in Calls \ {c} : tcall[d].op = "fetch" THEN {"crossed"} ELSE {})

\* A ticket of the list: its conversation is fetched by the effect.
ChoosesTicket(c) ==
    \E t \in exists :
        /\ tcall[c].pc = "idle"
        /\ t # chosen
        /\ chosen' = t
        /\ conv' = None
        /\ WithFetch(c, t)
        /\ UNCHANGED <<exists, stored, again, draft, composed, sending>>

\* Every fifteen seconds, whether or not the last one is answered.
Polls(c) ==
    /\ tcall[c].pc = "idle"
    /\ chosen # None
    /\ WithFetch(c, chosen)
    /\ UNCHANGED <<exists, stored, again, chosen, conv, draft, composed, sending>>

Composes ==
    /\ composed < MaxMessages
    /\ draft = None \/ sending
    /\ composed' = composed + 1
    /\ draft' = composed + 1
    /\ haste' = haste \cup (IF sending THEN {"given"} ELSE {})
    /\ UNCHANGED <<exists, stored, again, chosen, conv, sending, tcall>>

\* Slip: a second click sends once more.
ClicksAgain == TRUE

NotSendingChat == ~sending

\* createTicket without a chosen ticket, sendReply with one.
Clicks(c, message) ==
    /\ tcall[c].pc = "idle"
    /\ message # None
    /\ NotSendingChat
    /\ sending' = TRUE
    /\ tcall' = [tcall EXCEPT ![c] =
                    TCall("sent", IF chosen = None THEN "create" ELSE "reply", chosen, message)]
    /\ UNCHANGED <<exists, stored, again, chosen, conv, composed, haste>>

\* Slip: the draft is cleared at once.
SendsAndClears(c) == Clicks(c, draft) /\ draft' = None

handleSend(c) == Clicks(c, draft) /\ UNCHANGED draft

ChatServer(c) ==
    LET q == tcall[c]
        Answers(t) == tcall' = [tcall EXCEPT ![c] = TCall("answered", q.op, t, q.message)]
        Stores == stored' = stored \cup {q.message} /\ again' = again \cup ({q.message} \cap stored)
    IN  /\ q.pc = "sent"
        /\ \/ /\ q.op = "fetch"
              /\ Answers(q.ticket)
              /\ UNCHANGED <<exists, stored, again>>
           \/ /\ q.op = "reply"
              /\ Stores
              /\ Answers(q.ticket)
              /\ UNCHANGED exists
           \/ /\ q.op = "create"
              /\ \E t \in Chats \ exists : exists' = exists \cup {t} /\ Answers(t)
              /\ Stores
        /\ UNCHANGED <<chosen, conv, draft, composed, sending, haste>>

ChatFetchAnswered(c) ==
    LET q == tcall[c] IN
    /\ q.pc = "answered" /\ q.op = "fetch"
    /\ conv' = q.ticket
    /\ tcall' = [tcall EXCEPT ![c] = TIdle]
    /\ sending' = (sending /\ q.message = None)
    /\ UNCHANGED <<exists, stored, again, chosen, draft, composed, haste>>

\* The draft is cleared, a new ticket is chosen, and the conversation is
\* fetched; until it is there the chat is still sending.
ChatSendAnswered(c) ==
    LET q == tcall[c] IN
    /\ q.pc = "answered" /\ q.op \in {"create", "reply"}
    /\ draft' = None
    /\ \/ q.op = "create" /\ chosen' = q.ticket /\ conv' = None
       \/ q.op = "reply" /\ UNCHANGED <<chosen, conv>>
    /\ tcall' = [tcall EXCEPT ![c] = TCall("sent", "fetch", q.ticket, q.message)]
    /\ haste' = haste \cup (IF Fetching \/ (q.op = "reply" /\ chosen # q.ticket)
                             THEN {"crossed"} ELSE {})
    /\ UNCHANGED <<exists, stored, again, composed, sending>>

\* A request or its answer is lost: the draft stays, the conversation goes.
ChatLost(c) ==
    LET q == tcall[c] IN
    /\ MayFail
    /\ q.pc # "idle"
    /\ tcall' = [tcall EXCEPT ![c] = TIdle]
    /\ conv' = IF q.op = "fetch" THEN None ELSE conv
    /\ sending' = (sending /\ q.message = None)
    /\ haste' = haste \cup (IF q.pc = "answered" /\ q.op # "fetch" THEN {"lost"} ELSE {})
    /\ UNCHANGED <<exists, stored, again, chosen, draft, composed>>

resetConversation ==
    /\ chosen' = None
    /\ conv' = None
    /\ draft' = None
    /\ haste' = haste \cup {"given"}
    /\ UNCHANGED <<exists, stored, again, composed, sending, tcall>>

ChatNext ==
    \/ Composes \/ resetConversation
    \/ \E c \in Calls :
          \/ ChoosesTicket(c) \/ Polls(c) \/ handleSend(c) \/ ChatServer(c)
          \/ ChatFetchAnswered(c) \/ ChatSendAnswered(c) \/ ChatLost(c)

ChatSpec == ChatInit /\ [][ChatNext]_chatVars

-----------------------------------------------------------------------------
(* Properties.                                                              *)

\* Type correctness of the tickets and the chat.
ChatTypeOK ==
    /\ exists \subseteq Chats /\ stored \subseteq Messages /\ again \subseteq stored
    /\ {chosen, conv} \subseteq Chats \cup {None}
    /\ draft \in Messages \cup {None} /\ composed \in 0 .. MaxMessages
    /\ sending \in BOOLEAN /\ DOMAIN tcall = Calls
    /\ haste \subseteq {"crossed", "lost", "given"}

\* A message is stored once, however often the button is clicked, unless an
\* answer was lost and the customer sends the draft once more.
SentOnce == "lost" \in haste \/ again = {}

\* A message is stored, being sent, or still in the box to be sent again,
\* unless the customer wrote on while it was sent or gave it up.
NothingVanishes == "given" \in haste \/ 1 .. composed \subseteq stored \cup {draft}

\* The conversation shown is the one a reply goes to, unless fetches crossed
\* or the customer turned to another meanwhile.
ConvOfChosen == haste \cap {"crossed", "given"} # {} \/ conv \in {None, chosen}

-----------------------------------------------------------------------------
(***************************************************************************)
(* The private messages of one user.  A message is a row, then an event to   *)
(* the sockets of both; the page fetches the conversation when it is chosen, *)
(* when an event is about it and when a message of its own is answered, and  *)
(* shows the answer that came last.  That a fetch also marks the messages as  *)
(* read is left out: nothing looks at the mark.                              *)
(***************************************************************************)

CONSTANTS
    Partners,
    PageSize,   \* messages of a conversation that are returned: 50
    MaxPrivate  \* bound on the messages of a conversation

ASSUME PrivateChatAssumption == None \notin Partners /\ {PageSize, MaxPrivate} \subseteq Nat

VARIABLES
    rows,       \* how many messages each conversation has
    due,        \* what is on its way to the page: <<partner, "event" or "answer">>
    active,     \* activePrivateUser
    page,       \* privateMessages: the first `upTo` messages of `of`
    fetches,    \* progress of each fetch
    luck        \* "bad" once something was missed, overtaken or answered elsewhere

privateVars == <<rows, due, active, page, fetches, luck>>

View(of, upTo) == [of |-> of, upTo |-> upTo]

\* older: the fetches that were in flight when this one was sent; late:
\* whether one that was sent after it has been answered.
Fetch(pc, of, upTo, older, late) ==
    [pc |-> pc, of |-> of, upTo |-> upTo, older |-> older, late |-> late]
NoFetch == Fetch("idle", None, 0, {}, FALSE)

PrivateInit ==
    /\ rows = [p \in Partners |-> 0]
    /\ due = {}
    /\ active = None
    /\ page = View(None, 0)
    /\ fetches = [c \in Calls |-> NoFetch]
    /\ luck = "none"

InFlight == {c \in Calls : fetches[c].pc # "idle"}
OnePage(n) == IF n < PageSize THEN n ELSE PageSize

\* fetchPrivateMessages, while a call is free.
fetchPrivateMessages(p) ==
    \E c \in Calls \ InFlight : fetches' = [fetches EXCEPT ![c] = Fetch("sent", p, 0, InFlight, FALSE)]

setActivePrivateUser ==
    \E p \in Partners :
        /\ active' = p
        /\ fetchPrivateMessages(p)
        /\ luck' = IF InFlight = {} /\ due = {} THEN "none" ELSE luck
        /\ UNCHANGED <<rows, due, page>>

clearActivePrivateUser ==
    /\ active # None
    /\ active' = None
    /\ UNCHANGED <<rows, due, page, fetches, luck>>

\* sendPrivateMessage: of the user, who is answered, or of the partner.
sendPrivateMessage ==
    \E p \in Partners, mine \in BOOLEAN :
        /\ rows[p] < MaxPrivate
        /\ mine => active = p
        /\ rows' = [rows EXCEPT ![p] = @ + 1]
        /\ due' = due \cup {<<p, "event">>} \cup (IF mine THEN {<<p, "answer">>} ELSE {})
        /\ UNCHANGED <<active, page, fetches, luck>>

\* Slip: the events of the open conversation are the ones left alone.
FetchesForOthers(p) == active \notin {None, p}

FetchesFor(p) == active = p

\* chat:new-pm
EventArrives ==
    \E p \in Partners :
        /\ <<p, "event">> \in due
        /\ due' = due \ {<<p, "event">>}
        /\ IF FetchesFor(p) THEN fetchPrivateMessages(p) ELSE UNCHANGED fetches
        /\ UNCHANGED <<rows, active, page, luck>>

\* The store's sendPrivateMessage goes on, whoever is active by now.
SendAnswered ==
    \E p \in Partners :
        /\ <<p, "answer">> \in due
        /\ due' = due \ {<<p, "answer">>}
        /\ fetchPrivateMessages(p)
        /\ luck' = IF active = p THEN luck ELSE "bad"
        /\ UNCHANGED <<rows, active, page>>

\* The socket is down when the event is emitted, or the answer is lost.
Missed ==
    /\ MayFail
    /\ \E d \in due : due' = due \ {d}
    /\ luck' = "bad"
    /\ UNCHANGED <<rows, active, page, fetches>>

\* getPrivateMessages: the oldest of the conversation, whatever its length.
ReadsRows(c) ==
    LET q == fetches[c] IN
    /\ q.pc = "sent"
    /\ fetches' = [fetches EXCEPT ![c].pc = "answered", ![c].upTo = OnePage(rows[q.of])]
    /\ UNCHANGED <<rows, due, active, page, luck>>

\* What the end of c's fetch changes in the others.
Ends(c, answered) ==
    [d \in Calls |->
        IF d = c THEN NoFetch
        ELSE [fetches[d] EXCEPT !.older = @ \ {c}, !.late = @ \/ (answered /\ d \in fetches[c].older)]]

\* The answer replaces the page, whoever is active by now.
FetchAnswered(c) ==
    LET q == fetches[c] IN
    /\ q.pc = "answered"
    /\ page' = View(q.of, q.upTo)
    /\ fetches' = Ends(c, TRUE)
    /\ luck' = IF q.late THEN "bad" ELSE luck
    /\ UNCHANGED <<rows, due, active>>

FetchFails(c) ==
    /\ MayFail
    /\ c \in InFlight
    /\ fetches' = Ends(c, FALSE)
    /\ luck' = "bad"
    /\ UNCHANGED <<rows, due, active, page>>

PrivateNext ==
    \/ setActivePrivateUser \/ clearActivePrivateUser \/ sendPrivateMessage
    \/ EventArrives \/ SendAnswered \/ Missed
    \/ \E c \in Calls : ReadsRows(c) \/ FetchAnswered(c) \/ FetchFails(c)

PrivateSpec == PrivateInit /\ [][PrivateNext]_privateVars

-----------------------------------------------------------------------------
(* Properties.                                                              *)

\* Type correctness of the conversations and the page.
PrivateTypeOK ==
    /\ \A p \in Partners : rows[p] \in 0 .. MaxPrivate
    /\ due \subseteq Partners \X {"event", "answer"} /\ active \in {None} \cup Partners
    /\ page.of \in {None} \cup Partners /\ page.upTo \in 0 .. PageSize
    /\ \A c \in Calls : fetches[c].of \in {None} \cup Partners /\ fetches[c].older \subseteq InFlight
    /\ luck \in {"none", "bad"}

\* With nothing due, the page shows the conversation that is open, up to its
\* last message or the page's limit, unless an event or an answer was missed, a
\* fetch was overtaken by a later one, or a message was answered after the user
\* had left its conversation; opening a conversation mends it.
ConversationIsShown ==
    (due = {} /\ InFlight = {} /\ luck = "none" /\ active # None) =>
        page = View(active, OnePage(rows[active]))
=============================================================================
