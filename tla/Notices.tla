------------------------------ MODULE Notices ------------------------------
(***************************************************************************)
(* The notifications of one user: rows of a table, events pushed to the      *)
(* user's sockets, and the list of the page, which a fetch replaces and an   *)
(* event extends, in the order in which they arrive.                         *)
(***************************************************************************)
EXTENDS Requests, Sequences

CONSTANTS
    Newest,     \* how many a fetch returns: 20
    MaxNotices  \* bound

ASSUME NoticesAssumption == {Newest, MaxNotices} \subseteq Nat /\ None \notin 1 .. MaxNotices

VARIABLES
    made,       \* notifications 1 .. made are rows of the table
    readRows,   \* those whose row is read
    toPush,     \* created, and not yet pushed by the handler that created them
    pushed,     \* events on their way
    joined,     \* whether the user's socket has joined its room
    notices,    \* the page's list, newest first: [id, read]
    ncall,      \* progress of each request
    unlucky     \* "missed": pushed to nobody; "crossed": changed during a request

noticesVars == <<made, readRows, toPush, pushed, joined, notices, ncall, unlucky>>

Notice(id, read) == [id |-> id, read |-> read]
NCall(pc, op, ids, list) == [pc |-> pc, op |-> op, ids |-> ids, list |-> list]
NIdle == NCall("idle", "none", {}, <<>>)

NoticesInit ==
    /\ made = 0
    /\ readRows = {}
    /\ toPush = {}
    /\ pushed = <<>>
    /\ joined = TRUE
    /\ notices = <<>>
    /\ ncall = [c \in Calls |-> NIdle]
    /\ unlucky = {}

Asking == \E c \in Calls : ncall[c].pc # "idle"
Listed(list) == {list[i].id : i \in 1 .. Len(list)}

\* createNotification: the row, and then the event.
createNotification ==
    /\ made < MaxNotices
    /\ made' = made + 1
    /\ toPush' = toPush \cup {made + 1}
    /\ unlucky' = unlucky \cup (IF Asking THEN {"crossed"} ELSE {})
    /\ UNCHANGED <<readRows, pushed, joined, notices, ncall>>

Pushes ==
    \E id \in toPush :
        /\ toPush' = toPush \ {id}
        /\ pushed' = IF joined THEN Append(pushed, id) ELSE pushed
        /\ unlucky' = unlucky \cup (IF joined THEN {} ELSE {"missed"})
        /\ UNCHANGED <<made, readRows, joined, notices, ncall>>

\* The connection breaks, with the events on their way, and comes back: the
\* socket joins its room again, and nothing is fetched.
SocketBreaks ==
    /\ joined' = ~joined
    /\ pushed' = <<>>
    /\ unlucky' = unlucky \cup (IF pushed = <<>> THEN {} ELSE {"missed"})
    /\ UNCHANGED <<made, readRows, toPush, notices, ncall>>

\* notification:new puts it on top of the list.
NoticeArrives ==
    /\ pushed # <<>>
    /\ notices' = <<Notice(Head(pushed), FALSE)>> \o notices
    /\ pushed' = Tail(pushed)
    /\ unlucky' = unlucky \cup (IF Asking THEN {"crossed"} ELSE {})
    /\ UNCHANGED <<made, readRows, toPush, joined, ncall>>

\* A fetch that begins while an event is due may return its row, too.
NAsks(c, q) ==
    /\ ncall[c].pc = "idle"
    /\ ncall' = [ncall EXCEPT ![c] = q]
    /\ unlucky' = unlucky \cup (IF Asking \/ toPush # {} \/ pushed # <<>> THEN {"crossed"} ELSE {})
    /\ UNCHANGED <<made, readRows, toPush, pushed, joined, notices>>

fetchNotifications(c) == NAsks(c, NCall("sent", "fetch", {}, <<>>))

\* One notification of the list, or "all".
markNotificationRead(c) ==
    \/ \E id \in Listed(notices) : NAsks(c, NCall("sent", "mark", {id}, <<>>))
    \/ NAsks(c, NCall("sent", "mark", {None}, <<>>))

NoticeRow(id) == Notice(id, id \in readRows)

\* Slip: the oldest rows.
OldestRows ==
    LET n == IF made < Newest THEN made ELSE Newest IN [i \in 1 .. n |-> NoticeRow(n + 1 - i)]

NewestRows ==
    LET n == IF made < Newest THEN made ELSE Newest IN [i \in 1 .. n |-> NoticeRow(made + 1 - i)]

\* getNotifications and markAsRead.
NoticeServer(c) ==
    LET q == ncall[c]
        marked == IF None \in q.ids THEN 1 .. made ELSE q.ids
    IN  /\ q.pc = "sent"
        /\ readRows' = IF q.op = "mark" THEN readRows \cup marked ELSE readRows
        /\ ncall' = [ncall EXCEPT ![c] =
                        NCall("answered", q.op, q.ids, IF q.op = "fetch" THEN NewestRows ELSE <<>>)]
        /\ UNCHANGED <<made, toPush, pushed, joined, notices, unlucky>>

\* A fetch replaces the list; a mark marks what the list has by now.
NoticeAnswered(c) ==
    LET q == ncall[c]
        Marks(n) == IF None \in q.ids \/ n.id \in q.ids THEN Notice(n.id, TRUE) ELSE n
    IN  /\ q.pc = "answered"
        /\ notices' = IF q.op = "fetch" THEN q.list
                      ELSE [i \in 1 .. Len(notices) |-> Marks(notices[i])]
        /\ ncall' = [ncall EXCEPT ![c] = NIdle]
        /\ UNCHANGED <<made, readRows, toPush, pushed, joined, unlucky>>

NoticeFails(c) ==
    /\ MayFail
    /\ ncall[c].pc # "idle"
    /\ ncall' = [ncall EXCEPT ![c] = NIdle]
    /\ UNCHANGED <<made, readRows, toPush, pushed, joined, notices, unlucky>>

NoticesNext ==
    \/ createNotification \/ Pushes \/ SocketBreaks \/ NoticeArrives
    \/ \E c \in Calls :
          \/ fetchNotifications(c) \/ markNotificationRead(c)
          \/ NoticeServer(c) \/ NoticeAnswered(c) \/ NoticeFails(c)

NoticesSpec == NoticesInit /\ [][NoticesNext]_noticesVars

-----------------------------------------------------------------------------
(* Properties.                                                              *)

\* Type correctness of the table, the events and the list.
NoticesTypeOK ==
    /\ made \in 0 .. MaxNotices
    /\ readRows \subseteq 1 .. made /\ toPush \subseteq 1 .. made
    /\ pushed \in Seq(1 .. made) /\ joined \in BOOLEAN
    /\ notices \in Seq([id : 1 .. made, read : BOOLEAN])
    /\ DOMAIN ncall = Calls /\ unlucky \subseteq {"missed", "crossed"}

\* With nothing due the list has each of the newest notifications once, unless
\* an event was missed or a request crossed a change.
NewestAreShown ==
    (toPush = {} /\ pushed = <<>> /\ ~Asking /\ unlucky = {}) =>
        /\ Cardinality(Listed(notices)) = Len(notices)
        /\ \A id \in 1 .. made : id > made - Newest => id \in Listed(notices)

\* The list never shows as read what the table has as unread, so the bell's
\* count does not come back, unless a notification arrived while all were
\* being marked.
ReadStaysRead ==
    "crossed" \in unlucky \/ \A i \in 1 .. Len(notices) : notices[i].read => notices[i].id \in readRows
=============================================================================
