------------------------------ MODULE Sessions ------------------------------
(***************************************************************************)
(* A tab's idea of who is logged in, and the cookie that decides it.  The   *)
(* cookie changes when an answer arrives; the tab's store when the page's    *)
(* code goes on.  Pages keep the two in step by what they let a user do      *)
(* meanwhile: nothing is shown while the store is loading, the login page    *)
(* only to who is not logged in, the logout button only to who is.          *)
(***************************************************************************)
EXTENDS Requests

CONSTANTS
    People,     \* the accounts that use this browser
    Retries     \* of the check after a login

ASSUME SessionsAssumption == None \notin People /\ Retries \in Nat

VARIABLES
    cookie,     \* the account of the access cookie, or None
    banned,     \* the accounts an administrator has disabled
    store,      \* the tab: [user, loading]
    scall,      \* progress of each of the tab's requests
    hidden      \* what the tab cannot know of: "none", or why it may be behind

sessionsVars == <<cookie, banned, store, scall, hidden>>

Store(user, loading) == [user |-> user, loading |-> loading]

\* who: the account that logs in, or of the cookie a check is sent with;
\* left: attempts left of the check that follows a login, a "recheck".
SCall(pc, op, who, left) == [pc |-> pc, op |-> op, who |-> who, left |-> left]
SIdle == SCall("idle", "none", None, 0)

\* The page loads: checkSession runs, not silent.
Loading ==
    [c \in Calls |->
        IF c = CHOOSE d \in Calls : TRUE THEN SCall("sent", "check", cookie, 0) ELSE SIdle]

SessionsInit ==
    /\ cookie \in {None} \cup People
    /\ banned = {}
    /\ store = Store(None, TRUE)
    /\ scall = Loading
    /\ hidden = "none"

Proceeds(c, q) == scall' = [scall EXCEPT ![c] = q]
Busy == \E c \in Calls : scall[c].pc # "idle"
IsCheck(op) == op \in {"check", "recheck"}

\* Slip: the buttons are there while the store is loading, too.
ShownAnyway == TRUE

Shown == ~store.loading

\* Sends a request.  The login page and the logout button stay usable while
\* their own requests are in flight.
Sends(c, q) ==
    /\ scall[c].pc = "idle"
    /\ Shown
    /\ Proceeds(c, q)
    /\ hidden' = IF \E d \in Calls : scall[d].op \in {"login", "recheck", "logout"}
                 THEN "crossed" ELSE hidden

\* Login.jsx's handleSubmit posts without the store.
login(c) ==
    \E p \in People :
        /\ store.user = None
        /\ Sends(c, SCall("sent", "login", p, 0))
        /\ UNCHANGED <<cookie, banned, store>>

\* The store's register and login: isLoading unmounts the pages meanwhile.
registerSession(c) ==
    \E p \in People :
        /\ store.user = None
        /\ Sends(c, SCall("sent", "register", p, 0))
        /\ store' = Store(store.user, TRUE)
        /\ UNCHANGED <<cookie, banned>>

logout(c) ==
    /\ store.user # None
    /\ Sends(c, SCall("sent", "logout", None, 0))
    /\ UNCHANGED <<cookie, banned, store>>

\* /auth/session answers with the cookie's account, or 401.
ServerAnswers(c) ==
    LET q == scall[c]
        admitted == q.who \notin banned
    IN  /\ q.pc = "sent"
        /\ \/ /\ IsCheck(q.op)
              /\ Proceeds(c, SCall("answered", q.op, IF admitted THEN q.who ELSE None, q.left))
           \/ /\ q.op \in {"login", "register"} /\ admitted
              /\ Proceeds(c, SCall("answered", q.op, q.who, 0))
           \/ /\ q.op \in {"login", "register"}    \* refused, for one reason or another
              /\ Proceeds(c, SCall("failed", q.op, None, 0))
           \/ /\ q.op = "logout"
              /\ Proceeds(c, SCall("answered", "logout", None, 0))
        /\ UNCHANGED <<cookie, banned, store, hidden>>

\* The answer reaches the browser, which keeps the cookies it sets.
Arrives(c) ==
    LET q == scall[c] IN
    /\ q.pc = "answered"
    /\ cookie' = IF IsCheck(q.op) THEN cookie ELSE q.who
    /\ Proceeds(c, [q EXCEPT !.pc = "arrived"])
    /\ UNCHANGED <<banned, store, hidden>>

\* The request or its answer is lost: what it set with it.
Lost(c) ==
    LET q == scall[c] IN
    /\ MayFail
    /\ q.pc \in {"sent", "answered"}
    /\ Proceeds(c, SCall("failed", q.op, None, q.left))
    /\ hidden' = IF q.op = "logout" \/ IsCheck(q.op) THEN "lost" ELSE hidden
    /\ UNCHANGED <<cookie, banned, store>>

\* checkSession: after a failure or a 401 it tries again, and gives up; the
\* one after a login is silent and leaves isLoading as it is.
ChecksAgain(c) ==
    LET q == scall[c]
        found == q.pc = "arrived" /\ q.who # None
    IN  /\ IsCheck(q.op) /\ q.pc \in {"arrived", "failed"}
        /\ \/ /\ found
              /\ store' = Store(q.who, FALSE)
              /\ Proceeds(c, SIdle)
           \/ /\ ~found /\ q.left > 0
              /\ Proceeds(c, SCall("sent", q.op, cookie, q.left - 1))
              /\ UNCHANGED store
           \/ /\ ~found /\ q.left = 0
              /\ store' = Store(None, q.op = "recheck" /\ store.loading)
              /\ Proceeds(c, SIdle)
        /\ UNCHANGED <<cookie, banned, hidden>>

\* Login.jsx: an ok answer is followed by a silent check.
LoginGoesOn(c) ==
    LET q == scall[c] IN
    /\ q.op = "login" /\ q.pc \in {"arrived", "failed"}
    /\ Proceeds(c, IF q.pc = "arrived" THEN SCall("sent", "recheck", cookie, Retries) ELSE SIdle)
    /\ UNCHANGED <<cookie, banned, store, hidden>>

RegisterGoesOn(c) ==
    LET q == scall[c] IN
    /\ q.op = "register" /\ q.pc \in {"arrived", "failed"}
    /\ store' = Store(IF q.pc = "arrived" THEN q.who ELSE store.user, FALSE)
    /\ Proceeds(c, SIdle)
    /\ UNCHANGED <<cookie, banned, hidden>>

\* finally: whether or not the server has answered.
LogoutGoesOn(c) ==
    LET q == scall[c] IN
    /\ q.op = "logout" /\ q.pc \in {"arrived", "failed"}
    /\ store' = Store(None, store.loading)
    /\ Proceeds(c, SIdle)
    /\ UNCHANGED <<cookie, banned, hidden>>

\* Another tab logs in or out, the cookie expires, or the account is disabled.
Elsewhere ==
    /\ \/ cookie' \in ({None} \cup People) \ {cookie} /\ UNCHANGED banned
       \/ banned' \in SUBSET People \ {banned} /\ UNCHANGED cookie
    /\ hidden' = "elsewhere"
    /\ UNCHANGED <<store, scall>>

\* The page is loaded anew, and forgets its requests; what they still do to
\* the cookie is done "elsewhere".
Reloads ==
    /\ store' = Store(None, TRUE)
    /\ scall' = Loading
    /\ hidden' = IF Busy THEN "lost" ELSE "none"
    /\ UNCHANGED <<cookie, banned>>

SessionsNext ==
    \/ Elsewhere \/ Reloads
    \/ \E c \in Calls :
          \/ login(c) \/ registerSession(c) \/ logout(c) \/ ServerAnswers(c)
          \/ Arrives(c) \/ Lost(c) \/ ChecksAgain(c) \/ LoginGoesOn(c)
          \/ RegisterGoesOn(c) \/ LogoutGoesOn(c)

SessionsSpec == SessionsInit /\ [][SessionsNext]_sessionsVars

-----------------------------------------------------------------------------
(* Properties.                                                              *)

\* Type correctness of the browser and the tab.
SessionsTypeOK ==
    /\ cookie \in {None} \cup People /\ banned \subseteq People
    /\ store.user \in {None} \cup People /\ store.loading \in BOOLEAN
    /\ \A c \in Calls : scall[c].who \in {None} \cup People /\ scall[c].left \in 0 .. Retries
    /\ hidden \in {"none", "crossed", "lost", "elsewhere"}

\* With nothing in flight, the tab shows the account its requests act for,
\* unless the user did two things at once, an answer was lost or something
\* happened elsewhere since the page was loaded.
TabShowsSession ==
    (~Busy /\ hidden = "none") => store = Store(IF cookie \in banned THEN None ELSE cookie, FALSE)

\* The spinner that replaces every page does not stay: something in flight
\* will remove it.
SpinnerEnds == store.loading => \E c \in Calls :
    scall[c].pc # "idle" /\ scall[c].op \in {"check", "register"}
=============================================================================
