------------------------------ MODULE Accounts ------------------------------
(***************************************************************************)
(* Registration: the count of the connection's accounts, the search for an  *)
(* account of that name or email, and the hash each await, and the          *)
(* transaction that creates the account repeats none of the checks: only    *)
(* the table's unique columns do.  The welcome machine's catalogue row is    *)
(* made by the first registration, outside its transaction.                 *)
(***************************************************************************)
EXTENDS Requests

CONSTANTS
    Spellings,  \* user names and emails as they are typed
    Fold,       \* what a spelling is when case is ignored
    Forms,      \* what is typed: <<user name, email>>
    Ips,
    Limit,      \* accounts per connection: 5
    MaxAccounts \* bound

ASSUME AccountsAssumption ==
    /\ Fold \in [Spellings -> Spellings] /\ \A s \in Spellings : Fold[Fold[s]] = Fold[s]
    /\ Forms \subseteq Spellings \X Spellings
    /\ {Limit, MaxAccounts} \subseteq Nat

VARIABLES
    users,      \* the accounts: [id, username, email, ip, by]
    welcome,    \* whether the catalogue has the welcome machine
    acall,      \* progress of each request
    crossed,    \* whether registrations were in flight together
    moved       \* whether a login has overwritten an account's ip

accountsVars == <<users, welcome, acall, crossed, moved>>

\* by: the account whose code is used, or None.
Account(id, username, email, ip, by) ==
    [id |-> id, username |-> username, email |-> email, ip |-> ip, by |-> by]

NoAccount == Account(None, None, None, None, None)

Registration(pc, user) == [pc |-> pc, user |-> user]
NoRegistration == Registration("idle", NoAccount)

AccountsInit ==
    /\ users = {}
    /\ welcome = FALSE
    /\ acall = [c \in Calls |-> NoRegistration]
    /\ crossed = FALSE
    /\ moved = FALSE

Registers(c, q) == acall' = [acall EXCEPT ![c] = q]

\* Slip: the email is stored as it was typed.
AsTyped(email) == email

normalizeEmail(email) == Fold[email]

AccountsOf(ip) == {u \in users : u.ip = ip}

\* Slip: one account more than the limit.
RoomOrOne(ip) == Cardinality(AccountsOf(ip)) <= Limit

HasRoom(ip) == Cardinality(AccountsOf(ip)) < Limit

register(c) ==
    \E form \in Forms, ip \in Ips, by \in {None} \cup {u.id : u \in users} :
        /\ acall[c].pc = "idle"
        /\ Registers(c, IF HasRoom(ip)
                        THEN Registration("counted", Account(None, form[1], normalizeEmail(form[2]), ip, by))
                        ELSE NoRegistration)
        /\ crossed' = (crossed \/ \E d \in Calls : acall[d].pc # "idle")
        /\ UNCHANGED <<users, welcome, moved>>

\* Slip: names are compared as they are spelled.
SameSpelling(a, b) == a = b

SameName(a, b) == Fold[a] = Fold[b]

\* The column name holds the user name as well.
FindsExisting(c) ==
    LET new == acall[c].user IN
    /\ acall[c].pc = "counted"
    /\ Registers(c, IF \E u \in users :
                           SameName(u.email, new.email) \/ SameName(u.username, new.username)
                    THEN NoRegistration
                    ELSE Registration("new", new))
    /\ UNCHANGED <<users, welcome, crossed, moved>>

\* The password is hashed, a free code is drawn, and the referrer is looked
\* up: one on the same connection does not count.
FindsReferrer(c) ==
    LET new == acall[c].user
        counts == \E u \in users : u.id = new.by /\ u.ip # new.ip
    IN  /\ acall[c].pc = "new"
        /\ Registers(c, Registration("referred", [new EXCEPT !.by = IF counts THEN @ ELSE None]))
        /\ UNCHANGED <<users, welcome, crossed, moved>>

\* The rows whose unique columns an insert would repeat: committed, or
\* inserted by a transaction still open.
Taken(new) == {u \in users : u.username = new.username \/ u.email = new.email}

Blocking(new, c) ==
    {d \in Calls \ {c} :
        /\ acall[d].pc \in {"inserted", "missing", "ready"}
        /\ acall[d].user.username = new.username \/ acall[d].user.email = new.email}

\* The insert waits for another's transaction and throws on a repeated column.
InsertsAccount(c) ==
    LET new == acall[c].user IN
    /\ acall[c].pc = "referred"
    /\ Cardinality(users) + Cardinality({d \in Calls : acall[d].pc \in {"inserted", "missing", "ready"}})
           < MaxAccounts
    /\ Blocking(new, c) = {}
    /\ Registers(c, IF Taken(new) = {} THEN Registration("inserted", new) ELSE NoRegistration)
    /\ UNCHANGED <<users, welcome, crossed, moved>>

\* ensureWelcomeMiner uses a connection of its own: it finds the row, or it
\* creates it and throws if another has created it meanwhile.
FindsWelcomeMiner(c) ==
    /\ acall[c].pc = "inserted"
    /\ Registers(c, Registration(IF welcome THEN "ready" ELSE "missing", acall[c].user))
    /\ UNCHANGED <<users, welcome, crossed, moved>>

ensureWelcomeMiner(c) ==
    /\ acall[c].pc = "missing"
    /\ welcome' = TRUE
    /\ Registers(c, IF welcome THEN NoRegistration ELSE Registration("ready", acall[c].user))
    /\ UNCHANGED <<users, crossed, moved>>

\* The account, its referral, its welcome machine and the audit row.
RegisterCommits(c) ==
    LET id == Cardinality(users) + 1 IN
    /\ acall[c].pc = "ready"
    /\ users' = users \cup {[acall[c].user EXCEPT !.id = id]}
    /\ Registers(c, NoRegistration)
    /\ UNCHANGED <<welcome, crossed, moved>>

\* A statement throws, and an open transaction is rolled back.
RegisterFails(c) ==
    /\ MayFail
    /\ acall[c].pc # "idle"
    /\ Registers(c, NoRegistration)
    /\ UNCHANGED <<users, welcome, crossed, moved>>

\* A login stores the ip it came from.
StoresLoginIp ==
    \E u \in users, ip \in Ips :
        /\ ip # u.ip
        /\ users' = (users \ {u}) \cup {[u EXCEPT !.ip = ip]}
        /\ moved' = TRUE
        /\ UNCHANGED <<welcome, acall, crossed>>

AccountsNext ==
    \/ \E c \in Calls :
          \/ register(c) \/ FindsExisting(c) \/ FindsReferrer(c) \/ InsertsAccount(c)
          \/ FindsWelcomeMiner(c) \/ ensureWelcomeMiner(c)
          \/ RegisterCommits(c) \/ RegisterFails(c)
    \/ StoresLoginIp

AccountsSpec == AccountsInit /\ [][AccountsNext]_accountsVars

-----------------------------------------------------------------------------
(* Properties.                                                              *)

\* Type correctness of the table and the requests.
AccountsTypeOK ==
    /\ \A u \in users :
          /\ u.id \in 1 .. MaxAccounts /\ u.by \in {None} \cup 1 .. MaxAccounts
          /\ {u.username, u.email} \subseteq Spellings /\ u.ip \in Ips
    /\ welcome \in BOOLEAN /\ crossed \in BOOLEAN /\ moved \in BOOLEAN
    /\ DOMAIN acall = Calls

\* No two accounts have one email, whatever its case and however their
\* registrations overlap: the search for an existing account does not see one
\* in the making, and the unique column is case-sensitive.
EmailsAreDistinct ==
    \A u, v \in users : Fold[u.email] = Fold[v.email] => u.id = v.id

\* No two accounts have one user name in different cases, unless their
\* registrations overlapped: a login finds the account of a name in any case.
NamesAreDistinct ==
    crossed \/ \A u, v \in users : Fold[u.username] = Fold[v.username] => u.id = v.id

\* A connection has at most Limit accounts ("max 5 for families/roommates"),
\* unless registrations overlapped or a login moved an account to it.
RegistrationsAreLimited ==
    crossed \/ moved \/ \A ip \in Ips : Cardinality(AccountsOf(ip)) <= Limit

\* Who is referred was registered after its referrer, so referrals have no
\* cycle; and each account has the welcome machine of the catalogue.
ReferralsAreOrdered ==
    /\ \A u \in users : u.by # None => u.by < u.id
    /\ users # {} => welcome
=============================================================================
