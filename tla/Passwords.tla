----------------------------- MODULE Passwords -----------------------------
(***************************************************************************)
(* The password of one account: logins read the account and compare what    *)
(* was typed with the hash they have read; the user's own change compares    *)
(* too, and then writes; resets with a token from a mail, and those of an    *)
(* administrator, write without comparing.  Hashing takes long, and nothing  *)
(* holds the row meanwhile.  Signed tokens are kept nowhere: a reset token   *)
(* is good until it expires, and a session stays whatever the password.      *)
(***************************************************************************)
EXTENDS Requests

CONSTANTS
    Words       \* passwords

ASSUME PasswordsAssumption == Words # {} /\ None \notin Words

VARIABLES
    password,   \* the hash in the row
    disabled,   \* isBanned
    secondFactor,   \* isTwoFactorEnabled
    mailed,     \* whether a reset token is mailed and has not expired
    pcall,      \* progress of each request
    proved      \* whether a request was justified at a moment since it began

passwordsVars == <<password, disabled, secondFactor, mailed, pcall, proved>>

\* typed: the password typed to prove who it is; new: the one to be set;
\* row: the account as read; code: whether a valid 2FA code is typed.
PCall(pc, op, typed, new, row, code) ==
    [pc |-> pc, op |-> op, typed |-> typed, new |-> new, row |-> row, code |-> code]

Row == [word |-> password, open |-> ~disabled, second |-> secondFactor]
\* The rows that nothing is compared with are left out.
NoRow == [word |-> None, open |-> FALSE, second |-> FALSE]
RowFor(op) == IF op \in {"login", "change"} THEN Row ELSE NoRow
PIdle == PCall("idle", "none", None, None, NoRow, FALSE)

PasswordsInit ==
    /\ password \in Words
    /\ disabled = FALSE
    /\ secondFactor = FALSE
    /\ mailed = FALSE
    /\ pcall = [c \in Calls |-> PIdle]
    /\ proved = [c \in Calls |-> FALSE]

\* What a login, or a user's own change, should find in one row.
Justifies(row, q) ==
    /\ q.typed = row.word
    /\ q.op = "login" => row.open /\ (row.second => q.code)

\* Every step is a moment of the requests in flight.
Continues(c, q) ==
    /\ pcall' = [pcall EXCEPT ![c] = q]
    /\ proved' = [d \in Calls |->
                     /\ pcall'[d].pc # "idle"
                     /\ proved[d] \/ Justifies(Row', pcall'[d])]

TokenExpires ==
    /\ mailed
    /\ mailed' = FALSE
    /\ UNCHANGED <<password, disabled, secondFactor, pcall, proved>>

\* An administrator disables the account or opens it again; the user turns
\* the second factor on or off.
AccountChanges(c) ==
    /\ \/ disabled' = ~disabled /\ UNCHANGED secondFactor
       \/ secondFactor' = ~secondFactor /\ UNCHANGED disabled
    /\ UNCHANGED <<password, mailed>>
    /\ Continues(c, pcall[c])

Begins(c) ==
    \E op \in {"login", "change", "reset", "force", "forgot"}, typed, new \in Words \cup {None},
       code \in BOOLEAN :
        /\ pcall[c].pc = "idle"
        /\ op = "forgot" <=> new = None
        /\ typed = None => new = None
        /\ op # "login" => ~code
        /\ op # "change" => typed = new
        /\ op = "reset" => mailed
        /\ UNCHANGED <<password, disabled, secondFactor, mailed>>
        /\ Continues(c, PCall("begun", op, typed, new, NoRow, code))

\* Only a user's own change needs a session, which is none for a disabled account.
requireAuth(q) == q.op = "change" => ~disabled

\* findUserByIdentifier, or requireAuth and the query of the handler.
FindsAccount(c) ==
    LET q == pcall[c] IN
    /\ q.pc = "begun"
    /\ UNCHANGED <<password, disabled, secondFactor, mailed>>
    /\ Continues(c, IF requireAuth(q) THEN [q EXCEPT !.pc = "found", !.row = RowFor(q.op)]
                     ELSE PIdle)

\* Slip: only the hash is the one that was read.
AdmittedNow(q) == q.typed = q.row.word /\ ~disabled /\ (secondFactor => q.code)

Admitted(q) == q.typed = q.row.word /\ q.row.open /\ (q.row.second => q.code)

\* bcrypt.compare with the hash as read, then what else a login asks for.
Compares(c) ==
    LET q == pcall[c]
        passes == CASE q.op = "login" -> Admitted(q)
                    [] q.op = "change" -> q.typed = q.row.word
                    [] OTHER -> TRUE
    IN  /\ q.pc = "found"
        /\ UNCHANGED <<password, disabled, secondFactor, mailed>>
        /\ Continues(c, IF passes THEN [q EXCEPT !.pc = "passed", !.row = NoRow] ELSE PIdle)

\* The login's meta row and audit row.
LoginIsStored(c) ==
    /\ pcall[c].pc = "passed" /\ pcall[c].op = "login"
    /\ UNCHANGED <<password, disabled, secondFactor, mailed>>
    /\ Continues(c, [pcall[c] EXCEPT !.pc = "stored"])

\* The refresh token's row, tried five times, and then the cookies.
issueAccessAndRefreshTokens(c) ==
    /\ pcall[c].pc = "stored"
    /\ UNCHANGED <<password, disabled, secondFactor, mailed>>
    /\ Continues(c, PIdle)

\* A token is signed and mailed; without SMTP it is in the answer.
forgotPassword(c) ==
    /\ pcall[c].pc = "passed" /\ pcall[c].op = "forgot"
    /\ mailed' = TRUE
    /\ UNCHANGED <<password, disabled, secondFactor>>
    /\ Continues(c, PIdle)

\* The new password is hashed and written, whatever the row is by now.
SetsPassword(c) ==
    LET q == pcall[c] IN
    /\ q.pc = "passed" /\ q.op \in {"change", "reset", "force"}
    /\ password' = q.new
    /\ UNCHANGED <<disabled, secondFactor, mailed>>
    /\ Continues(c, PIdle)

PasswordFails(c) ==
    /\ MayFail
    /\ pcall[c].pc # "idle"
    /\ UNCHANGED <<password, disabled, secondFactor, mailed>>
    /\ Continues(c, PIdle)

PasswordsNext ==
    \/ TokenExpires
    \/ \E c \in Calls :
          \/ AccountChanges(c) \/ Begins(c) \/ FindsAccount(c) \/ Compares(c)
          \/ LoginIsStored(c) \/ issueAccessAndRefreshTokens(c) \/ forgotPassword(c)
          \/ SetsPassword(c) \/ PasswordFails(c)

PasswordsSpec == PasswordsInit /\ [][PasswordsNext]_passwordsVars

-----------------------------------------------------------------------------
(* Properties.                                                              *)

\* Type correctness of the account and the requests.
PasswordsTypeOK ==
    /\ password \in Words
    /\ {disabled, secondFactor, mailed} \subseteq BOOLEAN
    /\ \A c \in Calls : pcall[c].typed \in Words \cup {None} /\ pcall[c].new \in Words \cup {None}

\* A login that got past its checks was justified at one moment since it
\* began: at that moment its password was the account's, the account was open,
\* and it gave a code if one was asked for.  A user's own change likewise knew
\* the password of one moment since it began.
ChecksHeldAtOnce ==
    \A c \in Calls : LET q == pcall[c] IN
        (q.pc = "passed" /\ q.op \in {"login", "change"}) =>
            proved[c]
=============================================================================
