------------------------------ MODULE Deposits ------------------------------
(***************************************************************************)
(* Crediting POL deposits: walletModel.createDepositRequest, called by the  *)
(* deposit and resync routes and by the deposit scanner, and                *)
(* walletModel.creditPolManualSupportMigration, called by the admin.        *)
(*                                                                          *)
(* Each call is one interactive transaction that holds a connection of the  *)
(* pool, takes the advisory lock of its hash, looks for an earlier deposit, *)
(* verifies the transfer on chain and only then writes.  The notification   *)
(* is written from inside it over a second connection.  The client library  *)
(* gives a transaction five seconds: past them it is rolled back while the  *)
(* handler is still running.                                                *)
(***************************************************************************)
EXTENDS Integers, FiniteSets

CONSTANTS
    Users,
    Wallets,
    Hashes,       \* transfers to the wallets the scanner lists, by normalised hash
    ToHotWallet,  \* those to the hot wallet, not to the deposit address
    Sender,       \* Sender[h]: the wallet that made transfer h
    LockKey,      \* LockKey[h]: the first 16 digits of h (hashToAdvisoryBigInt)
    Handlers,     \* calls in flight at once
    Kinds,        \* who calls: "user", "scan", "admin", "ticket"
    Value,        \* what each transfer is worth, in thousandths
    Claims,       \* amounts that users and admins name
    PoolSize,     \* connections of the pool
    MayFail,      \* whether statements throw and transactions outlive five seconds
    MaySleep,     \* whether behaviours go on past the scanner's 30 minutes
    MaxManual,    \* bound: manual credits
    None

ASSUME DepositsAssumption ==
    /\ Sender \in [Hashes -> Wallets]
    /\ DOMAIN LockKey = Hashes \cup {None}
    /\ Kinds \subseteq {"user", "scan", "admin", "ticket"}
    /\ Value \in Nat \ {0}
    /\ Claims \subseteq Nat \ {0}
    /\ ToHotWallet \subseteq Hashes
    /\ MayFail \in BOOLEAN
    /\ MaySleep \in BOOLEAN
    /\ MaxManual \in Nat
    /\ None \notin Users \cup Wallets \cup Hashes

VARIABLES
    linked,     \* users.wallet_address
    proven,     \* pairs <<user, wallet>> whose ownership was ever verified
    confirmed,  \* transfers deep enough in the chain
    balance,    \* users.pol_balance
    recorded,   \* number of deposit rows with a hash
    rowUser,    \* user of the deposit row with a hash
    credited,   \* what the deposit rows with a hash have added to a balance
    call,       \* progress of each call
    answer,     \* what its caller was told last
    committed,  \* whether that call changed the balance
    notified,   \* pairs <<user, hash>> told "processed and added to your balance"
    manual,     \* manual credits committed
    awake       \* the scanner is within 30 minutes of its activation

ledger == <<balance, recorded, rowUser, credited, manual>>
outside == <<linked, proven, confirmed, awake>>
vars == <<outside, ledger, call, answer, committed, notified>>

ByHand == {"admin", "ticket"}
LockHeld == {"check", "verify", "notify", "commit"}

\* open: the transaction is still running.  again: the manual credit found the
\* hash in the ledger and tops the balance up.
Call(pc, kind, u, h, a, w, again, open) ==
    [pc |-> pc, kind |-> kind, user |-> u, hash |-> h, amount |-> a,
     wallet |-> w, again |-> again, open |-> open]

NoCall == Call("idle", "none", None, None, 0, None, FALSE, FALSE)

CallsOf(kinds, hashes, wallets) ==
    [pc: {"lock", "reply"} \cup LockHeld, kind: kinds, user: Users, hash: hashes,
     amount: Nat, wallet: wallets, again: BOOLEAN, open: BOOLEAN]

Calls ==
    {NoCall} \cup CallsOf(Kinds \ ByHand, Hashes, Wallets)
             \cup CallsOf(Kinds \cap ByHand, Hashes \cup {None}, {None})

\* Handler s as it is, further on.
At(s, pc) ==
    Call(pc, call[s].kind, call[s].user, call[s].hash, call[s].amount,
         call[s].wallet, call[s].again, call[s].open)

Init ==
    /\ linked = [u \in Users |-> None]
    /\ proven = {}
    /\ confirmed = {}
    /\ balance = [u \in Users |-> 0]
    /\ recorded = [h \in Hashes |-> 0]
    /\ rowUser = [h \in Hashes |-> None]
    /\ credited = [h \in Hashes |-> 0]
    /\ call = [s \in Handlers |-> NoCall]
    /\ answer = [s \in Handlers |-> "none"]
    /\ committed = [s \in Handlers |-> FALSE]
    /\ notified = {}
    /\ manual = 0
    /\ awake = TRUE

Open(s) == call[s].pc # "idle" /\ call[s].open
InUse == Cardinality({s \in Handlers : Open(s)})
Free == InUse < PoolSize

Holds(s) == Open(s) /\ call[s].pc \in LockHeld

Goes(s, pc) ==
    /\ call' = [call EXCEPT ![s] = At(s, pc)]
    /\ UNCHANGED <<outside, ledger, answer, committed, notified>>

\* The handler throws: its transaction, if any, leaves nothing behind.
Refuses(s) ==
    /\ call' = [call EXCEPT ![s] = NoCall]
    /\ answer' = [answer EXCEPT ![s] = "error"]
    /\ UNCHANGED <<outside, ledger, committed, notified>>

-----------------------------------------------------------------------------
(* Outside the calls.                                                       *)

\* walletController.updateAddress with a signature of w.
updateAddress(u, w) ==
    /\ linked' = [linked EXCEPT ![u] = w]
    /\ proven' = proven \cup {<<u, w>>}
    /\ UNCHANGED <<confirmed, awake, ledger, call, answer, committed, notified>>

Confirm(h) ==
    /\ confirmed' = confirmed \cup {h}
    /\ h \notin confirmed
    /\ UNCHANGED <<linked, proven, awake, ledger, call, answer, committed, notified>>

\* Thirty minutes after the start: nothing calls wakeUpScanner again.
ScannerSleeps ==
    /\ MaySleep
    /\ awake
    /\ awake' = FALSE
    /\ UNCHANGED <<linked, proven, confirmed, ledger, call, answer, committed, notified>>

-----------------------------------------------------------------------------
(* The call begins: a connection, BEGIN, and the user as read there.        *)

Begin(s, kind, u, h, a, w) ==
    /\ call[s].pc = "idle"
    /\ kind \in Kinds
    /\ Free
    /\ call' = [call EXCEPT ![s] = Call("lock", kind, u, h, a, w, FALSE, TRUE)]
    /\ answer' = [answer EXCEPT ![s] = "none"]
    /\ committed' = [committed EXCEPT ![s] = FALSE]
    /\ UNCHANGED <<outside, ledger, notified>>

\* Slip: an account without a wallet is not refused.
requestDepositUnlinked(s, u, h, a) ==
    /\ a \in Claims \cup {Value}
    /\ Begin(s, "user", u, h, a, linked[u])

\* POST /wallet/deposit names any amount, resync-deposits the value on chain.
requestDeposit(s, u, h, a) ==
    /\ linked[u] # None
    /\ a \in Claims \cup {Value}
    /\ Begin(s, "user", u, h, a, linked[u])

\* depositsCron.scanForNewDeposits at one transfer of its list; the runner
\* keeps a second scan from starting.
scanForNewDeposits(s, u, h) ==
    /\ awake
    /\ \A t \in Handlers : call[t].kind # "scan"
    /\ recorded[h] = 0
    /\ linked[u] = Sender[h]
    /\ Begin(s, "scan", u, h, Value, linked[u])

\* A credit by hand, with a hash or under a generated reference.
creditPolManual(s, kind, u, h, a) ==
    /\ kind \in ByHand
    /\ a \in Claims
    /\ manual + Cardinality({t \in Handlers : call[t].kind \in ByHand}) < MaxManual
    /\ Begin(s, kind, u, h, a, None)

\* From the user's page, and from a [Saldo/POL] ticket.  A ticket's credit
\* without a reply (skipTicketReply) goes on as the former does.
creditUserPolManual(s, u, h, a) == creditPolManual(s, "admin", u, h, a)
creditSupportTicketPol(s, u, h, a) == creditPolManual(s, "ticket", u, h, a)

-----------------------------------------------------------------------------
(* Inside the transaction.                                                  *)

\* Slip: the advisory lock is left out.
LockForgotten(s) ==
    /\ call[s].pc = "lock"
    /\ call[s].open
    /\ Goes(s, "check")

\* pg_advisory_xact_lock blocks while another transaction holds the key.
Lock(s) ==
    /\ call[s].pc = "lock"
    /\ call[s].open
    /\ \A t \in Handlers : Holds(t) => LockKey[call[t].hash] # LockKey[call[s].hash]
    /\ Goes(s, "check")

Duplicate(s) == call[s].hash # None /\ recorded[call[s].hash] > 0

CheckDuplicate(s) ==
    /\ call[s].pc = "check"
    /\ call[s].open
    /\ ~Duplicate(s)
    /\ Goes(s, IF call[s].kind \in ByHand THEN "notify" ELSE "verify")

\* replenishIfDepositExistsForUser: the balance is topped up under a hash
\* that is already in the ledger for the same user.
Replenish(s) ==
    /\ call[s].pc = "check"
    /\ call[s].open
    /\ Duplicate(s)
    /\ call[s].kind \in ByHand
    /\ rowUser[call[s].hash] = call[s].user
    /\ call' = [call EXCEPT ![s] =
                  Call("notify", call[s].kind, call[s].user, call[s].hash,
                       call[s].amount, call[s].wallet, TRUE, call[s].open)]
    /\ UNCHANGED <<outside, ledger, answer, committed, notified>>

\* The hash is taken, or (a credit by hand) replenishing was not asked for or
\* the row is another user's.
RefuseDuplicate(s) ==
    /\ call[s].pc = "check"
    /\ call[s].open
    /\ Duplicate(s)
    /\ Refuses(s)

Enough(c) == Value * 1000 >= c.amount * 999

\* Slip: the sender is not compared with the linked wallet.
SenderIgnored(c) == c.hash \in confirmed /\ c.hash \notin ToHotWallet /\ Enough(c)

\* Slip: the tolerance is given to the wrong side.
ToleranceSwapped(c) ==
    /\ c.hash \in confirmed /\ c.hash \notin ToHotWallet
    /\ Sender[c.hash] = c.wallet
    /\ Value * 999 >= c.amount * 1000

Genuine(c) ==
    /\ c.hash \in confirmed
    /\ c.hash \notin ToHotWallet
    /\ Sender[c.hash] = c.wallet
    /\ Enough(c)

\* The transfer as the explorer or the RPC node reports it.
Verify(s) ==
    /\ call[s].pc = "verify"
    /\ call[s].open
    /\ IF Genuine(call[s]) THEN Goes(s, "notify") ELSE Refuses(s)

\* createNotification, over another connection, outside the transaction; what
\* it throws is swallowed.
Notify(s) ==
    /\ call[s].pc = "notify"
    /\ Free
    /\ notified' = notified \cup {<<call[s].user, call[s].hash>>}
    /\ call' = [call EXCEPT ![s] = At(s, "commit")]
    /\ UNCHANGED <<outside, ledger, answer, committed>>

NotifyFails(s) ==
    /\ call[s].pc = "notify"
    /\ Free
    /\ Goes(s, "commit")

\* Slip: topping the balance up inserts another row for the hash.
NewRowAlways(c) == c.hash # None

\* Slip: the test for a known hash is the wrong way round.
NewRowInverted(c) == c.hash # None /\ c.again

NewRow(c) == c.hash # None /\ ~c.again

\* Slip: every call has something left to do once it has committed.
RepliesAlways(c) == TRUE

RepliesLater(c) == c.kind = "ticket"

\* The row, the increment and the audit entry become visible together.  What
\* is left of a ticket credit is the reply to the ticket.
Commit(s) ==
    LET c == call[s] IN
    /\ c.pc = "commit"
    /\ c.open
    /\ balance' = [balance EXCEPT ![c.user] = @ + c.amount]
    /\ IF NewRow(c)
       THEN /\ recorded' = [recorded EXCEPT ![c.hash] = @ + 1]
            /\ rowUser' = [rowUser EXCEPT ![c.hash] = c.user]
            /\ credited' = [credited EXCEPT ![c.hash] = @ + c.amount]
       ELSE UNCHANGED <<recorded, rowUser, credited>>
    /\ manual' = IF c.kind \in ByHand THEN manual + 1 ELSE manual
    /\ committed' = [committed EXCEPT ![s] = TRUE]
    /\ IF RepliesLater(c)
       THEN /\ call' = [call EXCEPT ![s] = Call("reply", c.kind, c.user, c.hash, c.amount,
                                                c.wallet, c.again, FALSE)]
            /\ UNCHANGED answer
       ELSE /\ call' = [call EXCEPT ![s] = NoCall]
            /\ answer' = [answer EXCEPT ![s] = "ok"]
    /\ UNCHANGED <<outside, notified>>

\* adminSupportController.creditSupportTicketPol: the reply is a transaction
\* of its own, after the credit.
Reply(s) ==
    /\ call[s].pc = "reply"
    /\ call' = [call EXCEPT ![s] = NoCall]
    /\ answer' = [answer EXCEPT ![s] = "ok"]
    /\ UNCHANGED <<outside, ledger, committed, notified>>

ReplyFails(s) ==
    /\ MayFail
    /\ call[s].pc = "reply"
    /\ Refuses(s)

-----------------------------------------------------------------------------
(* Failures.                                                                *)

\* A statement or the commit throws.
StatementFails(s) ==
    /\ MayFail
    /\ call[s].pc \in {"lock", "check", "verify", "commit"}
    /\ call[s].open
    /\ Refuses(s)

\* Slip: the transaction may take as long as it likes.
NeverExpires(s) == FALSE

\* Five seconds are over: rolled back, lock and connection released.
Expires(s) ==
    /\ MayFail
    /\ Open(s)
    /\ call' = [call EXCEPT ![s] =
                  Call(call[s].pc, call[s].kind, call[s].user, call[s].hash,
                       call[s].amount, call[s].wallet, call[s].again, FALSE)]
    /\ UNCHANGED <<outside, ledger, answer, committed, notified>>

\* The next statement of an expired transaction throws.
LateStatement(s) ==
    /\ call[s].pc \in {"lock", "check", "verify", "commit"}
    /\ ~call[s].open
    /\ Refuses(s)

-----------------------------------------------------------------------------
Outside ==
    \/ \E u \in Users, w \in Wallets : updateAddress(u, w)
    \/ \E h \in Hashes : Confirm(h)
    \/ ScannerSleeps

Starts(s) ==
    \E u \in Users :
        \/ \E h \in Hashes, a \in Claims \cup {Value} : requestDeposit(s, u, h, a)
        \/ \E h \in Hashes : scanForNewDeposits(s, u, h)
        \/ \E h \in Hashes \cup {None}, a \in Claims :
              creditUserPolManual(s, u, h, a) \/ creditSupportTicketPol(s, u, h, a)

Proceeds(s) ==
    \/ Lock(s)
    \/ CheckDuplicate(s)
    \/ Replenish(s)
    \/ RefuseDuplicate(s)
    \/ Verify(s)
    \/ Notify(s)
    \/ NotifyFails(s)
    \/ Commit(s)
    \/ Reply(s)
    \/ ReplyFails(s)
    \/ StatementFails(s)
    \/ LateStatement(s)

Next ==
    \/ Outside
    \/ \E s \in Handlers : Starts(s) \/ Proceeds(s) \/ Expires(s)

Spec == Init /\ [][Next]_vars

\* A call runs on as soon as what it waits for is there, a lock is granted in
\* the order of asking, and the timer of a transaction fires.  The scanner starts every minute and
\* each time comes to every transfer of its list.
Fairness ==
    /\ \A s \in Handlers : WF_vars(Proceeds(s))
    /\ \A s \in Handlers : SF_vars(Lock(s))
    /\ \A s \in Handlers : WF_vars(Expires(s))
    /\ \A h \in Hashes : SF_vars(\E s \in Handlers, u \in Users : scanForNewDeposits(s, u, h))

FairSpec == Spec /\ Fairness

-----------------------------------------------------------------------------
TypeOK ==
    /\ linked \in [Users -> Wallets \cup {None}]
    /\ proven \subseteq Users \X Wallets
    /\ confirmed \subseteq Hashes
    /\ balance \in [Users -> Nat]
    /\ recorded \in [Hashes -> Nat]
    /\ rowUser \in [Hashes -> Users \cup {None}]
    /\ credited \in [Hashes -> Nat]
    /\ call \in [Handlers -> Calls]
    /\ answer \in [Handlers -> {"none", "ok", "error"}]
    /\ committed \in [Handlers -> BOOLEAN]
    /\ notified \subseteq Users \X (Hashes \cup {None})
    /\ manual \in Nat
    /\ awake \in BOOLEAN

\* A transfer enters the ledger once, whoever reports it, however often and at
\* the same time as whom, and whenever transactions expire ("Check if txHash
\* already exists to prevent double spend").
OneDepositPerHash == \A h \in Hashes : recorded[h] <= 1

\* As long as nothing is credited by hand, what is credited under a hash was
\* transferred by a wallet its user has proven to own, is confirmed, and does not exceed the
\* transfer by more than the tolerance, also when the user links another
\* wallet meanwhile.
DepositsAreGenuine ==
    manual = 0 =>
        \A h \in Hashes : recorded[h] > 0 =>
            /\ h \in confirmed
            /\ <<rowUser[h], Sender[h]>> \in proven
            /\ credited[h] * 999 <= Value * 1000

\* A call that is answered with an error has credited nothing, so that it can
\* be made again.  (A ticket credit breaks this: its reply comes after the
\* credit, in the same try.)
ErrorMeansNotCredited ==
    [][\A s \in Handlers :
         /\ call[s].kind # "ticket" /\ call[s].pc # "idle"
         /\ call'[s].pc = "idle" /\ answer'[s] = "error"
         => ~committed[s]]_vars

\* Who is told that a deposit was "processed and added to your balance" has it
\* in the ledger, or will as soon as the transaction commits.
NotifiedIsCredited ==
    \A u \in Users, h \in Hashes :
        <<u, h>> \in notified =>
            \/ recorded[h] > 0
            \/ \E s \in Handlers : Open(s) /\ call[s].pc = "commit" /\ call[s].hash = h

\* No call waits forever: for a lock, or for a second connection while all of
\* them are held by calls that wait for a second connection.
CallsFinish == \A s \in Handlers : call[s].pc # "idle" ~> call[s].pc = "idle"

\* A confirmed transfer from a linked wallet is found by the scanner.
ScannerFindsDeposits ==
    \A u \in Users, h \in Hashes :
        (h \in confirmed /\ linked[u] = Sender[h]) ~>
            (recorded[h] > 0 \/ linked[u] # Sender[h])

-----------------------------------------------------------------------------
(* The strengthenings under which those invariants are inductive.           *)

\* One transaction at a time holds a lock, and what it has found about its
\* hash is still so.
SerialisedInv ==
    /\ OneDepositPerHash
    /\ \A s, t \in Handlers :
         Holds(s) /\ Holds(t) /\ LockKey[call[s].hash] = LockKey[call[t].hash] => s = t
    /\ \A s \in Handlers :
         Holds(s) /\ call[s].pc # "check" /\ NewRow(call[s]) => recorded[call[s].hash] = 0

\* What a call carries is as good when it commits as when it was verified: the
\* wallet it read had been proven, the transfer is of that wallet.
GenuineInv ==
    manual = 0 =>
        /\ DepositsAreGenuine
        /\ \A u \in Users : linked[u] # None => <<u, linked[u]>> \in proven
        /\ \A h \in Hashes : recorded[h] = 0 => credited[h] = 0
        /\ \A s \in Handlers : call[s].pc # "idle" /\ call[s].kind \notin ByHand =>
             /\ ~call[s].again
             /\ <<call[s].user, call[s].wallet>> \in proven
             /\ call[s].pc \in {"notify", "commit"} => Genuine(call[s])
=============================================================================
