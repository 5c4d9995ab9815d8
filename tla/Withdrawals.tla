---------------------------- MODULE Withdrawals ----------------------------
(***************************************************************************)
(* The life of a POL withdrawal: the request that reserves the amount       *)
(* (walletModel.createWithdrawal), the admin handlers that approve, reject  *)
(* or complete it (adminController), the cron that pays approved ones from  *)
(* the hot wallet (withdrawalsCron) and the one routine that settles a row  *)
(* and refunds it (walletModel.updateTransactionStatus).                    *)
(*                                                                          *)
(* PostgreSQL runs at READ COMMITTED and no statement here takes a lock     *)
(* before it writes, so every "read, then decide, then write" of the code   *)
(* is as many steps as it has reads: other handlers commit in between.  A   *)
(* write and the commit that publishes it are one step.                     *)
(***************************************************************************)
EXTENDS Integers

CONSTANTS
    Users,
    Withdrawals,     \* ids of the rows of `transactions` a behaviour can insert
    Requests,        \* POST /wallet/withdraw requests in flight at once
    Operators,       \* admin requests and cron firings in flight at once
    Amounts,         \* amounts that pass the minimum and maximum checks
    InitialBalance,
    MaxCrashes,      \* bound: restarts of the node process
    MaxFaults,       \* bound: failed database calls and lost replies
    None

ASSUME WithdrawalsAssumption ==
    /\ Amounts \subseteq Nat \ {0}
    /\ InitialBalance \in Nat
    /\ MaxCrashes \in Nat
    /\ MaxFaults \in Nat
    /\ None \notin Withdrawals \cup Users

VARIABLES
    polBalance,   \* users.pol_balance
    status,       \* transactions.status; "none": the row is not inserted yet
    owner,        \* transactions.user_id
    amount,       \* transactions.amount
    req,          \* progress of each withdrawal request
    op,           \* progress of each admin request or cron firing
    broadcasts,   \* transfers the hot wallet has put on chain for a row
    returned,     \* times a row's amount was given back to its owner
    handPaid,     \* rows an admin declared paid, naming the on-chain hash
    approvedOnce, \* rows an admin has approved at some time
    crashes, faults

rows == <<status, owner, amount>>
history == <<broadcasts, returned, handPaid, approvedOnce>>
limits == <<crashes, faults>>
vars == <<polBalance, rows, req, op, history, limits>>

Statuses == {"none", "pending", "approved", "completed", "failed"}
IN_FLIGHT_WITHDRAW_STATUSES == {"pending", "approved"}

NoRequest == [pc |-> "idle", user |-> None, amount |-> 0]

ReqStates ==
    {NoRequest} \cup [pc: {"checkBalance", "reserve"}, user: Users, amount: Amounts]

\* pc, the row worked on, prevStatus as read, the status to write, and for a
\* cron firing the rows listed and not yet visited.
OpStatesOf(pcs, ids) ==
    [pc: pcs, row: ids, seen: Statuses, target: {"none", "completed", "failed"},
     cron: BOOLEAN, todo: SUBSET Withdrawals]

OpStates ==
    OpStatesOf({"idle", "scan"}, {None})
        \cup OpStatesOf({"approve", "lookup", "commit", "send"}, Withdrawals)

OpState(pc, w, seen, target, cron, todo) ==
    [pc |-> pc, row |-> w, seen |-> seen, target |-> target, cron |-> cron, todo |-> todo]

NoOp == OpState("idle", None, "none", "none", FALSE, {})
Scanning(todo) == OpState("scan", None, "none", "none", TRUE, todo)

Init ==
    /\ polBalance = [u \in Users |-> InitialBalance]
    /\ status = [w \in Withdrawals |-> "none"]
    /\ owner = [w \in Withdrawals |-> None]
    /\ amount = [w \in Withdrawals |-> 0]
    /\ req = [r \in Requests |-> NoRequest]
    /\ op = [o \in Operators |-> NoOp]
    /\ broadcasts = [w \in Withdrawals |-> 0]
    /\ returned = [w \in Withdrawals |-> 0]
    /\ handPaid = {}
    /\ approvedOnce = {}
    /\ crashes = 0
    /\ faults = 0

\* Slip: approved withdrawals no longer count as in flight.
InFlightPendingOnly(u) == {w \in Withdrawals : owner[w] = u /\ status[w] = "pending"}

InFlight(u) ==
    {w \in Withdrawals : owner[w] = u /\ status[w] \in IN_FLIGHT_WITHDRAW_STATUSES}

\* Slip: the list of listPendingWithdrawals instead of the approved rows.
ApprovedRowsAndPending ==
    {w \in Withdrawals : status[w] \in IN_FLIGHT_WITHDRAW_STATUSES}

ApprovedRows == {w \in Withdrawals : status[w] = "approved"}

-----------------------------------------------------------------------------
(* walletModel.createWithdrawal: three statements of one transaction.       *)

CheckInFlight(r, u, a) ==
    /\ req[r].pc = "idle"
    /\ InFlight(u) = {}
    /\ req' = [req EXCEPT ![r] = [pc |-> "checkBalance", user |-> u, amount |-> a]]
    /\ UNCHANGED <<polBalance, rows, op, history, limits>>

\* Slip: the balance is not compared with the amount.
CheckBalanceSkipped(r) ==
    /\ req[r].pc = "checkBalance"
    /\ req' = [req EXCEPT ![r] = [pc |-> "reserve", user |-> req[r].user, amount |-> req[r].amount]]
    /\ UNCHANGED <<polBalance, rows, op, history, limits>>

CheckBalance(r) ==
    /\ req[r].pc = "checkBalance"
    /\ req' = [req EXCEPT ![r] = 
                IF polBalance[req[r].user] < req[r].amount
                THEN NoRequest
                ELSE [pc |-> "reserve", user |-> req[r].user, amount |-> req[r].amount]]
    /\ UNCHANGED <<polBalance, rows, op, history, limits>>

Reserve(r, w) ==
    /\ req[r].pc = "reserve"
    /\ status[w] = "none"
    /\ polBalance' = [polBalance EXCEPT ![req[r].user] = @ - req[r].amount]
    /\ status' = [status EXCEPT ![w] = "pending"]
    /\ owner' = [owner EXCEPT ![w] = req[r].user]
    /\ amount' = [amount EXCEPT ![w] = req[r].amount]
    /\ req' = [req EXCEPT ![r] = NoRequest]
    /\ UNCHANGED <<op, history, limits>>

\* A statement throws, or the rows are exhausted: the transaction is undone.
RequestFails(r) ==
    /\ req[r].pc # "idle"
    /\ req' = [req EXCEPT ![r] = NoRequest]
    /\ UNCHANGED <<polBalance, rows, op, history, limits>>

-----------------------------------------------------------------------------
(* adminController: each handler reads the row, checks it, then acts.       *)

\* o calls updateTransactionStatus(w, target).
Calling(o, w, target) ==
    OpState("lookup", w, "none", target, op[o].cron, op[o].todo)

ReadForApproval(o, w) ==
    /\ op[o].pc = "idle"
    /\ status[w] = "pending"
    /\ op' = [op EXCEPT ![o] = OpState("approve", w, "none", "none", FALSE, {})]
    /\ UNCHANGED <<polBalance, rows, req, history, limits>>

WriteApproval(o) ==
    /\ op[o].pc = "approve"
    /\ status' = [status EXCEPT ![op[o].row] = "approved"]
    /\ approvedOnce' = approvedOnce \cup {op[o].row}
    /\ op' = [op EXCEPT ![o] = NoOp]
    /\ UNCHANGED <<polBalance, owner, amount, req, broadcasts, returned, handPaid, limits>>

\* Slip: a status of its own for rejected rows, which no other code knows.
rejectAsRejected(o, w) ==
    /\ op[o].pc = "idle"
    /\ status[w] \in {"pending", "approved"}
    /\ op' = [op EXCEPT ![o] = Calling(o, w, "rejected")]
    /\ UNCHANGED <<polBalance, rows, req, history, limits>>

rejectWithdrawal(o, w) ==
    /\ op[o].pc = "idle"
    /\ status[w] \in {"pending", "approved"}
    /\ op' = [op EXCEPT ![o] = Calling(o, w, "failed")]
    /\ UNCHANGED <<polBalance, rows, req, history, limits>>

completeWithdrawal(o, w) ==
    /\ op[o].pc = "idle"
    /\ status[w] = "approved"
    /\ op' = [op EXCEPT ![o] = Calling(o, w, "completed")]
    /\ handPaid' = handPaid \cup {w}
    /\ UNCHANGED <<polBalance, rows, req, broadcasts, returned, approvedOnce, limits>>

-----------------------------------------------------------------------------
(* walletModel.updateTransactionStatus: read the row, then write the new    *)
(* status and, by the status READ, the refund.                              *)

\* The caller goes on: the cron with its next row, an admin handler returns.
Resumed(o) == IF op[o].cron THEN Scanning(op[o].todo) ELSE NoOp

LookupStatus(o) ==
    /\ op[o].pc = "lookup"
    /\ op' = [op EXCEPT ![o] = OpState("commit", op[o].row, status[op[o].row],
                                       op[o].target, op[o].cron, op[o].todo)]
    /\ UNCHANGED <<polBalance, rows, req, history, limits>>

\* Slip: only a withdrawal that was never approved is refunded.
RefundsPendingOnly(target, prevStatus) == target = "failed" /\ prevStatus = "pending"

Refunds(target, prevStatus) ==
    target = "failed" /\ prevStatus \notin {"failed", "completed"}

WriteStatus(o) ==
    LET w == op[o].row IN
    /\ op[o].pc = "commit"
    /\ status' = [status EXCEPT ![w] = op[o].target]
    /\ IF Refunds(op[o].target, op[o].seen)
       THEN /\ polBalance' = [polBalance EXCEPT ![owner[w]] = @ + amount[w]]
            /\ returned' = [returned EXCEPT ![w] = @ + 1]
       ELSE UNCHANGED <<polBalance, returned>>
    /\ UNCHANGED <<owner, amount, req, broadcasts, handPaid, approvedOnce, crashes>>

CommitStatus(o) ==
    /\ WriteStatus(o)
    /\ op' = [op EXCEPT ![o] = Resumed(o)]
    /\ UNCHANGED faults

-----------------------------------------------------------------------------
(* withdrawalsCron.processPendingWithdrawals; nothing keeps a firing from   *)
(* overlapping the one before.  The order of the list is left open.         *)

CronFires(o) ==
    /\ op[o].pc = "idle"
    /\ ApprovedRows # {}
    /\ op' = [op EXCEPT ![o] = Scanning(ApprovedRows)]
    /\ UNCHANGED <<polBalance, rows, req, history, limits>>

CronVisits(o, w) ==
    /\ op[o].pc = "scan"
    /\ w \in op[o].todo
    /\ op' = [op EXCEPT ![o] =
                IF w \in ApprovedRows
                THEN OpState("send", w, "none", "none", TRUE, op[o].todo \ {w})
                ELSE Scanning(op[o].todo \ {w})]
    /\ UNCHANGED <<polBalance, rows, req, history, limits>>

CronReturns(o) ==
    /\ op[o].pc = "scan"
    /\ op[o].todo = {}
    /\ op' = [op EXCEPT ![o] = NoOp]
    /\ UNCHANGED <<polBalance, rows, req, history, limits>>

\* Slip: the transfer is not recorded on the row.
SendUnrecorded(o) ==
    /\ op[o].pc = "send"
    /\ broadcasts' = [broadcasts EXCEPT ![op[o].row] = @ + 1]
    /\ op' = [op EXCEPT ![o] = Resumed(o)]
    /\ UNCHANGED <<polBalance, rows, req, returned, handPaid, approvedOnce, limits>>

SendSucceeds(o) ==
    /\ op[o].pc = "send"
    /\ broadcasts' = [broadcasts EXCEPT ![op[o].row] = @ + 1]
    /\ op' = [op EXCEPT ![o] = Calling(o, op[o].row, "completed")]
    /\ UNCHANGED <<polBalance, rows, req, returned, handPaid, approvedOnce, limits>>

\* Slip: a failed send leaves the row approved, to be tried again.
SendFailsQuietly(o) ==
    /\ op[o].pc = "send"
    /\ op' = [op EXCEPT ![o] = Resumed(o)]
    /\ UNCHANGED <<polBalance, rows, req, history, limits>>

\* sendTransaction throws and nothing reached the network.
SendFails(o) ==
    /\ op[o].pc = "send"
    /\ op' = [op EXCEPT ![o] = Calling(o, op[o].row, "failed")]
    /\ UNCHANGED <<polBalance, rows, req, history, limits>>

-----------------------------------------------------------------------------
(* Faults.                                                                  *)

Fault == faults < MaxFaults /\ faults' = faults + 1

\* What a throw does to its caller.  While a row is being completed (or read)
\* the cron's catch turns it into "failed"; a throw inside that catch ends
\* the firing; an admin handler answers 500.
Caught(o, w) ==
    IF op[o].cron /\ op[o].target # "failed"
    THEN OpState("lookup", w, "none", "failed", TRUE, op[o].todo \ {w})
    ELSE NoOp

\* The transfer was broadcast but the call that made it threw.
SendReplyLost(o) ==
    /\ op[o].pc = "send"
    /\ Fault
    /\ broadcasts' = [broadcasts EXCEPT ![op[o].row] = @ + 1]
    /\ op' = [op EXCEPT ![o] = Caught(o, op[o].row)]
    /\ UNCHANGED <<polBalance, rows, req, returned, handPaid, approvedOnce, crashes>>

\* The cron's re-read of a listed row throws inside its try block.
CronReadFails(o, w) ==
    /\ op[o].pc = "scan"
    /\ w \in op[o].todo
    /\ Fault
    /\ op' = [op EXCEPT ![o] = Caught(o, w)]
    /\ UNCHANGED <<polBalance, rows, req, history, crashes>>

\* Slip: no transaction around the refund and the status, so that the refund
\* stays when the status write fails.
StatusHalfWritten(o) ==
    /\ op[o].pc = "commit"
    /\ Fault
    /\ IF Refunds(op[o].target, op[o].seen)
       THEN /\ polBalance' = [polBalance EXCEPT ![owner[op[o].row]] = @ + amount[op[o].row]]
            /\ returned' = [returned EXCEPT ![op[o].row] = @ + 1]
       ELSE UNCHANGED <<polBalance, returned>>
    /\ op' = [op EXCEPT ![o] = Caught(o, op[o].row)]
    /\ UNCHANGED <<rows, req, broadcasts, handPaid, approvedOnce, crashes>>

\* A write of an admin handler, or the transaction of updateTransactionStatus,
\* fails and leaves nothing behind.
StatusRolledBack(o) ==
    /\ op[o].pc \in {"approve", "lookup", "commit"}
    /\ Fault
    /\ op' = [op EXCEPT ![o] = Caught(o, op[o].row)]
    /\ UNCHANGED <<polBalance, rows, req, history, crashes>>

\* It commits, but the caller sees an error instead of the reply.
StatusReplyLost(o) ==
    /\ WriteStatus(o)
    /\ Fault
    /\ op' = [op EXCEPT ![o] = Caught(o, op[o].row)]

\* The process dies: every request and cron firing in flight is forgotten,
\* the database and the chain are not.
Crash ==
    /\ crashes < MaxCrashes
    /\ crashes' = crashes + 1
    /\ req' = [r \in Requests |-> NoRequest]
    /\ op' = [o \in Operators |-> NoOp]
    /\ UNCHANGED <<polBalance, rows, history, faults>>

-----------------------------------------------------------------------------
RequestStep(r) ==
    \/ \E u \in Users, a \in Amounts : CheckInFlight(r, u, a)
    \/ CheckBalance(r)
    \/ \E w \in Withdrawals : Reserve(r, w)
    \/ RequestFails(r)

AdminStep(o) ==
    \E w \in Withdrawals :
        \/ ReadForApproval(o, w)
        \/ rejectWithdrawal(o, w)
        \/ completeWithdrawal(o, w)

\* What an operator does once started: these steps follow by themselves.
OperatorStep(o) ==
    \/ WriteApproval(o)
    \/ LookupStatus(o)
    \/ CommitStatus(o)
    \/ \E w \in Withdrawals : CronVisits(o, w)
    \/ CronReturns(o)
    \/ SendSucceeds(o)
    \/ SendFails(o)

FaultStep(o) ==
    \/ SendReplyLost(o)
    \/ \E w \in Withdrawals : CronReadFails(o, w)
    \/ StatusRolledBack(o)
    \/ StatusReplyLost(o)

Next ==
    \/ \E r \in Requests : RequestStep(r)
    \/ \E o \in Operators : AdminStep(o) \/ CronFires(o) \/ OperatorStep(o) \/ FaultStep(o)
    \/ Crash

Spec == Init /\ [][Next]_vars

\* A started handler runs on, and the cron keeps firing every two minutes.
\* Users and admins owe nothing.
Fairness ==
    /\ \A o \in Operators : WF_vars(OperatorStep(o))
    /\ \A o \in Operators : WF_vars(CronFires(o))

FairSpec == Spec /\ Fairness

-----------------------------------------------------------------------------
TypeOK ==
    /\ polBalance \in [Users -> Int]
    /\ status \in [Withdrawals -> Statuses]
    /\ owner \in [Withdrawals -> Users \cup {None}]
    /\ amount \in [Withdrawals -> Nat]
    /\ req \in [Requests -> ReqStates]
    /\ op \in [Operators -> OpStates]
    /\ broadcasts \in [Withdrawals -> Nat]
    /\ returned \in [Withdrawals -> Nat]
    /\ handPaid \subseteq Withdrawals
    /\ approvedOnce \subseteq Withdrawals
    /\ crashes \in 0 .. MaxCrashes
    /\ faults \in 0 .. MaxFaults

Paid(w) == broadcasts[w] > 0 \/ w \in handPaid
Open(w) == status[w] \in {"pending", "approved"}
Settled(w) == Paid(w) \/ returned[w] > 0

\* However handlers, cron firings, faults and restarts interleave, a row that
\* has reached a final status has had its money paid out or given back: the
\* amount reserved at the request is never lost to the user.
FundsNeverLost ==
    \A w \in Withdrawals :
        /\ status[w] = "completed" => Paid(w)
        /\ status[w] = "failed" => Settled(w)

\* The hot wallet only pays rows an admin has approved, also when a cron
\* firing works from a stale list or a restart loses what it was doing.
OnlyApprovedIsPaid ==
    \A w \in Withdrawals : broadcasts[w] > 0 => w \in approvedOnce

\* A row that is still open, or completed, has not been refunded, and a failed
\* one at most once: true while admin requests and cron firings do not overlap,
\* whatever faults and restarts happen.
NoRefundOfLiveRow ==
    \A w \in Withdrawals :
        /\ status[w] # "failed" => returned[w] = 0
        /\ returned[w] <= 1

\* A withdrawal's amount leaves the house once at most, on chain or back to
\* the balance.
PaidOrReturnedOnce ==
    \A w \in Withdrawals :
        broadcasts[w] + returned[w] + (IF w \in handPaid THEN 1 ELSE 0) <= 1

\* A user has at most one withdrawal waiting to be settled ("Pending
\* withdrawal exists" refuses the second).
OneInFlightPerUser ==
    \A v, w \in Withdrawals : Open(v) /\ Open(w) /\ owner[v] = owner[w] => v = w

\* A withdrawal never takes more than the user has ("Insufficient balance").
BalanceNotNegative == \A u \in Users : polBalance[u] >= 0

\* The cron sends a withdrawal only while its row says approved.
SendsOnlyWhileApproved ==
    [][\A w \in Withdrawals : broadcasts'[w] > broadcasts[w] => status[w] = "approved"]_vars

\* "failed" is for withdrawals whose transfer was not made ("Update status to
\* failed so it returns to user balances").
FailedIsUnpaid == \A w \in Withdrawals : status[w] = "failed" => broadcasts[w] = 0

\* An approved withdrawal is eventually settled, by the cron or by an admin.
ApprovedIsSettled ==
    \A w \in Withdrawals :
        status[w] = "approved" ~> status[w] \in {"completed", "failed"}

-----------------------------------------------------------------------------
(* The strengthenings under which those invariants are inductive.           *)

\* What an operator carries in hand agrees with what has been paid: it writes
\* "completed" only for a paid row, and a final status it has read was earned.
FundsInv ==
    /\ FundsNeverLost
    /\ \A o \in Operators :
         LET w == op[o].row IN
         /\ op[o].pc \in {"lookup", "commit"} /\ op[o].target = "completed" => Paid(w)
         /\ op[o].pc = "commit" /\ op[o].seen = "completed" => Paid(w)
         /\ op[o].pc = "commit" /\ op[o].seen = "failed" => Settled(w)

\* Everything on its way to the hot wallet has been approved.
ApprovalInv ==
    /\ OnlyApprovedIsPaid
    /\ ApprovedRows \subseteq approvedOnce
    /\ \A o \in Operators :
         /\ op[o].todo \subseteq approvedOnce
         /\ op[o].pc = "send" => op[o].row \in approvedOnce

\* With one operator at a time, what it has read is still what the row says,
\* and the row it is about to complete has not been refunded.
SerialInv ==
    /\ NoRefundOfLiveRow
    /\ \A o \in Operators :
         LET w == op[o].row IN
         /\ op[o].pc = "approve" => status[w] = "pending"
         /\ op[o].pc = "commit" => op[o].seen = status[w]
         /\ op[o].pc \in {"lookup", "commit"} =>
              /\ op[o].target \in {"completed", "failed"}
              /\ status[w] # "none"
              /\ op[o].target = "completed" => returned[w] = 0
         /\ op[o].pc = "send" => status[w] = "approved"
         /\ op[o].pc = "idle" => ~op[o].cron /\ op[o].todo = {}
         /\ \A v \in op[o].todo : status[v] # "none"

\* With one request at a time, a balance found sufficient stays sufficient.
CoveredInv ==
    /\ BalanceNotNegative
    /\ \A r \in Requests :
         req[r].pc = "reserve" => polBalance[req[r].user] >= req[r].amount

-----------------------------------------------------------------------------
(* The refinement mapping to Settlement.  A withdrawal is paid once its      *)
(* transfer is broadcast or an admin has named the transfer made by hand,    *)
(* returned once its amount is back in the balance, and held until then,     *)
(* whatever its row says meanwhile.                                          *)

PhaseOf(w) ==
    CASE status[w] = "none" -> "none"
      [] Paid(w) -> "paid"
      [] returned[w] > 0 /\ ~Paid(w) -> "returned"
      [] OTHER -> "held"

Promise == INSTANCE Settlement WITH
    funds <- polBalance,
    phase <- [w \in Withdrawals |-> PhaseOf(w)],
    holder <- owner,
    sum <- amount

\* Without faults, restarts or overlapping handlers, the tables, the admin
\* handlers and the cron together keep the promise of Settlement.
KeepsPromise == Promise!Spec

-----------------------------------------------------------------------------
(* What is inductive when handlers and firings do not overlap and nothing   *)
(* fails.                                                                   *)

Unpaid(w) == broadcasts[w] = 0 /\ w \notin handPaid

PaidOnce(w) ==
    \/ broadcasts[w] = 1 /\ w \notin handPaid
    \/ broadcasts[w] = 0 /\ w \in handPaid

Writes(o, target) == op[o].pc \in {"lookup", "commit"} /\ op[o].target = target

\* The row has been paid and does not say so yet.
Completing(w) == \E o \in Operators : op[o].row = w /\ Writes(o, "completed")

\* A row's status tells what was done with its amount, but for the payment that
\* its operator is about to write down.
RowIsTrue(w) ==
    /\ status[w] \in {"none", "pending"} => Unpaid(w) /\ returned[w] = 0
    /\ status[w] = "approved" =>
          returned[w] = 0 /\ (Unpaid(w) \/ (PaidOnce(w) /\ Completing(w)))
    /\ status[w] = "completed" => PaidOnce(w) /\ returned[w] = 0
    /\ status[w] = "failed" => Unpaid(w) /\ returned[w] = 1

\* An operator acts on an open row, and completes it only once it is paid.
ActsInTurn(o) ==
    LET w == op[o].row IN
    /\ Writes(o, "completed") => status[w] = "approved" /\ PaidOnce(w)
    /\ Writes(o, "failed") => Open(w) /\ Unpaid(w)
    /\ op[o].pc = "send" => Unpaid(w)

PromiseInv ==
    /\ OneInFlightPerUser
    /\ \A w \in Withdrawals : RowIsTrue(w)
    /\ \A o \in Operators : ActsInTurn(o)
    /\ \A r \in Requests : req[r].pc # "idle" => InFlight(req[r].user) = {}
=============================================================================
