------------------------- MODULE WithdrawalsProofs --------------------------
(***************************************************************************)
(* Theorems about Withdrawals, for every number of users, rows, requests,  *)
(* overlapping operators, restarts and faults; and that it keeps the       *)
(* promise of Settlement while requests, admin handlers and cron firings   *)
(* take turns and nothing fails.                                           *)
(***************************************************************************)
EXTENDS Withdrawals, TLAPS

-----------------------------------------------------------------------------
\* What every operator can do, without naming who does it.
LEMMA NextCases ==
    ASSUME Next
    PROVE  \/ \E r \in Requests, u \in Users, a \in Amounts : CheckInFlight(r, u, a)
           \/ \E r \in Requests : CheckBalance(r)
           \/ \E r \in Requests, w \in Withdrawals : Reserve(r, w)
           \/ \E r \in Requests : RequestFails(r)
           \/ \E o \in Operators, w \in Withdrawals :
                \/ ReadForApproval(o, w)
                \/ rejectWithdrawal(o, w)
                \/ completeWithdrawal(o, w)
                \/ CronVisits(o, w)
                \/ CronReadFails(o, w)
           \/ \E o \in Operators :
                \/ WriteApproval(o)
                \/ LookupStatus(o)
                \/ CommitStatus(o)
                \/ CronFires(o)
                \/ CronReturns(o)
                \/ SendSucceeds(o)
                \/ SendFails(o)
                \/ SendReplyLost(o)
                \/ StatusRolledBack(o)
                \/ StatusReplyLost(o)
           \/ Crash
  BY DEF Next, RequestStep, AdminStep, OperatorStep, FaultStep

\* What the type of op says of one operator.
LEMMA OperatorFields ==
    ASSUME TypeOK, NEW o \in Operators
    PROVE  /\ op[o].pc \in {"approve", "lookup", "commit", "send"} => op[o].row \in Withdrawals
           /\ op[o].target \in {"none", "completed", "failed"}
           /\ op[o].seen \in Statuses
           /\ op[o].cron \in BOOLEAN
           /\ op[o].todo \subseteq Withdrawals
  BY DEF TypeOK, OpStates, OpStatesOf

\* What the type of req says of one request.
LEMMA RequestFields ==
    ASSUME TypeOK, NEW r \in Requests, req[r].pc # "idle"
    PROVE  req[r].user \in Users /\ req[r].amount \in Nat /\ req[r].amount \in Amounts
<1>1. req[r] \in [pc: {"checkBalance", "reserve"}, user: Users, amount: Amounts]
  BY DEF TypeOK, ReqStates, NoRequest
<1> QED
  BY <1>1, WithdrawalsAssumption

\* The states a handler can be put in are operator states.
LEMMA RowlessStates ==
    ASSUME TypeOK
    PROVE  /\ NoOp \in OpStates
           /\ \A todo \in SUBSET Withdrawals : Scanning(todo) \in OpStates
           /\ \A o \in Operators : Resumed(o) \in OpStates
           /\ ApprovedRows \subseteq Withdrawals
  BY OperatorFields DEF OpStates, OpStatesOf, OpState, NoOp, Scanning, Resumed,
     ApprovedRows, Statuses

LEMMA OpStateShapes ==
    ASSUME TypeOK, NEW o \in Operators, NEW w \in Withdrawals
    PROVE  /\ Caught(o, w) \in OpStates
           /\ \A t \in {"completed", "failed"} : Calling(o, w, t) \in OpStates
  BY OperatorFields, RowlessStates DEF OpStates, OpStatesOf, OpState, Caught, Calling, Statuses

\* No step leaves the types.
LEMMA TypeStep ==
    ASSUME TypeOK, [Next]_vars
    PROVE  TypeOK'
<1> USE WithdrawalsAssumption
<1>1. CASE UNCHANGED vars
  BY <1>1 DEF TypeOK, vars, rows, history, limits
<1>2. ASSUME NEW r \in Requests, NEW u \in Users, NEW a \in Amounts, CheckInFlight(r, u, a)
      PROVE  TypeOK'
  BY <1>2 DEF TypeOK, CheckInFlight, ReqStates, rows, history, limits
<1>3. ASSUME NEW r \in Requests, CheckBalance(r) PROVE TypeOK'
  BY <1>3 DEF TypeOK, CheckBalance, NoRequest, ReqStates, rows, history, limits
<1>4. ASSUME NEW r \in Requests, NEW w \in Withdrawals, Reserve(r, w) PROVE TypeOK'
  <2>1. req[r].user \in Users /\ req[r].amount \in Nat
    BY <1>4, RequestFields DEF Reserve
  <2> QED
    BY <1>4, <2>1 DEF TypeOK, Reserve, ReqStates, Statuses, rows, history, limits
<1>5. ASSUME NEW r \in Requests, RequestFails(r) PROVE TypeOK'
  BY <1>5 DEF TypeOK, RequestFails, ReqStates, rows, history, limits
<1>6. ASSUME NEW o \in Operators, NEW w \in Withdrawals, ReadForApproval(o, w) PROVE TypeOK'
  BY <1>6 DEF TypeOK, ReadForApproval, OpState, OpStates, OpStatesOf, Statuses,
     rows, history, limits
<1>7. ASSUME NEW o \in Operators, NEW w \in Withdrawals, rejectWithdrawal(o, w) PROVE TypeOK'
  BY <1>7, OpStateShapes DEF TypeOK, rejectWithdrawal, rows, history, limits
<1>8. ASSUME NEW o \in Operators, NEW w \in Withdrawals, completeWithdrawal(o, w) PROVE TypeOK'
  BY <1>8, OpStateShapes DEF TypeOK, completeWithdrawal, rows, history, limits
<1>9. ASSUME NEW o \in Operators, NEW w \in Withdrawals, CronVisits(o, w) PROVE TypeOK'
  <2>1. OpState("send", w, "none", "none", TRUE, op[o].todo \ {w}) \in OpStates
    BY OperatorFields DEF OpState, OpStates, OpStatesOf, Statuses
  <2> QED
    BY <1>9, <2>1, RowlessStates, OperatorFields DEF TypeOK, CronVisits, rows, history, limits
<1>10. ASSUME NEW o \in Operators, NEW w \in Withdrawals, CronReadFails(o, w) PROVE TypeOK'
  BY <1>10, OpStateShapes DEF TypeOK, CronReadFails, Fault, rows, history, limits
<1>11. ASSUME NEW o \in Operators, WriteApproval(o) PROVE TypeOK'
  <2>1. op[o].row \in Withdrawals
    BY <1>11, OperatorFields DEF WriteApproval
  <2> QED
    BY <1>11, <2>1, RowlessStates DEF TypeOK, WriteApproval, Statuses, limits
<1>12. ASSUME NEW o \in Operators, LookupStatus(o) PROVE TypeOK'
  <2>1. op'[o] \in OpStates
    BY <1>12, OperatorFields DEF TypeOK, LookupStatus, OpState, OpStates, OpStatesOf
  <2> QED
    BY <1>12, <2>1 DEF TypeOK, LookupStatus, rows, history, limits
<1>13. ASSUME NEW o \in Operators, WriteStatus(o)
       PROVE  /\ polBalance' \in [Users -> Int]
              /\ status' \in [Withdrawals -> Statuses]
              /\ returned' \in [Withdrawals -> Nat]
  <2>1. op[o].row \in Withdrawals
    BY <1>13, OperatorFields DEF WriteStatus
  <2>2. op[o].target \in Statuses
    BY OperatorFields DEF Statuses
  <2> QED
    BY <1>13, <2>1, <2>2 DEF TypeOK, WriteStatus
<1>14. ASSUME NEW o \in Operators, CommitStatus(o) PROVE TypeOK'
  BY <1>14, <1>13, RowlessStates DEF TypeOK, CommitStatus, WriteStatus
<1>15. ASSUME NEW o \in Operators, CronFires(o) PROVE TypeOK'
  BY <1>15, RowlessStates DEF TypeOK, CronFires, rows, history, limits
<1>16. ASSUME NEW o \in Operators, CronReturns(o) PROVE TypeOK'
  BY <1>16, RowlessStates DEF TypeOK, CronReturns, rows, history, limits
<1>17. ASSUME NEW o \in Operators, SendSucceeds(o) PROVE TypeOK'
  <2>1. op[o].row \in Withdrawals
    BY <1>17, OperatorFields DEF SendSucceeds
  <2> QED
    BY <1>17, <2>1, OpStateShapes DEF TypeOK, SendSucceeds, rows, limits
<1>18. ASSUME NEW o \in Operators, SendFails(o) PROVE TypeOK'
  <2>1. op[o].row \in Withdrawals
    BY <1>18, OperatorFields DEF SendFails
  <2> QED
    BY <1>18, <2>1, OpStateShapes DEF TypeOK, SendFails, rows, history, limits
<1>19. ASSUME NEW o \in Operators, SendReplyLost(o) PROVE TypeOK'
  <2>1. op[o].row \in Withdrawals
    BY <1>19, OperatorFields DEF SendReplyLost
  <2> QED
    BY <1>19, <2>1, OpStateShapes DEF TypeOK, SendReplyLost, Fault, rows
<1>20. ASSUME NEW o \in Operators, StatusRolledBack(o) PROVE TypeOK'
  <2>1. op[o].row \in Withdrawals
    BY <1>20, OperatorFields DEF StatusRolledBack
  <2> QED
    BY <1>20, <2>1, OpStateShapes DEF TypeOK, StatusRolledBack, Fault, rows, history
<1>21. ASSUME NEW o \in Operators, StatusReplyLost(o) PROVE TypeOK'
  <2>1. op[o].row \in Withdrawals
    BY <1>21, OperatorFields DEF StatusReplyLost, WriteStatus
  <2>2. op' \in [Operators -> OpStates] /\ faults' \in 0 .. MaxFaults
    BY <1>21, <2>1, OpStateShapes DEF TypeOK, StatusReplyLost, Fault
  <2> QED
    BY <1>21, <1>13, <2>1, <2>2 DEF TypeOK, StatusReplyLost, WriteStatus
<1>22. CASE Crash
  BY <1>22, RowlessStates DEF TypeOK, Crash, ReqStates, NoOp, OpState, OpStates, OpStatesOf,
     Statuses, rows, history
<1> QED
  BY <1>1, <1>2, <1>3, <1>4, <1>5, <1>6, <1>7, <1>8, <1>9, <1>10, <1>11, <1>12, <1>14,
     <1>15, <1>16, <1>17, <1>18, <1>19, <1>20, <1>21, <1>22, NextCases

\* Every variable keeps its type: statuses are the five the code writes, no
\* operator works on a row that does not exist, the bounds are respected.
THEOREM TypeCorrect == Spec => []TypeOK
<1>1. Init => TypeOK
  BY WithdrawalsAssumption
     DEF Init, TypeOK, NoRequest, NoOp, ReqStates, OpState, OpStates, OpStatesOf, Statuses
<1>2. TypeOK /\ [Next]_vars => TypeOK'
  BY TypeStep
<1> QED
  BY <1>1, <1>2, PTL DEF Spec

-----------------------------------------------------------------------------
(* FundsNeverLost.                                                          *)

\* What has been paid or given back stays so.
LEMMA SettledIsStable ==
    ASSUME TypeOK, [Next]_vars, NEW w \in Withdrawals
    PROVE  (Paid(w) => Paid(w)') /\ (Settled(w) => Settled(w)')
<1> DEFINE Grows == /\ handPaid \subseteq handPaid'
                    /\ broadcasts'[w] >= broadcasts[w]
                    /\ returned'[w] >= returned[w]
<1>1. Grows
  <2>1. broadcasts[w] \in Nat /\ returned[w] \in Nat
    BY DEF TypeOK
  <2>2. CASE UNCHANGED history
    BY <2>1, <2>2 DEF history
  <2>3. ASSUME NEW o \in Operators, NEW v \in Withdrawals, completeWithdrawal(o, v)
        PROVE  Grows
    BY <2>1, <2>3 DEF completeWithdrawal
  <2>4. ASSUME NEW o \in Operators, WriteApproval(o) PROVE Grows
    BY <2>1, <2>4 DEF WriteApproval
  <2>5. ASSUME NEW o \in Operators, WriteStatus(o) PROVE Grows
    BY <2>1, <2>5 DEF WriteStatus, TypeOK
  <2>6. ASSUME NEW o \in Operators, SendSucceeds(o) \/ SendReplyLost(o) PROVE Grows
    BY <2>1, <2>6 DEF SendSucceeds, SendReplyLost, TypeOK
  <2>7. CASE Next
    BY <2>2, <2>3, <2>4, <2>5, <2>6, <2>7, NextCases
       DEF CheckInFlight, CheckBalance, Reserve, RequestFails, ReadForApproval,
           rejectWithdrawal, CronVisits, CronReadFails, LookupStatus, CommitStatus,
           CronFires, CronReturns, SendFails, StatusRolledBack, StatusReplyLost, Crash
  <2> QED
    BY <2>2, <2>7 DEF vars
<1> QED
  BY <1>1, TypeStep DEF Paid, Settled, TypeOK

\* The part of FundsInv about one operator.
Accounted(o) ==
    LET w == op[o].row IN
    /\ op[o].pc \in {"lookup", "commit"} /\ op[o].target = "completed" => Paid(w)
    /\ op[o].pc = "commit" /\ op[o].seen = "completed" => Paid(w)
    /\ op[o].pc = "commit" /\ op[o].seen = "failed" => Settled(w)

\* An operator that a step does not touch keeps its part.
LEMMA AccountedIsStable ==
    ASSUME TypeOK, [Next]_vars, NEW o \in Operators, Accounted(o), op'[o] = op[o]
    PROVE  Accounted(o)'
<1>1. CASE op[o].row \in Withdrawals
  BY <1>1, SettledIsStable DEF Accounted
<1>2. CASE op[o].row \notin Withdrawals
  BY <1>2, OperatorFields DEF Accounted
<1> QED
  BY <1>1, <1>2

\* However many handlers and cron firings overlap, and whatever faults and
\* restarts happen, the amount a request reserved is not lost to its user.
THEOREM FundsAreNeverLost == Spec => []FundsNeverLost
<1>1. Init => FundsInv
  BY DEF Init, FundsInv, FundsNeverLost, NoOp, OpState
<1>2. TypeOK /\ FundsInv /\ [Next]_vars => FundsInv'
  <2> SUFFICES ASSUME TypeOK, FundsInv, [Next]_vars PROVE FundsInv'
    OBVIOUS
  <2>0. /\ \A o \in Operators : Accounted(o)
        /\ \A w \in Withdrawals : Paid(w) => Settled(w)
    BY DEF FundsInv, Accounted, Settled
  <2> DEFINE Kept == status' = status
  <2>1. ASSUME \A o \in Operators : Accounted(o)', FundsNeverLost' PROVE FundsInv'
    BY <2>1 DEF FundsInv, Accounted
  <2>2. Kept => FundsNeverLost'
    BY SettledIsStable DEF FundsInv, FundsNeverLost
  <2>3. CASE UNCHANGED vars
    BY <2>0, <2>1, <2>2, <2>3, AccountedIsStable DEF vars, rows
  <2>4. ASSUME op' = op, Kept PROVE FundsInv'
    BY <2>0, <2>1, <2>2, <2>4, AccountedIsStable
  <2>5. ASSUME NEW r \in Requests, NEW w \in Withdrawals, Reserve(r, w) PROVE FundsInv'
    <3>1. FundsNeverLost'
      BY <2>5, SettledIsStable DEF Reserve, FundsInv, FundsNeverLost, TypeOK
    <3>2. op' = op
      BY <2>5 DEF Reserve
    <3> QED
      BY <2>0, <2>1, <3>1, <3>2, AccountedIsStable
  \* What is left is a step of one operator.
  <2>6. ASSUME NEW o \in Operators, NEW s, op' = [op EXCEPT ![o] = s], Accounted(o)'
        PROVE  \A p \in Operators : Accounted(p)'
    <3>1. ASSUME NEW p \in Operators, p # o PROVE op'[p] = op[p]
      BY <2>6, <3>1 DEF TypeOK
    <3> QED
      BY <2>0, <2>6, <3>1, AccountedIsStable
  <2>7. ASSUME NEW o \in Operators, NEW w \in Withdrawals,
               \/ ReadForApproval(o, w)
               \/ rejectWithdrawal(o, w)
               \/ CronVisits(o, w)
               \/ CronReadFails(o, w)
        PROVE  FundsInv'
    <3>1. Kept /\ Accounted(o)'
      BY <2>7 DEF ReadForApproval, rejectWithdrawal, CronVisits, CronReadFails, rows,
         Accounted, Calling, Scanning, Caught, NoOp, OpState, TypeOK
    <3> QED
      BY <2>1, <2>2, <2>6, <2>7, <3>1
         DEF ReadForApproval, rejectWithdrawal, CronVisits, CronReadFails
  <2>8. ASSUME NEW o \in Operators, NEW w \in Withdrawals, completeWithdrawal(o, w)
        PROVE  FundsInv'
    <3>1. Kept /\ Accounted(o)'
      BY <2>8 DEF completeWithdrawal, rows, Accounted, Calling, OpState, TypeOK, Paid
    <3> QED
      BY <2>1, <2>2, <2>6, <2>8, <3>1 DEF completeWithdrawal
  <2>9. ASSUME NEW o \in Operators, WriteApproval(o) PROVE FundsInv'
    <3>1. FundsNeverLost'
      BY <2>9, SettledIsStable, OperatorFields DEF WriteApproval, FundsInv, FundsNeverLost, TypeOK
    <3>2. Accounted(o)'
      BY <2>9 DEF WriteApproval, Accounted, NoOp, OpState, TypeOK
    <3> QED
      BY <2>1, <2>6, <2>9, <3>1, <3>2 DEF WriteApproval
  <2>10. ASSUME NEW o \in Operators, LookupStatus(o) PROVE FundsInv'
    <3>1. op[o].row \in Withdrawals /\ Kept
      BY <2>10, OperatorFields DEF LookupStatus, rows
    <3>2. Accounted(o)'
      BY <2>0, <2>10, <3>1, SettledIsStable
         DEF LookupStatus, Accounted, OpState, FundsInv, FundsNeverLost, TypeOK
    <3> QED
      BY <2>1, <2>2, <2>6, <2>10, <3>1, <3>2 DEF LookupStatus
  <2>11. ASSUME NEW o \in Operators, WriteStatus(o) PROVE FundsNeverLost'
    <3>1. PICK w \in Withdrawals : w = op[o].row
      BY <2>11, OperatorFields DEF WriteStatus
    <3>2. op[o].target = "completed" => Paid(w)'
      BY <2>0, <2>11, <3>1, SettledIsStable DEF WriteStatus, Accounted
    <3>3. ASSUME op[o].target = "failed" PROVE Settled(w)'
      <4>1. CASE op[o].seen \in {"failed", "completed"}
        BY <2>0, <2>11, <3>1, <4>1, SettledIsStable DEF WriteStatus, Accounted
      <4>2. CASE op[o].seen \notin {"failed", "completed"}
        BY <2>11, <3>1, <3>3, <4>2 DEF WriteStatus, Refunds, Settled, TypeOK
      <4> QED
        BY <4>1, <4>2
    <3>4. ASSUME NEW v \in Withdrawals, v # w PROVE status'[v] = status[v]
      BY <2>11, <3>1, <3>4 DEF WriteStatus, TypeOK
    <3>5. status'[w] = op[o].target
      BY <2>11, <3>1 DEF WriteStatus, TypeOK
    <3> QED
      BY <3>2, <3>3, <3>4, <3>5, SettledIsStable DEF FundsInv, FundsNeverLost
  <2>12. ASSUME NEW o \in Operators, CommitStatus(o) PROVE FundsInv'
    <3>1. Accounted(o)'
      BY <2>12 DEF CommitStatus, Accounted, Resumed, Scanning, NoOp, OpState, TypeOK
    <3> QED
      BY <2>1, <2>6, <2>11, <2>12, <3>1 DEF CommitStatus
  <2>13. ASSUME NEW o \in Operators, StatusReplyLost(o) PROVE FundsInv'
    <3>1. Accounted(o)'
      BY <2>13 DEF StatusReplyLost, Accounted, Caught, NoOp, OpState, TypeOK
    <3> QED
      BY <2>1, <2>6, <2>11, <2>13, <3>1 DEF StatusReplyLost
  <2>14. ASSUME NEW o \in Operators, SendSucceeds(o) PROVE FundsInv'
    <3>1. op[o].row \in Withdrawals
      BY <2>14, OperatorFields DEF SendSucceeds
    <3>2. Kept /\ Accounted(o)'
      BY <2>14, <3>1 DEF SendSucceeds, Accounted, Calling, OpState, rows, Paid, TypeOK
    <3> QED
      BY <2>1, <2>2, <2>6, <2>14, <3>2 DEF SendSucceeds
  <2>15. ASSUME NEW o \in Operators,
                \/ CronFires(o)
                \/ CronReturns(o)
                \/ SendFails(o)
                \/ SendReplyLost(o)
                \/ StatusRolledBack(o)
         PROVE  FundsInv'
    <3>1. Kept /\ Accounted(o)'
      BY <2>15 DEF CronFires, CronReturns, SendFails, SendReplyLost, StatusRolledBack, rows,
         Accounted, Calling, Scanning, Caught, NoOp, OpState, TypeOK
    <3> QED
      BY <2>1, <2>2, <2>6, <2>15, <3>1
         DEF CronFires, CronReturns, SendFails, SendReplyLost, StatusRolledBack
  <2>16. CASE Crash
    BY <2>1, <2>2, <2>16 DEF Crash, rows, Accounted, NoOp, OpState
  <2>17. CASE Next
    BY <2>4, <2>5, <2>7, <2>8, <2>9, <2>10, <2>12, <2>13, <2>14, <2>15, <2>16, <2>17, NextCases
       DEF CheckInFlight, CheckBalance, RequestFails, rows
  <2> QED
    BY <2>3, <2>17
<1>3. FundsInv => FundsNeverLost
  BY DEF FundsInv
<1> QED
  BY <1>1, <1>2, <1>3, TypeCorrect, PTL DEF Spec

-----------------------------------------------------------------------------
(* OnlyApprovedIsPaid.                                                      *)

Cleared(o) ==
    /\ op[o].todo \subseteq approvedOnce
    /\ op[o].pc = "send" => op[o].row \in approvedOnce

\* However stale the list a cron firing works from, the hot wallet pays only
\* rows an admin has approved.
THEOREM OnlyApprovedRowsArePaid == Spec => []OnlyApprovedIsPaid
<1>1. Init => ApprovalInv
  BY DEF Init, ApprovalInv, OnlyApprovedIsPaid, ApprovedRows, NoOp, OpState
<1>2. TypeOK /\ ApprovalInv /\ [Next]_vars => ApprovalInv'
  <2> SUFFICES ASSUME TypeOK, ApprovalInv, [Next]_vars PROVE ApprovalInv'
    OBVIOUS
  <2>0. \A o \in Operators : Cleared(o)
    BY DEF ApprovalInv, Cleared
  <2> DEFINE Still == /\ broadcasts' = broadcasts
                     /\ approvedOnce' = approvedOnce
                     /\ ApprovedRows' \subseteq ApprovedRows
  <2>1. ASSUME Still, \A o \in Operators : Cleared(o)' PROVE ApprovalInv'
    BY <2>1 DEF ApprovalInv, OnlyApprovedIsPaid, Cleared
  <2>2. ASSUME Still, op' = op PROVE ApprovalInv'
    BY <2>0, <2>1, <2>2 DEF Cleared
  <2>3. CASE UNCHANGED vars
    BY <2>2, <2>3 DEF vars, rows, history, ApprovedRows
  <2>4. ASSUME NEW r \in Requests, NEW w \in Withdrawals, Reserve(r, w) PROVE ApprovalInv'
    <3>1. ApprovedRows' \subseteq ApprovedRows
      BY <2>4 DEF Reserve, ApprovedRows, TypeOK
    <3> QED
      BY <2>2, <2>4, <3>1 DEF Reserve, history
  <2>5. ASSUME NEW o \in Operators, NEW s, op' = [op EXCEPT ![o] = s], Cleared(o)',
               approvedOnce \subseteq approvedOnce'
        PROVE  \A p \in Operators : Cleared(p)'
    <3>1. ASSUME NEW p \in Operators, p # o PROVE Cleared(p)'
      BY <2>0, <2>5, <3>1 DEF TypeOK, Cleared
    <3> QED
      BY <2>5, <3>1
  <2>6. ASSUME NEW o \in Operators, NEW w \in Withdrawals,
               \/ ReadForApproval(o, w)
               \/ rejectWithdrawal(o, w)
               \/ completeWithdrawal(o, w)
               \/ CronVisits(o, w)
               \/ CronReadFails(o, w)
        PROVE  ApprovalInv'
    <3>1. Still
      BY <2>6 DEF ReadForApproval, rejectWithdrawal, completeWithdrawal, CronVisits,
         CronReadFails, rows, history, ApprovedRows
    <3>2. Cleared(o)'
      BY <2>0, <2>6, <3>1 DEF ReadForApproval, rejectWithdrawal, completeWithdrawal, CronVisits,
         CronReadFails, Cleared, Calling, Scanning, Caught, NoOp, OpState, TypeOK, ApprovalInv
    <3> QED
      BY <2>1, <2>5, <2>6, <3>1, <3>2
         DEF ReadForApproval, rejectWithdrawal, completeWithdrawal, CronVisits, CronReadFails
  <2>7. ASSUME NEW o \in Operators, WriteApproval(o) PROVE ApprovalInv'
    <3>1. ApprovedRows' \subseteq approvedOnce'
      BY <2>7 DEF WriteApproval, ApprovedRows, ApprovalInv, TypeOK
    <3>2. Cleared(o)'
      BY <2>7 DEF WriteApproval, Cleared, NoOp, OpState, TypeOK
    <3> QED
      BY <2>5, <2>7, <3>1, <3>2 DEF WriteApproval, ApprovalInv, OnlyApprovedIsPaid, Cleared
  <2>8. ASSUME NEW o \in Operators, WriteStatus(o) PROVE Still
    <3>1. op[o].target # "approved"
      BY OperatorFields
    <3> QED
      BY <2>8, <3>1 DEF WriteStatus, ApprovedRows, TypeOK
  <2>9. ASSUME NEW o \in Operators, CommitStatus(o) PROVE ApprovalInv'
    <3>1. Cleared(o)'
      BY <2>0, <2>8, <2>9 DEF CommitStatus, Cleared, Resumed, Scanning, NoOp, OpState, TypeOK
    <3> QED
      BY <2>1, <2>5, <2>8, <2>9, <3>1 DEF CommitStatus
  <2>10. ASSUME NEW o \in Operators, StatusReplyLost(o) PROVE ApprovalInv'
    <3>1. Cleared(o)'
      BY <2>0, <2>8, <2>10 DEF StatusReplyLost, Cleared, Caught, NoOp, OpState, TypeOK
    <3> QED
      BY <2>1, <2>5, <2>8, <2>10, <3>1 DEF StatusReplyLost
  <2>11. ASSUME NEW o \in Operators, SendSucceeds(o) \/ SendReplyLost(o) PROVE ApprovalInv'
    <3>1. op[o].row \in Withdrawals /\ op[o].row \in approvedOnce
      BY <2>0, <2>11, OperatorFields DEF SendSucceeds, SendReplyLost, Cleared
    <3>2. Cleared(o)'
      BY <2>0, <2>11 DEF SendSucceeds, SendReplyLost, Cleared, Calling, Caught, NoOp,
         OpState, TypeOK
    <3>3. OnlyApprovedIsPaid'
      BY <2>11, <3>1 DEF SendSucceeds, SendReplyLost, ApprovalInv, OnlyApprovedIsPaid, TypeOK
    <3> QED
      BY <2>5, <2>11, <3>2, <3>3
         DEF SendSucceeds, SendReplyLost, ApprovalInv, ApprovedRows, Cleared, rows
  <2>12. ASSUME NEW o \in Operators,
                \/ LookupStatus(o)
                \/ CronFires(o)
                \/ CronReturns(o)
                \/ SendFails(o)
                \/ StatusRolledBack(o)
         PROVE  ApprovalInv'
    <3>1. Still
      BY <2>12 DEF LookupStatus, CronFires, CronReturns, SendFails, StatusRolledBack,
         rows, history, ApprovedRows
    <3>2. Cleared(o)'
      BY <2>0, <2>12, <3>1 DEF LookupStatus, CronFires, CronReturns, SendFails, StatusRolledBack,
         Cleared, Calling, Scanning, Caught, NoOp, OpState, TypeOK, ApprovalInv
    <3> QED
      BY <2>1, <2>5, <2>12, <3>1, <3>2
         DEF LookupStatus, CronFires, CronReturns, SendFails, StatusRolledBack
  <2>13. CASE Crash
    <3>1. Still
      BY <2>13 DEF Crash, rows, history, ApprovedRows
    <3> QED
      BY <2>1, <2>13, <3>1 DEF Crash, Cleared, NoOp, OpState
  <2>14. CASE Next
    BY <2>2, <2>4, <2>6, <2>7, <2>9, <2>10, <2>11, <2>12, <2>13, <2>14, NextCases
       DEF CheckInFlight, CheckBalance, RequestFails, rows, history, ApprovedRows
  <2> QED
    BY <2>3, <2>14
<1>3. ApprovalInv => OnlyApprovedIsPaid
  BY DEF ApprovalInv
<1> QED
  BY <1>1, <1>2, <1>3, TypeCorrect, PTL DEF Spec

-----------------------------------------------------------------------------
(* NoRefundOfLiveRow, when handlers and cron firings do not overlap.        *)

OneOperator == \A o, p \in Operators : o = p

InStep(o) ==
    LET w == op[o].row IN
    /\ op[o].pc = "approve" => status[w] = "pending"
    /\ op[o].pc = "commit" => op[o].seen = status[w]
    /\ op[o].pc \in {"lookup", "commit"} =>
         /\ op[o].target \in {"completed", "failed"}
         /\ status[w] # "none"
         /\ op[o].target = "completed" => returned[w] = 0
    /\ op[o].pc = "send" => status[w] = "approved"
    /\ op[o].pc = "idle" => ~op[o].cron /\ op[o].todo = {}
    /\ \A v \in op[o].todo : status[v] # "none"

\* The only operator finds its row as it left it.
LEMMA SerialStep ==
    ASSUME OneOperator, TypeOK, SerialInv, [Next]_vars
    PROVE  SerialInv'
<1>0. /\ \A o \in Operators : InStep(o)
      /\ NoRefundOfLiveRow
  BY DEF SerialInv, InStep
<1>1. ASSUME NoRefundOfLiveRow', \A o \in Operators : InStep(o)' PROVE SerialInv'
  BY <1>1 DEF SerialInv, InStep
<1> DEFINE Still == status' = status /\ returned' = returned
<1>2. ASSUME Still PROVE NoRefundOfLiveRow'
  BY <1>0, <1>2 DEF NoRefundOfLiveRow
<1>3. ASSUME Still, op' = op PROVE SerialInv'
  BY <1>0, <1>1, <1>2, <1>3 DEF InStep
<1>4. CASE UNCHANGED vars
  BY <1>3, <1>4 DEF vars, rows, history
<1>5. ASSUME NEW r \in Requests, NEW w \in Withdrawals, Reserve(r, w) PROVE SerialInv'
  <2>1. /\ returned' = returned
        /\ op' = op
        /\ \A v \in Withdrawals : status'[v] = IF v = w THEN "pending" ELSE status[v]
        /\ status[w] = "none"
    BY <1>5 DEF Reserve, history, TypeOK
  <2>2. NoRefundOfLiveRow'
    BY <1>0, <2>1 DEF NoRefundOfLiveRow
  <2>3. ASSUME NEW o \in Operators PROVE InStep(o)'
    <3>1. CASE op[o].row \in Withdrawals
      BY <1>0, <2>1, <3>1, OperatorFields DEF InStep
    <3>2. CASE op[o].row \notin Withdrawals
      BY <1>0, <2>1, <3>2, OperatorFields DEF InStep
    <3> QED
      BY <3>1, <3>2
  <2> QED
    BY <1>1, <2>2, <2>3
\* What is left is a step of the operator, and there is no other.
<1>6. ASSUME NEW o \in Operators, InStep(o)' PROVE \A p \in Operators : InStep(p)'
  BY <1>6 DEF OneOperator
<1>7. ASSUME NEW o \in Operators, NEW w \in Withdrawals,
             \/ ReadForApproval(o, w)
             \/ rejectWithdrawal(o, w)
             \/ completeWithdrawal(o, w)
             \/ CronVisits(o, w)
             \/ CronReadFails(o, w)
      PROVE  SerialInv'
  <2>1. Still
    BY <1>7 DEF ReadForApproval, rejectWithdrawal, completeWithdrawal, CronVisits,
       CronReadFails, rows, history
  <2>2. InStep(o)'
    <3>1. CASE ReadForApproval(o, w)
      BY <1>0, <2>1, <3>1 DEF ReadForApproval, InStep, OpState, TypeOK
    <3>2. CASE rejectWithdrawal(o, w) \/ completeWithdrawal(o, w)
      BY <1>0, <2>1, <3>2 DEF rejectWithdrawal, completeWithdrawal, InStep, Calling, OpState,
         NoRefundOfLiveRow, TypeOK
    <3>3. CASE CronVisits(o, w)
      BY <1>0, <2>1, <3>3 DEF CronVisits, InStep, Scanning, ApprovedRows, OpState, TypeOK
    <3>4. CASE CronReadFails(o, w)
      BY <1>0, <2>1, <3>4 DEF CronReadFails, InStep, Caught, NoOp, OpState, TypeOK
    <3> QED
      BY <1>7, <3>1, <3>2, <3>3, <3>4
  <2> QED
    BY <1>1, <1>2, <1>6, <2>1, <2>2
<1>8. ASSUME NEW o \in Operators, WriteApproval(o) PROVE SerialInv'
  <2>1. PICK w \in Withdrawals : w = op[o].row
    BY <1>8, OperatorFields DEF WriteApproval
  <2>2. status[w] = "pending"
    BY <1>0, <1>8, <2>1 DEF WriteApproval, InStep
  <2>3. NoRefundOfLiveRow'
    BY <1>0, <1>8, <2>1, <2>2 DEF WriteApproval, NoRefundOfLiveRow, TypeOK
  <2>4. InStep(o)'
    BY <1>8 DEF WriteApproval, InStep, NoOp, OpState, TypeOK
  <2> QED
    BY <1>1, <1>6, <2>3, <2>4
<1>9. ASSUME NEW o \in Operators, WriteStatus(o)
      PROVE  /\ NoRefundOfLiveRow'
             /\ \A v \in Withdrawals : status[v] # "none" => status'[v] # "none"
             /\ \A v \in Withdrawals : v = op[o].row => status'[v] # "none"
  <2>1. PICK w \in Withdrawals : w = op[o].row
    BY <1>9, OperatorFields DEF WriteStatus
  <2>2. /\ op[o].seen = status[w]
        /\ op[o].target \in {"completed", "failed"}
        /\ op[o].target = "completed" => returned[w] = 0
    BY <1>0, <1>9, <2>1 DEF WriteStatus, InStep
  <2>3. \A v \in Withdrawals : status'[v] = IF v = w THEN op[o].target ELSE status[v]
    BY <1>9, <2>1 DEF WriteStatus, TypeOK
  <2>4. \A v \in Withdrawals : v # w => returned'[v] = returned[v]
    BY <1>9, <2>1 DEF WriteStatus, TypeOK
  <2>5. CASE Refunds(op[o].target, op[o].seen)
    <3>1. returned'[w] = 1 /\ op[o].target = "failed"
      BY <1>0, <1>9, <2>1, <2>2, <2>5 DEF WriteStatus, Refunds, NoRefundOfLiveRow, TypeOK
    <3> QED
      BY <1>0, <2>1, <2>2, <2>3, <2>4, <3>1 DEF NoRefundOfLiveRow
  <2>6. CASE ~Refunds(op[o].target, op[o].seen)
    BY <1>0, <1>9, <2>1, <2>2, <2>3, <2>4, <2>6 DEF WriteStatus, NoRefundOfLiveRow
  <2> QED
    BY <2>5, <2>6
<1>10. ASSUME NEW o \in Operators, CommitStatus(o) PROVE SerialInv'
  <2>1. InStep(o)'
    BY <1>0, <1>9, <1>10, OperatorFields
       DEF CommitStatus, InStep, Resumed, Scanning, NoOp, OpState, TypeOK
  <2> QED
    BY <1>1, <1>6, <1>9, <1>10, <2>1 DEF CommitStatus
<1>11. ASSUME NEW o \in Operators, StatusReplyLost(o) PROVE SerialInv'
  <2>1. op[o].row \in Withdrawals
    BY <1>11, OperatorFields DEF StatusReplyLost, WriteStatus
  <2>2. InStep(o)'
    BY <1>0, <1>9, <1>11, <2>1, OperatorFields
       DEF StatusReplyLost, InStep, Caught, NoOp, OpState, TypeOK
  <2> QED
    BY <1>1, <1>6, <1>9, <1>11, <2>2 DEF StatusReplyLost
<1>12. ASSUME NEW o \in Operators,
              \/ LookupStatus(o)
              \/ CronFires(o)
              \/ CronReturns(o)
              \/ SendSucceeds(o)
              \/ SendFails(o)
              \/ SendReplyLost(o)
              \/ StatusRolledBack(o)
       PROVE  SerialInv'
  <2>1. Still
    BY <1>12 DEF LookupStatus, CronFires, CronReturns, SendSucceeds, SendFails, SendReplyLost,
       StatusRolledBack, rows, history
  <2>2. InStep(o)'
    <3>1. CASE LookupStatus(o)
      BY <1>0, <2>1, <3>1 DEF LookupStatus, InStep, OpState, TypeOK
    <3>2. CASE CronFires(o) \/ CronReturns(o)
      BY <2>1, <3>2 DEF CronFires, CronReturns, InStep, Scanning, ApprovedRows, NoOp,
         OpState, TypeOK
    <3>3. ASSUME SendSucceeds(o) \/ SendFails(o) \/ SendReplyLost(o) PROVE InStep(o)'
      <4>1. op[o].row \in Withdrawals /\ status[op[o].row] = "approved"
        BY <1>0, <3>3, OperatorFields DEF SendSucceeds, SendFails, SendReplyLost, InStep
      <4>2. returned[op[o].row] = 0
        BY <1>0, <4>1 DEF NoRefundOfLiveRow
      <4> QED
        BY <1>0, <2>1, <3>3, <4>1, <4>2 DEF SendSucceeds, SendFails, SendReplyLost, InStep,
           Calling, Caught, NoOp, OpState, TypeOK
    <3>4. CASE StatusRolledBack(o)
      BY <1>0, <2>1, <3>4 DEF StatusRolledBack, InStep, Caught, NoOp, OpState, TypeOK
    <3> QED
      BY <1>12, <3>1, <3>2, <3>3, <3>4
  <2> QED
    BY <1>1, <1>2, <1>6, <2>1, <2>2
<1>13. CASE Crash
  <2>1. Still
    BY <1>13 DEF Crash, rows, history
  <2> QED
    BY <1>1, <1>2, <1>13, <2>1 DEF Crash, InStep, NoOp, OpState
<1>14. CASE Next
  BY <1>3, <1>5, <1>7, <1>8, <1>10, <1>11, <1>12, <1>13, <1>14, NextCases
     DEF CheckInFlight, CheckBalance, RequestFails, rows, history
<1> QED
  BY <1>4, <1>14

\* While no two of them run at once, no admin request and no cron firing ever
\* refunds a row that is open or completed, or refunds a row twice, whatever
\* faults and restarts happen.
THEOREM SerialRefundsAreSound ==
    ASSUME OneOperator
    PROVE  Spec => []NoRefundOfLiveRow
<1>1. Init => SerialInv
  BY DEF Init, SerialInv, NoRefundOfLiveRow, NoOp, OpState
<1>2. TypeOK /\ SerialInv /\ [Next]_vars => SerialInv'
  BY SerialStep
<1>3. SerialInv => NoRefundOfLiveRow
  BY DEF SerialInv
<1> QED
  BY <1>1, <1>2, <1>3, TypeCorrect, PTL DEF Spec

\* While admin requests and cron firings do not overlap, the cron sends a
\* withdrawal only while its row says approved: what it re-read is still so when
\* the transfer is made, whatever faults and restarts happen.
THEOREM SerialSendsAreApproved ==
    ASSUME OneOperator
    PROVE  Spec => SendsOnlyWhileApproved
<1>1. Init => SerialInv
  BY DEF Init, SerialInv, NoRefundOfLiveRow, NoOp, OpState
<1>2. TypeOK /\ SerialInv /\ [Next]_vars => SerialInv'
  BY SerialStep
<1>3. ASSUME TypeOK, SerialInv, [Next]_vars, NEW w \in Withdrawals, broadcasts'[w] > broadcasts[w]
      PROVE  status[w] = "approved"
  <2>1. broadcasts[w] \in Nat
    BY <1>3 DEF TypeOK
  <2>2. CASE broadcasts' = broadcasts
    BY <1>3, <2>1, <2>2
  <2>3. ASSUME NEW o \in Operators, op[o].pc = "send",
               broadcasts' = [broadcasts EXCEPT ![op[o].row] = @ + 1]
        PROVE  status[w] = "approved"
    <3>1. op[o].row = w
      BY <1>3, <2>1, <2>3 DEF TypeOK
    <3> QED
      BY <1>3, <2>3, <3>1 DEF SerialInv
  <2>4. CASE Next
    BY <2>2, <2>3, <2>4, NextCases
       DEF CheckInFlight, CheckBalance, Reserve, RequestFails, ReadForApproval, WriteApproval,
           rejectWithdrawal, completeWithdrawal, LookupStatus, CommitStatus, WriteStatus,
           CronFires, CronVisits, CronReadFails, CronReturns, SendSucceeds, SendFails,
           SendReplyLost, StatusRolledBack, StatusReplyLost, Crash, history
  <2> QED
    BY <1>3, <2>2, <2>4 DEF vars, history
<1>4. TypeOK /\ SerialInv /\ [Next]_vars =>
        [\A w \in Withdrawals : broadcasts'[w] > broadcasts[w] => status[w] = "approved"]_vars
  BY <1>3
<1> QED
  BY <1>1, <1>2, <1>4, TypeCorrect, PTL DEF Spec, SendsOnlyWhileApproved

-----------------------------------------------------------------------------
(* BalanceNotNegative, when no two requests are in flight at once.          *)

OneRequest == \A r, s \in Requests : r = s

\* Nothing but the only request takes from a balance.
LEMMA CoveredStep ==
    ASSUME OneRequest, TypeOK, CoveredInv, [Next]_vars
    PROVE  CoveredInv'
<1>1. ASSUME req' = req, \A u \in Users : polBalance'[u] >= polBalance[u]
      PROVE  CoveredInv'
  <2>1. BalanceNotNegative'
    BY <1>1, TypeStep DEF CoveredInv, BalanceNotNegative, TypeOK
  <2>2. ASSUME NEW r \in Requests, req[r].pc = "reserve"
        PROVE  polBalance'[req[r].user] >= req[r].amount
    <3>1. PICK u \in Users : u = req[r].user
      BY <2>2, RequestFields
    <3>2. req[r].amount \in Nat /\ polBalance[u] \in Int /\ polBalance'[u] \in Int
      BY <2>2, <3>1, RequestFields, TypeStep DEF TypeOK
    <3> QED
      BY <1>1, <2>2, <3>1, <3>2 DEF CoveredInv
  <2> QED
    BY <1>1, <2>1, <2>2 DEF CoveredInv
<1>2. ASSUME polBalance' = polBalance, req' = req PROVE CoveredInv'
  BY <1>2 DEF CoveredInv, BalanceNotNegative
<1>3. CASE UNCHANGED vars
  BY <1>2, <1>3 DEF vars
<1>4. ASSUME NEW r \in Requests, NEW u \in Users, NEW a \in Amounts, CheckInFlight(r, u, a)
      PROVE  CoveredInv'
  BY <1>4 DEF CheckInFlight, CoveredInv, BalanceNotNegative, TypeOK
<1>5. ASSUME NEW r \in Requests, CheckBalance(r) PROVE CoveredInv'
  <2>1. PICK u \in Users : u = req[r].user
    BY <1>5, RequestFields DEF CheckBalance
  <2>2. req[r].amount \in Nat /\ polBalance[u] \in Int
    BY <1>5, <2>1, RequestFields DEF CheckBalance, TypeOK
  <2>3. polBalance' = polBalance
    BY <1>5 DEF CheckBalance
  <2>4. req'[r].pc = "reserve" => polBalance[req'[r].user] >= req'[r].amount
    BY <1>5, <2>1, <2>2 DEF CheckBalance, NoRequest, TypeOK
  <2> QED
    BY <2>3, <2>4 DEF OneRequest, CoveredInv, BalanceNotNegative
<1>6. ASSUME NEW r \in Requests, NEW w \in Withdrawals, Reserve(r, w) PROVE CoveredInv'
  <2>1. PICK u \in Users : u = req[r].user
    BY <1>6, RequestFields DEF Reserve
  <2>2. req[r].amount \in Nat /\ polBalance[u] \in Int /\ polBalance[u] >= req[r].amount
    BY <1>6, <2>1, RequestFields DEF Reserve, CoveredInv, TypeOK
  <2>3. polBalance' = [polBalance EXCEPT ![u] = polBalance[u] - req[r].amount]
    BY <1>6, <2>1 DEF Reserve
  <2>4. polBalance'[u] = polBalance[u] - req[r].amount
          /\ \A v \in Users \ {u} : polBalance'[v] = polBalance[v]
    BY <2>1, <2>3 DEF TypeOK
  <2>5. BalanceNotNegative'
    BY <2>2, <2>4 DEF CoveredInv, BalanceNotNegative
  <2>6. req'[r].pc = "idle"
    BY <1>6 DEF Reserve, NoRequest, TypeOK
  <2> QED
    BY <2>5, <2>6 DEF OneRequest, CoveredInv
<1>7. ASSUME NEW r \in Requests, RequestFails(r) PROVE CoveredInv'
  BY <1>7 DEF RequestFails, NoRequest, OneRequest, CoveredInv, BalanceNotNegative, TypeOK
<1>8. ASSUME NEW o \in Operators, WriteStatus(o), req' = req PROVE CoveredInv'
  <2>1. PICK w \in Withdrawals : w = op[o].row
    BY <1>8, OperatorFields DEF WriteStatus
  <2>2. amount[w] \in Nat
    BY DEF TypeOK
  <2>3. ASSUME NEW u \in Users PROVE polBalance'[u] >= polBalance[u]
    BY <1>8, <2>1, <2>2 DEF WriteStatus, TypeOK
  <2> QED
    BY <1>1, <1>8, <2>3
<1>9. ASSUME NEW o \in Operators, CommitStatus(o) \/ StatusReplyLost(o) PROVE CoveredInv'
  BY <1>8, <1>9 DEF CommitStatus, StatusReplyLost, WriteStatus
<1>10. CASE Crash
  BY <1>10 DEF Crash, NoRequest, CoveredInv, BalanceNotNegative
<1>11. CASE Next
  BY <1>2, <1>4, <1>5, <1>6, <1>7, <1>9, <1>10, <1>11, NextCases
     DEF ReadForApproval, rejectWithdrawal, completeWithdrawal, CronVisits, CronReadFails,
         WriteApproval, LookupStatus, CronFires, CronReturns, SendSucceeds, SendFails,
         SendReplyLost, StatusRolledBack
<1> QED
  BY <1>3, <1>11

\* While requests do not overlap, a withdrawal never takes more than its user
\* has, whatever refunds, faults and restarts come between the reading of the
\* balance and the decrement.
THEOREM SerialRequestsAreCovered ==
    ASSUME OneRequest
    PROVE  Spec => []BalanceNotNegative
<1>1. Init => CoveredInv
  BY WithdrawalsAssumption DEF Init, CoveredInv, BalanceNotNegative, NoRequest
<1>2. TypeOK /\ CoveredInv /\ [Next]_vars => CoveredInv'
  BY CoveredStep
<1>3. CoveredInv => BalanceNotNegative
  BY DEF CoveredInv
<1> QED
  BY <1>1, <1>2, <1>3, TypeCorrect, PTL DEF Spec
-----------------------------------------------------------------------------
(* The promise of Settlement.                                               *)

InTurn == OneOperator /\ OneRequest /\ MaxFaults = 0 /\ MaxCrashes = 0

\* Everything the steps rely on.
Kept == TypeOK /\ SerialInv /\ CoveredInv /\ PromiseInv

\* Without faults and restarts the actions that model them are never taken.
LEMMA NothingFails ==
    ASSUME InTurn, TypeOK, Next
    PROVE  \/ \E r \in Requests : RequestStep(r)
           \/ \E o \in Operators : AdminStep(o) \/ CronFires(o) \/ OperatorStep(o)
<1>1. faults = 0 /\ crashes = 0
  BY DEF InTurn, TypeOK
<1>2. ~Fault /\ ~Crash
  BY <1>1 DEF InTurn, Fault, Crash
<1>3. \A o \in Operators : ~FaultStep(o)
  BY <1>2 DEF FaultStep, SendReplyLost, CronReadFails, StatusRolledBack, StatusReplyLost
<1> QED
  BY <1>2, <1>3 DEF Next

-----------------------------------------------------------------------------
(* The invariant: one lemma for each kind of step.                          *)

\* PromiseInv looks at nothing but the rows, the history and what the only
\* operator and the only request do.
LEMMA OperatorMoves ==
    ASSUME InTurn, Kept, NEW o \in Operators,
           ActsInTurn(o)', \A w \in Withdrawals : RowIsTrue(w)',
           owner' = owner, req' = req,
           \A w \in Withdrawals : Open(w)' => Open(w)
    PROVE  PromiseInv'
<1>1. \A p \in Operators : ActsInTurn(p)'
  BY DEF InTurn, OneOperator
<1>2. OneInFlightPerUser'
  BY DEF Kept, PromiseInv, OneInFlightPerUser
<1>3. \A w \in Withdrawals : status[w] \in IN_FLIGHT_WITHDRAW_STATUSES <=> Open(w)
  BY DEF Open, IN_FLIGHT_WITHDRAW_STATUSES
<1>4. \A w \in Withdrawals : (status[w] \in IN_FLIGHT_WITHDRAW_STATUSES)' <=> Open(w)'
  BY DEF Open, IN_FLIGHT_WITHDRAW_STATUSES
<1>5. (\A r \in Requests : req[r].pc # "idle" => InFlight(req[r].user) = {})'
  <2> SUFFICES ASSUME NEW r \in Requests, req[r].pc # "idle", NEW w \in Withdrawals,
                      owner[w] = req[r].user, Open(w)'
               PROVE  FALSE
    BY <1>4 DEF InFlight
  <2> QED
    BY <1>3 DEF Kept, PromiseInv, InFlight
<1> QED
  BY <1>1, <1>2, <1>5 DEF PromiseInv

LEMMA RequestKeeps ==
    ASSUME InTurn, Kept, NEW r \in Requests, RequestStep(r)
    PROVE  PromiseInv'
<1>1. ASSUME UNCHANGED <<rows, op, history>>,
             req'[r].pc # "idle" => InFlight(req'[r].user) = {}
      PROVE  PromiseInv'
  BY <1>1 DEF InTurn, OneRequest, Kept, PromiseInv, OneInFlightPerUser, Open, RowIsTrue, Unpaid,
     PaidOnce, Completing, Writes, ActsInTurn, InFlight, rows, history
<1>2. ASSUME NEW u \in Users, NEW a \in Amounts, CheckInFlight(r, u, a) PROVE PromiseInv'
  <2>1. InFlight(req'[r].user) = {}
    BY <1>2 DEF CheckInFlight, Kept, TypeOK
  <2> QED
    BY <1>1, <1>2, <2>1 DEF CheckInFlight
<1>3. CASE CheckBalance(r)
  <2>1. req'[r].pc # "idle" => req'[r].user = req[r].user /\ req[r].pc # "idle"
    BY <1>3 DEF CheckBalance, NoRequest, Kept, TypeOK
  <2>2. InFlight(req[r].user) = {}
    BY <1>3 DEF CheckBalance, Kept, PromiseInv
  <2> QED
    BY <1>1, <1>3, <2>1, <2>2 DEF CheckBalance
<1>4. CASE RequestFails(r)
  BY <1>1, <1>4 DEF RequestFails, NoRequest, Kept, TypeOK
<1>5. ASSUME NEW w \in Withdrawals, Reserve(r, w) PROVE PromiseInv'
  <2>1. PICK u \in Users : u = req[r].user
    BY <1>5, RequestFields DEF Reserve, Kept
  <2>2. /\ \A v \in Withdrawals : status'[v] = IF v = w THEN "pending" ELSE status[v]
        /\ \A v \in Withdrawals : owner'[v] = IF v = w THEN u ELSE owner[v]
        /\ op' = op /\ broadcasts' = broadcasts /\ returned' = returned /\ handPaid' = handPaid
        /\ req'[r].pc = "idle"
        /\ status[w] = "none"
    BY <1>5, <2>1 DEF Reserve, NoRequest, history, Kept, TypeOK
  <2>3. \A v \in Withdrawals : ~(owner[v] = u /\ Open(v))
    BY <1>5, <2>1 DEF Reserve, Kept, PromiseInv, InFlight, IN_FLIGHT_WITHDRAW_STATUSES, Open
  <2>4. OneInFlightPerUser'
    BY <2>2, <2>3 DEF Kept, PromiseInv, OneInFlightPerUser, Open
  <2>5. \A v \in Withdrawals : RowIsTrue(v)'
    BY <2>2 DEF Kept, PromiseInv, RowIsTrue, Unpaid, PaidOnce, Completing, Writes
  <2>6. \A o \in Operators : ActsInTurn(o)'
    <3> SUFFICES ASSUME NEW o \in Operators PROVE ActsInTurn(o)'
      OBVIOUS
    <3>1. ActsInTurn(o)
      BY DEF Kept, PromiseInv
    <3>2. CASE op[o].pc \in {"lookup", "commit", "send"}
      <4>1. op[o].row \in Withdrawals
        BY <3>2, OperatorFields DEF Kept
      <4>2. op[o].row # w
        BY <2>2, <3>1, <3>2, OperatorFields
           DEF ActsInTurn, Writes, Open, Kept, SerialInv
      <4> QED
        BY <2>2, <3>1, <4>1, <4>2 DEF ActsInTurn, Writes, Open, Unpaid, PaidOnce
    <3>3. CASE op[o].pc \notin {"lookup", "commit", "send"}
      BY <2>2, <3>3 DEF ActsInTurn, Writes
    <3> QED
      BY <3>2, <3>3
  <2> QED
    BY <2>2, <2>4, <2>5, <2>6 DEF InTurn, OneRequest, PromiseInv
<1> QED
  BY <1>2, <1>3, <1>4, <1>5 DEF RequestStep

LEMMA AdminKeeps ==
    ASSUME InTurn, Kept, NEW o \in Operators, NEW w \in Withdrawals,
           \/ ReadForApproval(o, w)
           \/ rejectWithdrawal(o, w)
           \/ completeWithdrawal(o, w)
    PROVE  PromiseInv'
<1>1. op[o].pc = "idle" /\ RowIsTrue(w) /\ status' = status /\ owner' = owner /\ req' = req
  BY DEF ReadForApproval, rejectWithdrawal, completeWithdrawal, Kept, PromiseInv, rows
<1>2. \A v \in Withdrawals : ~Completing(v)
  BY <1>1 DEF Completing, Writes, InTurn, OneOperator
<1>3. CASE ReadForApproval(o, w)
  <2>1. op'[o].pc = "approve"
    BY <1>3 DEF ReadForApproval, OpState, Kept, TypeOK
  <2>2. ActsInTurn(o)'
    BY <2>1 DEF ActsInTurn, Writes
  <2>3. \A v \in Withdrawals : RowIsTrue(v)'
    BY <1>2, <1>3 DEF ReadForApproval, Kept, PromiseInv, RowIsTrue, Unpaid, PaidOnce, rows, history
  <2> QED
    BY <1>1, <2>2, <2>3, OperatorMoves DEF Open
<1>4. CASE rejectWithdrawal(o, w)
  <2>1. op'[o] = Calling(o, w, "failed")
    BY <1>4 DEF rejectWithdrawal, Kept, TypeOK
  <2>2. Unpaid(w) /\ Open(w)
    BY <1>1, <1>2, <1>4 DEF rejectWithdrawal, RowIsTrue, Open
  <2>3. ActsInTurn(o)'
    BY <1>4, <2>1, <2>2
       DEF rejectWithdrawal, ActsInTurn, Writes, Calling, OpState, Open, Unpaid, rows, history
  <2>4. \A v \in Withdrawals : RowIsTrue(v)'
    BY <1>2, <1>4 DEF rejectWithdrawal, Kept, PromiseInv, RowIsTrue, Unpaid, PaidOnce, rows, history
  <2> QED
    BY <1>1, <2>3, <2>4, OperatorMoves DEF Open
<1>5. CASE completeWithdrawal(o, w)
  <2>1. op'[o] = Calling(o, w, "completed") /\ handPaid' = handPaid \cup {w}
          /\ broadcasts' = broadcasts /\ returned' = returned /\ status[w] = "approved"
    BY <1>5 DEF completeWithdrawal, Kept, TypeOK
  <2>2. Unpaid(w)
    BY <1>1, <1>2, <2>1 DEF RowIsTrue
  <2>3. PaidOnce(w)' /\ Completing(w)'
    BY <2>1, <2>2 DEF Unpaid, PaidOnce, Completing, Writes, Calling, OpState
  <2>4. ActsInTurn(o)'
    BY <1>1, <2>1, <2>3 DEF ActsInTurn, Writes, Calling, OpState
  <2>5. ASSUME NEW v \in Withdrawals PROVE RowIsTrue(v)'
    <3>1. CASE v = w
      BY <1>1, <2>1, <2>3, <3>1 DEF RowIsTrue
    <3>2. CASE v # w
      BY <1>1, <1>2, <2>1, <3>2 DEF Kept, PromiseInv, RowIsTrue, Unpaid, PaidOnce
    <3> QED
      BY <3>1, <3>2
  <2> QED
    BY <1>1, <2>4, <2>5, OperatorMoves DEF Open
<1> QED
  BY <1>3, <1>4, <1>5

\* The steps that change nothing but what the operator does next.
LEMMA TurningKeeps ==
    ASSUME InTurn, Kept, NEW o \in Operators,
           \/ LookupStatus(o)
           \/ \E w \in Withdrawals : CronVisits(o, w)
           \/ CronReturns(o)
           \/ CronFires(o)
           \/ SendFails(o)
    PROVE  PromiseInv'
<1>1. UNCHANGED <<rows, req, history>>
  BY DEF LookupStatus, CronVisits, CronReturns, CronFires, SendFails
<1>2. ActsInTurn(o) /\ \A v \in Withdrawals : RowIsTrue(v)
  BY DEF Kept, PromiseInv
<1>3. CASE LookupStatus(o)
  <2>1. op'[o].pc = "commit" /\ op[o].pc = "lookup"
          /\ op'[o].row = op[o].row /\ op'[o].target = op[o].target
    BY <1>3 DEF LookupStatus, OpState, Kept, TypeOK
  <2>2. ActsInTurn(o)'
    BY <1>1, <1>2, <2>1 DEF ActsInTurn, Writes, Open, Unpaid, PaidOnce, rows, history
  <2>3. \A v \in Withdrawals : Completing(v) => Completing(v)'
    BY <2>1 DEF Completing, Writes, InTurn, OneOperator
  <2>4. \A v \in Withdrawals : RowIsTrue(v)'
    BY <1>1, <1>2, <2>3 DEF RowIsTrue, Unpaid, PaidOnce, rows, history
  <2> QED
    BY <1>1, <2>2, <2>4, OperatorMoves DEF Open, rows
<1>4. ASSUME op[o].pc \in {"idle", "scan", "send"}, ActsInTurn(o)' PROVE PromiseInv'
  <2>1. \A v \in Withdrawals : ~Completing(v)
    BY <1>4 DEF Completing, Writes, InTurn, OneOperator
  <2>2. \A v \in Withdrawals : RowIsTrue(v)'
    BY <1>1, <1>2, <2>1 DEF RowIsTrue, Unpaid, PaidOnce, rows, history
  <2> QED
    BY <1>1, <1>4, <2>2, OperatorMoves DEF Open, rows
<1>5. ASSUME NEW w \in Withdrawals, CronVisits(o, w) PROVE PromiseInv'
  <2>1. CASE w \in ApprovedRows
    <3>1. op'[o] = OpState("send", w, "none", "none", TRUE, op[o].todo \ {w})
      BY <1>5, <2>1 DEF CronVisits, Kept, TypeOK
    <3>2. ~Completing(w) /\ status[w] = "approved"
      BY <1>5, <2>1 DEF CronVisits, ApprovedRows, Completing, Writes, InTurn, OneOperator
    <3>3. Unpaid(w)
      BY <1>2, <3>2 DEF RowIsTrue
    <3> QED
      BY <1>1, <1>4, <1>5, <3>1, <3>3
         DEF CronVisits, ActsInTurn, Writes, OpState, Unpaid, history
  <2>2. CASE w \notin ApprovedRows
    BY <1>4, <1>5, <2>2 DEF CronVisits, Scanning, OpState, ActsInTurn, Writes, Kept, TypeOK
  <2> QED
    BY <2>1, <2>2
<1>6. CASE CronReturns(o) \/ CronFires(o)
  BY <1>4, <1>6 DEF CronReturns, CronFires, Scanning, NoOp, OpState, ActsInTurn, Writes, Kept, TypeOK
<1>7. CASE SendFails(o)
  <2>1. op'[o] = Calling(o, op[o].row, "failed")
    BY <1>7 DEF SendFails, Kept, TypeOK
  <2>2. status[op[o].row] = "approved" /\ Unpaid(op[o].row)
    BY <1>2, <1>7 DEF SendFails, ActsInTurn, Kept, SerialInv
  <2> QED
    BY <1>1, <1>4, <1>7, <2>1, <2>2
       DEF SendFails, ActsInTurn, Writes, Calling, OpState, Open, Unpaid, rows, history
<1> QED
  BY <1>3, <1>5, <1>6, <1>7

LEMMA WritingKeeps ==
    ASSUME InTurn, Kept, NEW o \in Operators,
           WriteApproval(o) \/ CommitStatus(o) \/ SendSucceeds(o)
    PROVE  PromiseInv'
<1>1. ActsInTurn(o) /\ \A v \in Withdrawals : RowIsTrue(v)
  BY DEF Kept, PromiseInv
<1>2. PICK w \in Withdrawals : w = op[o].row
  BY OperatorFields DEF WriteApproval, CommitStatus, WriteStatus, SendSucceeds, Kept
<1>3. \A v \in Withdrawals \ {w} : ~Completing(v)
  BY <1>2 DEF Completing, InTurn, OneOperator
<1>4. ASSUME \A v \in Withdrawals \ {w} :
               /\ status'[v] = status[v] /\ broadcasts'[v] = broadcasts[v]
               /\ returned'[v] = returned[v] /\ (v \in handPaid' <=> v \in handPaid),
             Open(w)' => Open(w),
             RowIsTrue(w)', ActsInTurn(o)', owner' = owner, req' = req
      PROVE  PromiseInv'
  <2>1. ASSUME NEW v \in Withdrawals \ {w} PROVE RowIsTrue(v)'
    BY <1>1, <1>3, <1>4, <2>1 DEF RowIsTrue, Unpaid, PaidOnce
  <2>2. \A v \in Withdrawals : Open(v)' => Open(v)
    BY <1>4 DEF Open
  <2> QED
    BY <1>4, <2>1, <2>2, OperatorMoves
<1>5. CASE WriteApproval(o)
  <2>1. status[w] = "pending"
    BY <1>2, <1>5 DEF WriteApproval, Kept, SerialInv
  <2>2. /\ \A v \in Withdrawals : status'[v] = IF v = w THEN "approved" ELSE status[v]
        /\ op'[o] = NoOp /\ owner' = owner /\ req' = req
        /\ broadcasts' = broadcasts /\ returned' = returned /\ handPaid' = handPaid
    BY <1>2, <1>5 DEF WriteApproval, Kept, TypeOK
  <2>3. RowIsTrue(w)' /\ Open(w)
    BY <1>1, <2>1, <2>2 DEF RowIsTrue, Unpaid, Open
  <2>4. ActsInTurn(o)'
    BY <2>2 DEF ActsInTurn, Writes, NoOp, OpState
  <2> QED
    BY <1>4, <2>2, <2>3, <2>4
<1>6. CASE CommitStatus(o)
  <2>1. op[o].target \in {"completed", "failed"} /\ op[o].seen = status[w]
          /\ Writes(o, op[o].target)
    BY <1>2, <1>6, OperatorFields DEF CommitStatus, WriteStatus, Kept, SerialInv, Writes
  <2>2. op[o].seen \in {"pending", "approved"}
    BY <1>1, <1>2, <2>1 DEF ActsInTurn, Open
  <2>3. /\ \A v \in Withdrawals : status'[v] = IF v = w THEN op[o].target ELSE status[v]
        /\ op'[o] = Resumed(o) /\ owner' = owner /\ req' = req
        /\ broadcasts' = broadcasts /\ handPaid' = handPaid
    BY <1>2, <1>6 DEF CommitStatus, WriteStatus, Kept, TypeOK
  <2>4. \A v \in Withdrawals : returned'[v] =
          IF v = w /\ op[o].target = "failed" THEN returned[v] + 1 ELSE returned[v]
    BY <1>2, <1>6, <2>1, <2>2 DEF CommitStatus, WriteStatus, Refunds, Kept, TypeOK
  <2>5. returned[w] = 0 /\ Open(w)
    BY <1>1, <2>1, <2>2 DEF RowIsTrue, Open
  <2>6. RowIsTrue(w)'
    BY <1>1, <1>2, <2>1, <2>3, <2>4, <2>5 DEF RowIsTrue, ActsInTurn, Unpaid, PaidOnce
  <2>7. ActsInTurn(o)'
    BY <2>3 DEF ActsInTurn, Writes, Resumed, Scanning, NoOp, OpState
  <2> QED
    BY <1>4, <2>3, <2>4, <2>5, <2>6, <2>7
<1>7. CASE SendSucceeds(o)
  <2>1. status[w] = "approved" /\ Unpaid(w)
    BY <1>1, <1>2, <1>7 DEF SendSucceeds, ActsInTurn, Kept, SerialInv
  <2>2. /\ \A v \in Withdrawals :
              broadcasts'[v] = IF v = w THEN broadcasts[v] + 1 ELSE broadcasts[v]
        /\ op'[o] = Calling(o, w, "completed") /\ UNCHANGED <<rows, req, returned, handPaid>>
    BY <1>2, <1>7 DEF SendSucceeds, Kept, TypeOK
  <2>3. PaidOnce(w)' /\ Completing(w)'
    BY <2>1, <2>2 DEF Unpaid, PaidOnce, Completing, Writes, Calling, OpState
  <2>4. RowIsTrue(w)'
    BY <1>1, <2>1, <2>2, <2>3 DEF RowIsTrue, rows
  <2>5. ActsInTurn(o)'
    BY <2>1, <2>2, <2>3 DEF ActsInTurn, Writes, Calling, OpState, rows
  <2> QED
    BY <1>4, <2>1, <2>2, <2>4, <2>5 DEF Open, rows
<1> QED
  BY <1>5, <1>6, <1>7

LEMMA PromiseStep ==
    ASSUME InTurn, Kept, [Next]_vars
    PROVE  PromiseInv'
<1>1. CASE UNCHANGED vars
  BY <1>1 DEF vars, rows, history, Kept, PromiseInv, OneInFlightPerUser, Open, RowIsTrue, Unpaid,
     PaidOnce, Completing, Writes, ActsInTurn, InFlight
<1>2. CASE Next
  BY <1>2, NothingFails, RequestKeeps, AdminKeeps, TurningKeeps, WritingKeeps
     DEF Kept, AdminStep, OperatorStep
<1> QED
  BY <1>1, <1>2

LEMMA Keeps == ASSUME InTurn PROVE Spec => []Kept
<1>1. Init => Kept
  <2>1. Init => TypeOK
    BY WithdrawalsAssumption DEF Init, TypeOK, Statuses, ReqStates, OpStates, OpStatesOf, NoOp, OpState
  <2>2. Init => SerialInv /\ CoveredInv
    BY WithdrawalsAssumption DEF Init, SerialInv, NoRefundOfLiveRow, NoOp, OpState, CoveredInv,
       BalanceNotNegative, NoRequest
  <2>3. Init => PromiseInv
    BY DEF Init, PromiseInv, OneInFlightPerUser, Open, RowIsTrue, Unpaid, ActsInTurn, Writes,
       NoOp, OpState, NoRequest
  <2> QED
    BY <2>1, <2>2, <2>3 DEF Kept
<1>2. Kept /\ [Next]_vars => Kept'
  BY TypeStep, SerialStep, CoveredStep, PromiseStep DEF Kept, InTurn
<1> QED
  BY <1>1, <1>2, PTL DEF Spec

-----------------------------------------------------------------------------
(* What it gives.                                                           *)

\* In turn and without faults, a withdrawal's amount leaves the house once at
\* most: on chain, by an admin's own transfer, or back to the balance.
THEOREM PaidOrReturned == ASSUME InTurn PROVE Spec => []PaidOrReturnedOnce
<1>1. Kept => PaidOrReturnedOnce
  <2> SUFFICES ASSUME Kept, NEW w \in Withdrawals
               PROVE  broadcasts[w] + returned[w] + (IF w \in handPaid THEN 1 ELSE 0) <= 1
    BY DEF PaidOrReturnedOnce
  <2> QED
    BY DEF Kept, PromiseInv, RowIsTrue, Unpaid, PaidOnce, TypeOK, Statuses
<1> QED
  BY <1>1, Keeps, PTL

\* In turn, a user never has two withdrawals that wait to be settled.
THEOREM OneInFlight == ASSUME InTurn PROVE Spec => []OneInFlightPerUser
<1>1. Kept => OneInFlightPerUser
  BY DEF Kept, PromiseInv
<1> QED
  BY <1>1, Keeps, PTL

\* Without faults, a row says "failed" only when nothing was sent for it.
THEOREM FailedWasNotSent == ASSUME InTurn PROVE Spec => []FailedIsUnpaid
<1>1. Kept => FailedIsUnpaid
  BY DEF Kept, PromiseInv, RowIsTrue, Unpaid, FailedIsUnpaid
<1> QED
  BY <1>1, Keeps, PTL

-----------------------------------------------------------------------------
(* The refinement.                                                          *)

\* Where each row stands, by its status.
LEMMA Phases ==
    ASSUME Kept, NEW w \in Withdrawals
    PROVE  /\ PhaseOf(w) = "held" <=> Open(w) /\ Unpaid(w)
           /\ status[w] = "none" => PhaseOf(w) = "none"
           /\ Open(w) /\ ~Unpaid(w) => PhaseOf(w) = "paid"
           /\ status[w] = "completed" => PhaseOf(w) = "paid"
           /\ status[w] = "failed" => PhaseOf(w) = "returned"
<1>1. RowIsTrue(w) /\ status[w] \in Statuses /\ broadcasts[w] \in Nat
  BY DEF Kept, PromiseInv, TypeOK
<1>2. Paid(w) <=> ~Unpaid(w)
  BY <1>1 DEF Paid, Unpaid
<1> QED
  BY <1>1, <1>2 DEF PhaseOf, RowIsTrue, PaidOnce, Unpaid, Open, Statuses

HiddenPhases == [w \in Withdrawals |-> PhaseOf(w)]

PromiseVars == <<polBalance, HiddenPhases, owner, amount>>

\* A step that leaves the balances, the rows and the history alone is a
\* stutter.
LEMMA Unseen ==
    ASSUME UNCHANGED <<polBalance, rows, history>>
    PROVE  UNCHANGED PromiseVars
  BY DEF PromiseVars, HiddenPhases, PhaseOf, Paid, rows, history

\* The step that inserts a row takes the amount from a balance that covers it.
LEMMA ReserveHolds ==
    ASSUME InTurn, Kept, Kept', NEW r \in Requests, NEW w \in Withdrawals, Reserve(r, w)
    PROVE  Promise!Next
<1>1. PICK u \in Users, a \in Amounts : u = req[r].user /\ a = req[r].amount
  BY RequestFields DEF Reserve, Kept
<1>2. /\ status[w] = "none" /\ polBalance[u] >= a
      /\ polBalance' = [polBalance EXCEPT ![u] = @ - a]
      /\ owner' = [owner EXCEPT ![w] = u]
      /\ amount' = [amount EXCEPT ![w] = a]
      /\ \A v \in Withdrawals : status'[v] = IF v = w THEN "pending" ELSE status[v]
      /\ UNCHANGED history
  BY <1>1 DEF Reserve, Kept, CoveredInv, TypeOK
<1>3. HiddenPhases[w] = "none"
  BY <1>2, Phases DEF HiddenPhases
<1>4. ~ \E v \in Withdrawals : owner[v] = u /\ HiddenPhases[v] = "held"
  <2>1. InFlight(u) = {}
    BY <1>1 DEF Reserve, Kept, PromiseInv
  <2> QED
    BY <2>1, Phases DEF HiddenPhases, InFlight, IN_FLIGHT_WITHDRAW_STATUSES, Open
<1>5. HiddenPhases' = [HiddenPhases EXCEPT ![w] = "held"]
  <2>1. \A v \in Withdrawals \ {w} : PhaseOf(v)' = PhaseOf(v)
    BY <1>2 DEF PhaseOf, Paid, history
  <2>2. PhaseOf(w)' = "held"
    <3>1. RowIsTrue(w)' /\ status'[w] = "pending"
      BY <1>2 DEF Kept, PromiseInv
    <3> QED
      BY <3>1 DEF PhaseOf, Paid, RowIsTrue, Unpaid
  <2> QED
    BY <2>1, <2>2 DEF HiddenPhases
<1>6. Promise!Hold(w, u, a)
  BY <1>2, <1>3, <1>4, <1>5 DEF Promise!Hold, HiddenPhases
<1> QED
  BY <1>6 DEF Promise!Next

\* The hot wallet's transfer, or the hash an admin names, pays a held row.
LEMMA PaymentPays ==
    ASSUME InTurn, Kept, Kept', NEW o \in Operators, NEW w \in Withdrawals,
           \/ SendSucceeds(o) /\ w = op[o].row
           \/ completeWithdrawal(o, w)
    PROVE  Promise!Next
<1>1. status[w] = "approved" /\ UNCHANGED <<polBalance, rows, returned>>
  BY DEF SendSucceeds, completeWithdrawal, Kept, SerialInv
<1>2. Unpaid(w)
  <2>1. CASE SendSucceeds(o) /\ w = op[o].row
    BY <2>1 DEF SendSucceeds, Kept, PromiseInv, ActsInTurn
  <2>2. CASE completeWithdrawal(o, w)
    <3>1. ~Completing(w)
      BY <2>2 DEF completeWithdrawal, Completing, Writes, InTurn, OneOperator
    <3> QED
      BY <1>1, <3>1 DEF Kept, PromiseInv, RowIsTrue
  <2> QED
    BY <2>1, <2>2
<1>3. Paid(w)' /\ \A v \in Withdrawals \ {w} : Paid(v)' = Paid(v)
  BY <1>2 DEF SendSucceeds, completeWithdrawal, Paid, Unpaid, Kept, TypeOK
<1>4. HiddenPhases' = [HiddenPhases EXCEPT ![w] = "paid"]
  <2>1. \A v \in Withdrawals \ {w} : PhaseOf(v)' = PhaseOf(v)
    BY <1>1, <1>3 DEF PhaseOf, rows
  <2>2. PhaseOf(w)' = "paid"
    BY <1>1, <1>3 DEF PhaseOf, rows
  <2> QED
    BY <2>1, <2>2 DEF HiddenPhases
<1>5. HiddenPhases[w] = "held"
  BY <1>1, <1>2, Phases DEF HiddenPhases, Open
<1>6. Promise!Pay(w)
  BY <1>1, <1>4, <1>5 DEF Promise!Pay, HiddenPhases, rows
<1> QED
  BY <1>6 DEF Promise!Next

\* updateTransactionStatus gives a held row's amount back, or only writes down
\* what was paid before.
LEMMA CommitReturns ==
    ASSUME InTurn, Kept, Kept', NEW o \in Operators, CommitStatus(o)
    PROVE  Promise!Next \/ UNCHANGED PromiseVars
<1>1. PICK w \in Withdrawals : w = op[o].row
  BY OperatorFields DEF CommitStatus, WriteStatus, Kept
<1>2. /\ op[o].target \in {"completed", "failed"} /\ op[o].seen = status[w]
      /\ Writes(o, op[o].target) /\ ActsInTurn(o)
  BY <1>1, OperatorFields DEF CommitStatus, WriteStatus, Kept, SerialInv, PromiseInv, Writes
<1>3. /\ \A v \in Withdrawals : status'[v] = IF v = w THEN op[o].target ELSE status[v]
      /\ UNCHANGED <<owner, amount, broadcasts, handPaid>>
  BY <1>1 DEF CommitStatus, WriteStatus, Kept, TypeOK
<1>4. \A v \in Withdrawals \ {w} : returned'[v] = returned[v]
  BY <1>1 DEF CommitStatus, WriteStatus, Kept, TypeOK
<1>5. \A v \in Withdrawals \ {w} : PhaseOf(v)' = PhaseOf(v)
  BY <1>3, <1>4 DEF PhaseOf, Paid
<1>6. CASE op[o].target = "completed"
  <2>1. status[w] = "approved" /\ PaidOnce(w) /\ ~Refunds(op[o].target, op[o].seen)
    BY <1>1, <1>2, <1>6 DEF ActsInTurn, Refunds
  <2>2. UNCHANGED <<polBalance, returned>>
    BY <1>1, <2>1 DEF CommitStatus, WriteStatus
  <2>3. Paid(w) /\ Paid(w)' /\ status'[w] = "completed"
    BY <1>3, <1>6, <2>1 DEF PaidOnce, Paid
  <2>4. PhaseOf(w)' = PhaseOf(w)
    BY <2>1, <2>3 DEF PhaseOf
  <2>5. HiddenPhases' = HiddenPhases
    BY <1>5, <2>4 DEF HiddenPhases
  <2> QED
    BY <1>3, <2>2, <2>5 DEF PromiseVars
<1>7. CASE op[o].target = "failed"
  <2>1. Open(w) /\ Unpaid(w) /\ Refunds(op[o].target, op[o].seen)
    BY <1>1, <1>2, <1>7 DEF ActsInTurn, Refunds, Open
  <2>2. polBalance' = [polBalance EXCEPT ![owner[w]] = @ + amount[w]]
    BY <1>1, <2>1 DEF CommitStatus, WriteStatus
  <2>3. HiddenPhases[w] = "held"
    BY <2>1, Phases DEF HiddenPhases
  <2>4. PhaseOf(w)' = "returned"
    <3>1. RowIsTrue(w)' /\ status'[w] = "failed"
      BY <1>3, <1>7 DEF Kept, PromiseInv
    <3> QED
      BY <3>1 DEF RowIsTrue, PhaseOf, Paid, Unpaid
  <2>5. HiddenPhases' = [HiddenPhases EXCEPT ![w] = "returned"]
    BY <1>5, <2>4 DEF HiddenPhases
  <2>6. Promise!Return(w)
    BY <1>3, <2>2, <2>3, <2>5 DEF Promise!Return, HiddenPhases
  <2> QED
    BY <2>6 DEF Promise!Next
<1> QED
  BY <1>2, <1>6, <1>7

\* An approval changes a row and no phase.
LEMMA ApprovalIsUnseen ==
    ASSUME InTurn, Kept, NEW o \in Operators, WriteApproval(o)
    PROVE  UNCHANGED PromiseVars
<1>1. PICK w \in Withdrawals : w = op[o].row
  BY OperatorFields DEF WriteApproval, Kept
<1>2. status[w] = "pending"
  BY <1>1 DEF WriteApproval, Kept, SerialInv
<1>3. /\ \A v \in Withdrawals : status'[v] = IF v = w THEN "approved" ELSE status[v]
      /\ UNCHANGED <<polBalance, owner, amount, broadcasts, returned, handPaid>>
  BY <1>1 DEF WriteApproval, Kept, TypeOK
<1>4. \A v \in Withdrawals : PhaseOf(v)' = PhaseOf(v)
  BY <1>2, <1>3 DEF PhaseOf, Paid
<1> QED
  BY <1>3, <1>4 DEF PromiseVars, HiddenPhases

LEMMA StepKeepsPromise ==
    ASSUME InTurn, Kept, Kept', [Next]_vars
    PROVE  Promise!Next \/ UNCHANGED PromiseVars
<1>1. CASE UNCHANGED vars
  BY <1>1, Unseen DEF vars
<1>2. ASSUME NEW r \in Requests, RequestStep(r) PROVE Promise!Next \/ UNCHANGED PromiseVars
  BY <1>2, ReserveHolds, Unseen DEF RequestStep, CheckInFlight, CheckBalance, RequestFails
<1>3. ASSUME NEW o \in Operators, AdminStep(o) \/ CronFires(o) \/ OperatorStep(o)
      PROVE  Promise!Next \/ UNCHANGED PromiseVars
  <2>1. CASE SendSucceeds(o)
    <3>1. op[o].row \in Withdrawals
      BY <2>1, OperatorFields DEF SendSucceeds, Kept
    <3> QED
      BY <2>1, <3>1, PaymentPays
  <2>2. CASE \E w \in Withdrawals : completeWithdrawal(o, w)
    BY <2>2, PaymentPays
  <2>3. CASE CommitStatus(o) \/ WriteApproval(o)
    BY <2>3, CommitReturns, ApprovalIsUnseen
  <2>4. CASE \/ \E w \in Withdrawals :
                  ReadForApproval(o, w) \/ rejectWithdrawal(o, w) \/ CronVisits(o, w)
             \/ CronFires(o) \/ CronReturns(o) \/ LookupStatus(o) \/ SendFails(o)
    BY <2>4, Unseen DEF ReadForApproval, rejectWithdrawal, CronVisits, CronFires, CronReturns,
       LookupStatus, SendFails
  <2> QED
    BY <1>3, <2>1, <2>2, <2>3, <2>4 DEF AdminStep, OperatorStep
<1>4. CASE Next
  BY <1>2, <1>3, <1>4, NothingFails DEF Kept
<1> QED
  BY <1>1, <1>4

\* The tables, the admin handlers and the cron implement Settlement: every
\* step of theirs holds, pays or returns one withdrawal as the promise says, or
\* changes nothing of it.
THEOREM PromiseIsKept == ASSUME InTurn PROVE Spec => KeepsPromise
<1>1. Init => Promise!Init
  <2> SUFFICES ASSUME Init PROVE Promise!Init
    OBVIOUS
  <2>1. \A w \in Withdrawals : status[w] = "none" /\ ~Paid(w) /\ returned[w] = 0
    BY DEF Init, Paid
  <2>2. \A w \in Withdrawals : PhaseOf(w) = "none"
    BY <2>1 DEF PhaseOf
  <2> QED
    BY <2>2 DEF Init, Promise!Init
<1>2. Kept /\ Kept' /\ [Next]_vars => [Promise!Next]_PromiseVars
  BY StepKeepsPromise
<1> QED
  BY <1>1, <1>2, Keeps, PTL DEF Spec, KeepsPromise, Promise!Spec, PromiseVars, HiddenPhases
=============================================================================
