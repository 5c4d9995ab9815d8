--------------------------- MODULE DepositsProofs ---------------------------
(***************************************************************************)
(* Theorems about Deposits, for every number of users, wallets, transfers,  *)
(* calls and connections, every assignment of lock keys, and with           *)
(* transactions that expire and statements that fail at any point.          *)
(***************************************************************************)
EXTENDS Deposits, TLAPS

LEMMA NextCases ==
    ASSUME Next
    PROVE  \/ \E u \in Users, w \in Wallets : updateAddress(u, w)
           \/ \E h \in Hashes : Confirm(h)
           \/ ScannerSleeps
           \/ \E s \in Handlers, u \in Users, h \in Hashes :
                \/ \E a \in Claims \cup {Value} : requestDeposit(s, u, h, a)
                \/ scanForNewDeposits(s, u, h)
           \/ \E s \in Handlers, kind \in ByHand, u \in Users, h \in Hashes \cup {None},
                 a \in Claims : creditPolManual(s, kind, u, h, a)
           \/ \E s \in Handlers :
                \/ Lock(s)
                \/ CheckDuplicate(s)
                \/ Replenish(s)
                \/ RefuseDuplicate(s)
                \/ Verify(s)
                \/ Notify(s)
                \/ NotifyFails(s)
                \/ Commit(s)
                \/ Reply(s)
                \/ ReplyFails(s)
                \/ StatementFails(s)
                \/ LateStatement(s)
                \/ Expires(s)
  BY DEF Next, Outside, Starts, Proceeds, creditUserPolManual, creditSupportTicketPol, ByHand

\* What the type of call says of a call in progress.
LEMMA CallFields ==
    ASSUME TypeOK, NEW s \in Handlers, call[s].pc # "idle"
    PROVE  /\ call[s].pc \in {"lock", "reply"} \cup LockHeld
           /\ call[s].kind \in Kinds
           /\ call[s].user \in Users
           /\ call[s].amount \in Nat
           /\ call[s].again \in BOOLEAN
           /\ call[s].open \in BOOLEAN
           /\ call[s].kind \in ByHand => call[s].hash \in Hashes \cup {None} /\ call[s].wallet = None
           /\ call[s].kind \notin ByHand => call[s].hash \in Hashes /\ call[s].wallet \in Wallets
  BY DEF TypeOK, Calls, CallsOf, NoCall, Call

\* A call in progress stays a call whatever its program counter becomes, when
\* it is marked as a top-up, and when its transaction ends.
LEMMA CallShapes ==
    ASSUME TypeOK, NEW s \in Handlers, call[s].pc # "idle"
    PROVE  /\ NoCall \in Calls
           /\ \A pc \in {"lock", "reply"} \cup LockHeld, again \in BOOLEAN, open \in BOOLEAN :
                Call(pc, call[s].kind, call[s].user, call[s].hash, call[s].amount,
                     call[s].wallet, again, open) \in Calls
           /\ \A pc \in {"lock", "reply"} \cup LockHeld : At(s, pc) \in Calls
  BY CallFields DEF Calls, CallsOf, Call, At

\* No step leaves the types.
LEMMA TypeStep ==
    ASSUME TypeOK, [Next]_vars
    PROVE  TypeOK'
<1> USE DepositsAssumption
<1>1. CASE UNCHANGED vars
  BY <1>1 DEF TypeOK, vars, outside, ledger
<1>2. CASE \/ \E u \in Users, w \in Wallets : updateAddress(u, w)
           \/ \E h \in Hashes : Confirm(h)
           \/ ScannerSleeps
  <2>1. ASSUME NEW u \in Users, NEW w \in Wallets, updateAddress(u, w) PROVE TypeOK'
    BY <2>1 DEF TypeOK, updateAddress, ledger
  <2>2. ASSUME NEW h \in Hashes, Confirm(h) PROVE TypeOK'
    BY <2>2 DEF TypeOK, Confirm, ledger
  <2>3. CASE ScannerSleeps
    BY <2>3 DEF TypeOK, ScannerSleeps, ledger
  <2> QED
    BY <1>2, <2>1, <2>2, <2>3
<1>3. ASSUME NEW s \in Handlers, NEW kind, NEW u, NEW h, NEW a, NEW w,
             Begin(s, kind, u, h, a, w),
             Call("lock", kind, u, h, a, w, FALSE, TRUE) \in Calls
      PROVE  TypeOK'
  BY <1>3 DEF TypeOK, Begin, outside, ledger
<1>4. ASSUME NEW s \in Handlers, NEW u \in Users, NEW h \in Hashes,
             \/ \E a \in Claims \cup {Value} : requestDeposit(s, u, h, a)
             \/ scanForNewDeposits(s, u, h)
      PROVE  TypeOK'
  <2>1. linked[u] \in Wallets
    BY <1>4 DEF TypeOK, requestDeposit, scanForNewDeposits
  <2> QED
    BY <1>3, <1>4, <2>1 DEF requestDeposit, scanForNewDeposits, Begin, Calls, CallsOf, Call, ByHand
<1>5. ASSUME NEW s \in Handlers, NEW kind \in ByHand, NEW u \in Users,
             NEW h \in Hashes \cup {None}, NEW a \in Claims, creditPolManual(s, kind, u, h, a)
      PROVE  TypeOK'
  BY <1>3, <1>5 DEF creditPolManual, Begin, Calls, CallsOf, Call
<1>6. ASSUME NEW s \in Handlers, Refuses(s), call[s].pc # "idle" PROVE TypeOK'
  BY <1>6, CallShapes DEF TypeOK, Refuses, outside, ledger
<1>7. ASSUME NEW s \in Handlers, NEW pc \in LockHeld, Goes(s, pc), call[s].pc # "idle"
      PROVE  TypeOK'
  BY <1>7, CallShapes DEF TypeOK, Goes, outside, ledger
<1>8. ASSUME NEW s \in Handlers,
             \/ Lock(s)
             \/ CheckDuplicate(s)
             \/ RefuseDuplicate(s)
             \/ Verify(s)
             \/ NotifyFails(s)
             \/ ReplyFails(s)
             \/ StatementFails(s)
             \/ LateStatement(s)
      PROVE  TypeOK'
  BY <1>6, <1>7, <1>8 DEF Lock, CheckDuplicate, RefuseDuplicate, Verify, NotifyFails,
     ReplyFails, StatementFails, LateStatement, LockHeld
<1>9. ASSUME NEW s \in Handlers, Replenish(s) \/ Expires(s) PROVE TypeOK'
  <2>1. call[s].pc # "idle"
    BY <1>9 DEF Replenish, Expires, Open
  <2>2. call[s].pc \in {"lock", "reply"} \cup LockHeld /\ call[s].again \in BOOLEAN
    BY <2>1, CallFields
  <2>3. ASSUME NEW pc \in {"lock", "reply"} \cup LockHeld, NEW again \in BOOLEAN,
               NEW open \in BOOLEAN,
               call' = [call EXCEPT ![s] = Call(pc, call[s].kind, call[s].user, call[s].hash,
                                                call[s].amount, call[s].wallet, again, open)]
        PROVE  call' \in [Handlers -> Calls]
    BY <2>1, <2>3, CallShapes DEF TypeOK
  <2>4. call' \in [Handlers -> Calls]
    <3>1. CASE Replenish(s)
      BY <2>2, <2>3, <3>1 DEF Replenish, LockHeld
    <3>2. CASE Expires(s)
      BY <2>2, <2>3, <3>2 DEF Expires
    <3> QED
      BY <1>9, <3>1, <3>2
  <2> QED
    BY <1>9, <2>4 DEF TypeOK, Replenish, Expires, outside, ledger
<1>10. ASSUME NEW s \in Handlers, Notify(s) PROVE TypeOK'
  <2>1. call[s].pc # "idle"
    BY <1>10 DEF Notify
  <2> QED
    BY <1>10, <2>1, CallShapes, CallFields DEF TypeOK, Notify, outside, ledger, LockHeld
<1>11. ASSUME NEW s \in Handlers, Reply(s) PROVE TypeOK'
  BY <1>11, CallShapes DEF TypeOK, Reply, outside, ledger
<1>12. ASSUME NEW s \in Handlers, Commit(s) PROVE TypeOK'
  <2>1. call[s].pc # "idle" /\ NewRow(call[s]) => call[s].hash \in Hashes
    BY <1>12, CallFields DEF Commit, NewRow
  <2>2. call[s].amount \in Nat /\ call[s].user \in Users
    BY <1>12, CallFields DEF Commit
  <2>3. /\ balance' \in [Users -> Nat]
        /\ recorded' \in [Hashes -> Nat]
        /\ rowUser' \in [Hashes -> Users \cup {None}]
        /\ credited' \in [Hashes -> Nat]
        /\ manual' \in Nat
    BY <1>12, <2>1, <2>2 DEF TypeOK, Commit
  <2>4. call' \in [Handlers -> Calls] /\ answer' \in [Handlers -> {"none", "ok", "error"}]
    <3>1. call[s].pc # "idle" /\ call[s].again \in BOOLEAN
      BY <1>12, CallFields DEF Commit
    <3>2. NoCall \in Calls
            /\ Call("reply", call[s].kind, call[s].user, call[s].hash, call[s].amount,
                    call[s].wallet, call[s].again, FALSE) \in Calls
      BY <3>1, CallShapes
    <3>3. PICK c \in Calls : call' = [call EXCEPT ![s] = c]
      BY <1>12, <3>2 DEF Commit
    <3>4. answer' = answer \/ answer' = [answer EXCEPT ![s] = "ok"]
      BY <1>12 DEF Commit
    <3> QED
      BY <3>3, <3>4 DEF TypeOK
  <2> QED
    BY <1>12, <2>3, <2>4 DEF TypeOK, Commit, outside
<1> QED
  BY <1>1, <1>2, <1>4, <1>5, <1>8, <1>9, <1>10, <1>11, <1>12, NextCases

\* Every variable keeps its type; in particular no call gets as far as the
\* chain without a wallet to compare the sender with.
THEOREM TypeCorrect == Spec => []TypeOK
<1>1. Init => TypeOK
  BY DEF Init, TypeOK, Calls
<1>2. TypeOK /\ [Next]_vars => TypeOK'
  BY TypeStep
<1> QED
  BY <1>1, <1>2, PTL DEF Spec

-----------------------------------------------------------------------------
(* OneDepositPerHash.                                                       *)

SameKey(s, t) == LockKey[call[s].hash] = LockKey[call[t].hash]

\* What the duplicate check has found still holds.
StillNew(s) ==
    Holds(s) /\ call[s].pc # "check" /\ NewRow(call[s]) => recorded[call[s].hash] = 0

\* A step of one call that takes no lock and writes no row.
LEMMA QuietStep ==
    ASSUME TypeOK, SerialisedInv, NEW s \in Handlers, NEW c,
           recorded' = recorded, call' = [call EXCEPT ![s] = c],
           Holds(s)' => Holds(s) /\ c.hash = call[s].hash,
           StillNew(s)'
    PROVE  SerialisedInv'
<1>1. /\ call'[s] = c
      /\ \A t \in Handlers : t # s => call'[t] = call[t]
  BY DEF TypeOK
<1>2. \A t \in Handlers : Holds(t)' => Holds(t) /\ call'[t].hash = call[t].hash
  BY <1>1 DEF Holds, Open
<1>3. \A t \in Handlers : StillNew(t)'
  BY <1>1 DEF StillNew, SerialisedInv, Holds, Open, NewRow
<1> QED
  BY <1>2, <1>3 DEF SerialisedInv, OneDepositPerHash, StillNew

\* One transaction at a time works under a lock key, and what its duplicate
\* check has found holds until it commits or is rolled back.
THEOREM LedgerIsSerialised == Spec => []SerialisedInv
<1>1. Init => SerialisedInv
  BY DEF Init, SerialisedInv, OneDepositPerHash, Holds, Open, NoCall, Call
<1>2. TypeOK /\ SerialisedInv /\ [Next]_vars => SerialisedInv'
  <2> SUFFICES ASSUME TypeOK, SerialisedInv, [Next]_vars PROVE SerialisedInv'
    OBVIOUS
  <2> USE DEF LockHeld
  <2>1. ASSUME call' = call, recorded' = recorded PROVE SerialisedInv'
    BY <2>1 DEF SerialisedInv, OneDepositPerHash, Holds, Open, NewRow
  <2>2. CASE UNCHANGED vars
    BY <2>1, <2>2 DEF vars, ledger
  <2>3. ASSUME NEW s \in Handlers, NEW kind, NEW u, NEW h, NEW a, NEW w,
               Begin(s, kind, u, h, a, w)
        PROVE  SerialisedInv'
    <3>1. ~Holds(s)'
      BY <2>3 DEF Begin, Call, Holds, TypeOK
    <3> QED
      BY <2>3, <3>1, QuietStep DEF Begin, ledger, StillNew
  <2>4. ASSUME NEW s \in Handlers, Refuses(s) PROVE SerialisedInv'
    <3>1. ~Holds(s)'
      BY <2>4 DEF Refuses, NoCall, Call, Holds, Open, TypeOK
    <3> QED
      BY <2>4, <3>1, QuietStep DEF Refuses, ledger, StillNew
  <2>5. ASSUME NEW s \in Handlers, Lock(s) PROVE SerialisedInv'
    <3>1. /\ recorded' = recorded
          /\ call'[s] = At(s, "check")
          /\ \A t \in Handlers : t # s => call'[t] = call[t]
      BY <2>5 DEF Lock, Goes, ledger, TypeOK
    <3>2. call'[s].hash = call[s].hash /\ call'[s].pc = "check"
      BY <3>1 DEF At, Call
    <3>3. \A t \in Handlers : t # s => (Holds(t)' <=> Holds(t))
      BY <3>1 DEF Holds, Open
    <3>4. ASSUME NEW t \in Handlers, NEW r \in Handlers, Holds(t)', Holds(r)', SameKey(t, r)'
          PROVE  t = r
      BY <2>5, <3>1, <3>2, <3>3, <3>4 DEF Lock, SameKey, SerialisedInv
    <3>5. \A t \in Handlers : StillNew(t)'
      BY <3>1, <3>2, <3>3 DEF StillNew, SerialisedInv, NewRow
    <3> QED
      BY <3>1, <3>4, <3>5 DEF SerialisedInv, OneDepositPerHash, StillNew, SameKey
  <2>6. ASSUME NEW s \in Handlers, CheckDuplicate(s) PROVE SerialisedInv'
    <3>1. PICK pc \in {"notify", "verify"} : Goes(s, pc)
      BY <2>6 DEF CheckDuplicate
    <3>2. call'[s] = At(s, pc) /\ recorded' = recorded
      BY <3>1 DEF Goes, ledger, TypeOK
    <3>3. Holds(s) /\ At(s, pc).hash = call[s].hash
      BY <2>6, <3>2 DEF CheckDuplicate, Holds, Open, At, Call
    <3>4. call[s].hash # None => recorded[call[s].hash] = 0
      <4>1. call[s].hash # None => recorded[call[s].hash] \in Nat
        BY <2>6, CallFields DEF CheckDuplicate, TypeOK
      <4> QED
        BY <2>6, <4>1 DEF CheckDuplicate, Duplicate
    <3>5. StillNew(s)'
      BY <3>2, <3>3, <3>4 DEF StillNew, NewRow
    <3> QED
      BY <3>1, <3>2, <3>3, <3>5, QuietStep DEF Goes
  <2>7. ASSUME NEW s \in Handlers, Replenish(s) PROVE SerialisedInv'
    <3> DEFINE c == Call("notify", call[s].kind, call[s].user, call[s].hash,
                         call[s].amount, call[s].wallet, TRUE, call[s].open)
    <3>1. call' = [call EXCEPT ![s] = c] /\ recorded' = recorded
      BY <2>7 DEF Replenish, ledger
    <3>2. c.again = TRUE /\ c.hash = call[s].hash
      BY DEF Call
    <3>3. Holds(s)
      BY <2>7 DEF Replenish, Holds, Open
    <3>4. StillNew(s)'
      BY <3>1, <3>2 DEF StillNew, NewRow, TypeOK
    <3> HIDE DEF c
    <3> QED
      BY <3>1, <3>2, <3>3, <3>4, QuietStep
  <2>8. ASSUME NEW s \in Handlers, NEW pc \in {"notify", "commit"}, Goes(s, pc),
               call[s].pc \in {"verify", "notify"}
        PROVE  SerialisedInv'
    <3>1. call'[s] = At(s, pc) /\ recorded' = recorded
      BY <2>8 DEF Goes, ledger, TypeOK
    <3>2. /\ At(s, pc).hash = call[s].hash
          /\ At(s, pc).again = call[s].again
          /\ At(s, pc).open = call[s].open
      BY DEF At, Call
    <3>3. Holds(s)' => Holds(s)
      BY <2>8, <3>1, <3>2 DEF Holds, Open
    <3>4. StillNew(s)'
      BY <2>8, <3>1, <3>2, <3>3 DEF StillNew, SerialisedInv, NewRow
    <3> QED
      BY <2>8, <3>1, <3>2, <3>3, <3>4, QuietStep DEF Goes
  <2>9. ASSUME NEW s \in Handlers, Verify(s) PROVE SerialisedInv'
    BY <2>4, <2>8, <2>9 DEF Verify
  <2>10. ASSUME NEW s \in Handlers, Notify(s) PROVE SerialisedInv'
    <3>1. call' = [call EXCEPT ![s] = At(s, "commit")] /\ recorded' = recorded
      BY <2>10 DEF Notify, ledger
    <3>2. /\ At(s, "commit").hash = call[s].hash
          /\ At(s, "commit").again = call[s].again
          /\ At(s, "commit").open = call[s].open
      BY DEF At, Call
    <3>3. Holds(s)' => Holds(s)
      BY <2>10, <3>1, <3>2 DEF Notify, Holds, Open, TypeOK
    <3>4. StillNew(s)'
      BY <2>10, <3>1, <3>2, <3>3 DEF Notify, StillNew, SerialisedInv, NewRow, TypeOK
    <3> QED
      BY <3>1, <3>2, <3>3, <3>4, QuietStep
  <2>11. ASSUME NEW s \in Handlers, NotifyFails(s) PROVE SerialisedInv'
    BY <2>8, <2>11 DEF NotifyFails
  <2>12. ASSUME NEW s \in Handlers, Expires(s) PROVE SerialisedInv'
    <3> DEFINE c == Call(call[s].pc, call[s].kind, call[s].user, call[s].hash,
                         call[s].amount, call[s].wallet, call[s].again, FALSE)
    <3>1. call' = [call EXCEPT ![s] = c] /\ recorded' = recorded
      BY <2>12 DEF Expires, ledger
    <3>2. ~Holds(s)'
      BY <3>1 DEF Holds, Open, Call, TypeOK
    <3> HIDE DEF c
    <3> QED
      BY <3>1, <3>2, QuietStep DEF StillNew
  <2>13. ASSUME NEW s \in Handlers, Reply(s) PROVE SerialisedInv'
    <3>1. ~Holds(s)'
      BY <2>13 DEF Reply, NoCall, Call, Holds, Open, TypeOK
    <3> QED
      BY <2>13, <3>1, QuietStep DEF Reply, ledger, StillNew
  <2>14. ASSUME NEW s \in Handlers, Commit(s) PROVE SerialisedInv'
    <3>1. Holds(s) /\ ~Holds(s)'
      <4>1. CASE RepliesLater(call[s])
        BY <2>14, <4>1 DEF Commit, NoCall, Call, Holds, Open, TypeOK
      <4>2. CASE ~RepliesLater(call[s])
        BY <2>14, <4>2 DEF Commit, NoCall, Call, Holds, Open, TypeOK
      <4> QED
        BY <4>1, <4>2
    <3>2. PICK c : call' = [call EXCEPT ![s] = c]
      BY <2>14 DEF Commit
    <3>3. CASE ~NewRow(call[s])
      BY <2>14, <3>1, <3>2, <3>3, QuietStep DEF Commit, StillNew
    <3>4. CASE NewRow(call[s])
      <4>1. PICK h \in Hashes : h = call[s].hash
        BY <2>14, <3>4, CallFields DEF Commit, NewRow
      <4>2. recorded[h] = 0
        BY <2>14, <3>1, <3>4, <4>1 DEF Commit, SerialisedInv
      <4>3. /\ recorded'[h] = 1
            /\ \A g \in Hashes : g # h => recorded'[g] = recorded[g]
        BY <2>14, <3>4, <4>1, <4>2 DEF Commit, TypeOK
      <4>4. \A t \in Handlers : t # s => call'[t] = call[t]
        BY <3>2 DEF TypeOK
      <4>5. ASSUME NEW t \in Handlers, Holds(t)' PROVE t # s /\ Holds(t) /\ call'[t] = call[t]
        BY <3>1, <4>4, <4>5 DEF Holds, Open
      \* Another transaction with this hash would hold the same lock.
      <4>6. ASSUME NEW t \in Handlers, Holds(t)', NewRow(call'[t]), call'[t].pc # "check"
            PROVE  recorded'[call'[t].hash] = 0
        <5>1. call'[t].hash # h
          BY <3>1, <4>1, <4>5, <4>6 DEF SerialisedInv
        <5>2. call'[t].hash \in Hashes /\ recorded[call'[t].hash] = 0
          BY <4>5, <4>6, CallFields DEF SerialisedInv, NewRow, Holds, Open
        <5> QED
          BY <4>3, <5>1, <5>2
      <4>7. \A t, r \in Handlers : Holds(t)' /\ Holds(r)' /\ SameKey(t, r)' => t = r
        BY <4>5 DEF SerialisedInv, SameKey
      <4>8. OneDepositPerHash'
        BY <4>3 DEF SerialisedInv, OneDepositPerHash
      <4> QED
        BY <4>6, <4>7, <4>8 DEF SerialisedInv, SameKey, NewRow
    <3> QED
      BY <3>3, <3>4
  <2>15. CASE Next
    BY <2>1, <2>3, <2>4, <2>5, <2>6, <2>7, <2>9, <2>10, <2>11, <2>12, <2>13, <2>14, <2>15, NextCases
       DEF updateAddress, Confirm, ScannerSleeps, ledger, requestDeposit, scanForNewDeposits,
           creditPolManual, RefuseDuplicate, ReplyFails, StatementFails, LateStatement
  <2> QED
    BY <2>2, <2>15
<1> QED
  BY <1>1, <1>2, TypeCorrect, PTL DEF Spec

\* Whoever reports a transfer - its user twice at once, the scanner, an admin -
\* and however transactions expire or fail on the way, it enters the ledger
\* once; so also when different hashes share a lock key.
THEOREM DepositsEnterOnce == Spec => []OneDepositPerHash
<1>1. SerialisedInv => OneDepositPerHash
  BY DEF SerialisedInv
<1> QED
  BY <1>1, LedgerIsSerialised, PTL

-----------------------------------------------------------------------------
(* DepositsAreGenuine.                                                      *)

\* What GenuineInv says of one call.
Sound(s) ==
    call[s].pc # "idle" /\ call[s].kind \notin ByHand =>
        /\ ~call[s].again
        /\ <<call[s].user, call[s].wallet>> \in proven
        /\ call[s].pc \in {"notify", "commit"} => Genuine(call[s])

\* A call that a step leaves alone stays sound: proofs of ownership and
\* confirmations are never withdrawn.
LEMMA SoundIsStable ==
    ASSUME NEW s \in Handlers, Sound(s), call'[s] = call[s],
           proven \subseteq proven', confirmed \subseteq confirmed'
    PROVE  Sound(s)'
  BY DEF Sound, Genuine, Enough

\* Credits by hand are counted and never uncounted.
LEMMA ManualGrows ==
    ASSUME TypeOK, [Next]_vars
    PROVE  manual' = manual \/ manual' = manual + 1
  BY NextCases DEF vars, ledger, outside, updateAddress, Confirm, ScannerSleeps, requestDeposit,
         scanForNewDeposits, creditPolManual, Begin, Lock, CheckDuplicate, Replenish,
         RefuseDuplicate, Verify, Notify, NotifyFails, Commit, Reply, ReplyFails,
         StatementFails, LateStatement, Expires, Goes, Refuses

\* As long as nothing has been credited by hand, every deposit in the ledger was
\* verified: the transfer is confirmed, comes from a wallet its user has proven to own, and
\* covers the credit up to the tolerance, whatever wallets users link while
\* their calls are on the way.
THEOREM VerifiedDepositsAreGenuine == Spec => []DepositsAreGenuine
<1> USE DepositsAssumption
<1> DEFINE Rows == \A h \in Hashes : recorded[h] > 0 =>
                       /\ h \in confirmed
                       /\ <<rowUser[h], Sender[h]>> \in proven
                       /\ credited[h] * 999 <= Value * 1000
           Links == \A u \in Users : linked[u] # None => <<u, linked[u]>> \in proven
           Empty == \A h \in Hashes : recorded[h] = 0 => credited[h] = 0
<1>1. Init => GenuineInv
  BY DEF Init, GenuineInv, DepositsAreGenuine, NoCall, Call
<1>2. TypeOK /\ SerialisedInv /\ GenuineInv /\ [Next]_vars => GenuineInv'
  <2> SUFFICES ASSUME TypeOK, SerialisedInv, GenuineInv, [Next]_vars, manual' = 0
               PROVE  GenuineInv'
    BY DEF GenuineInv
  <2>a. manual = 0
    BY ManualGrows DEF TypeOK
  <2>0. Rows /\ Links /\ Empty /\ (\A s \in Handlers : Sound(s))
    BY <2>a DEF GenuineInv, DepositsAreGenuine, Sound
  <2>1. ASSUME Rows', Links', Empty', \A s \in Handlers : Sound(s)' PROVE GenuineInv'
    BY <2>1 DEF GenuineInv, DepositsAreGenuine, Sound
  <2>2. ASSUME UNCHANGED <<outside, ledger>>, NEW s \in Handlers, NEW c,
               call' = [call EXCEPT ![s] = c], Sound(s)'
        PROVE  GenuineInv'
    <3>1. Rows' /\ Links' /\ Empty'
      BY <2>0, <2>2 DEF outside, ledger
    <3>2. ASSUME NEW t \in Handlers PROVE Sound(t)'
      <4>1. CASE t = s
        BY <2>2, <4>1
      <4>2. CASE t # s
        BY <2>0, <2>2, <4>2, SoundIsStable DEF TypeOK, outside
      <4> QED
        BY <4>1, <4>2
    <3> QED
      BY <2>1, <3>1, <3>2
  <2>3. CASE UNCHANGED vars
    <3>1. Rows' /\ Links' /\ Empty'
      BY <2>0, <2>3 DEF vars, outside, ledger
    <3>2. \A s \in Handlers : Sound(s)'
      BY <2>0, <2>3, SoundIsStable DEF vars, outside
    <3> QED
      BY <2>1, <3>1, <3>2
  <2>4. ASSUME NEW u \in Users, NEW w \in Wallets, updateAddress(u, w) PROVE GenuineInv'
    <3>1. Rows' /\ Empty' /\ Links'
      BY <2>0, <2>4 DEF updateAddress, ledger, TypeOK
    <3>2. \A s \in Handlers : Sound(s)'
      BY <2>0, <2>4, SoundIsStable DEF updateAddress
    <3> QED
      BY <2>1, <3>1, <3>2
  <2>5. ASSUME NEW h \in Hashes, Confirm(h) PROVE GenuineInv'
    <3>1. Rows' /\ Empty' /\ Links'
      BY <2>0, <2>5 DEF Confirm, ledger
    <3>2. \A s \in Handlers : Sound(s)'
      BY <2>0, <2>5, SoundIsStable DEF Confirm
    <3> QED
      BY <2>1, <3>1, <3>2
  <2>6. CASE ScannerSleeps
    <3>1. Rows' /\ Empty' /\ Links'
      BY <2>0, <2>6 DEF ScannerSleeps, ledger
    <3>2. \A s \in Handlers : Sound(s)'
      BY <2>0, <2>6, SoundIsStable DEF ScannerSleeps
    <3> QED
      BY <2>1, <3>1, <3>2
  <2>7. ASSUME NEW s \in Handlers, NEW u \in Users, NEW h \in Hashes,
               \/ \E a \in Claims \cup {Value} : requestDeposit(s, u, h, a)
               \/ scanForNewDeposits(s, u, h)
        PROVE  GenuineInv'
    <3>1. PICK kind, a : Begin(s, kind, u, h, a, linked[u])
      BY <2>7 DEF requestDeposit, scanForNewDeposits
    <3>2. linked[u] # None
      BY <2>7 DEF requestDeposit, scanForNewDeposits, TypeOK
    <3>3. Sound(s)'
      BY <2>0, <3>1, <3>2 DEF Begin, Call, Sound, TypeOK, outside
    <3> QED
      BY <2>2, <3>1, <3>3 DEF Begin
  <2>8. ASSUME NEW s \in Handlers, Commit(s)
        PROVE  call[s].kind \notin ByHand /\ call[s].hash \in Hashes
    <3>1. call[s].kind \notin ByHand
      BY <2>a, <2>8 DEF Commit
    <3> QED
      BY <2>8, <3>1, CallFields DEF Commit
  <2>9. ASSUME NEW s \in Handlers, Refuses(s) PROVE GenuineInv'
    BY <2>2, <2>9 DEF Refuses, NoCall, Call, Sound, TypeOK
  <2>10. ASSUME NEW s \in Handlers, NEW pc, Goes(s, pc), call[s].pc # "idle",
                call[s].kind \notin ByHand /\ pc \in {"notify", "commit"} => Genuine(call[s])
         PROVE  GenuineInv'
    <3>1. call'[s] = At(s, pc) /\ UNCHANGED <<outside, ledger>>
      BY <2>10 DEF Goes, TypeOK
    <3>2. Sound(s)'
      BY <2>0, <2>10, <3>1 DEF Sound, At, Call, Genuine, Enough, outside
    <3> QED
      BY <2>2, <2>10, <3>1, <3>2 DEF Goes
  <2>11. ASSUME NEW s \in Handlers,
                \/ Lock(s)
                \/ CheckDuplicate(s)
                \/ RefuseDuplicate(s)
                \/ Verify(s)
                \/ NotifyFails(s)
                \/ ReplyFails(s)
                \/ StatementFails(s)
                \/ LateStatement(s)
         PROVE  GenuineInv'
    <3>1. CASE Lock(s)
      BY <2>10, <3>1 DEF Lock
    <3>2. CASE CheckDuplicate(s)
      BY <2>10, <3>2 DEF CheckDuplicate
    <3>3. CASE Verify(s)
      BY <2>9, <2>10, <3>3 DEF Verify
    <3>4. CASE NotifyFails(s)
      BY <2>0, <2>10, <3>4 DEF NotifyFails, Sound
    <3> QED
      BY <2>9, <2>11, <3>1, <3>2, <3>3, <3>4
         DEF RefuseDuplicate, ReplyFails, StatementFails, LateStatement
  <2>12. ASSUME NEW s \in Handlers, Notify(s) PROVE GenuineInv'
    <3>1. call'[s] = At(s, "commit") /\ UNCHANGED <<outside, ledger>>
      BY <2>12 DEF Notify, TypeOK
    <3>2. Sound(s)'
      BY <2>0, <2>12, <3>1 DEF Notify, Sound, At, Call, Genuine, Enough, outside
    <3> QED
      BY <2>2, <2>12, <3>1, <3>2 DEF Notify
  <2>13. ASSUME NEW s \in Handlers, Expires(s) PROVE GenuineInv'
    <3> DEFINE c == Call(call[s].pc, call[s].kind, call[s].user, call[s].hash,
                         call[s].amount, call[s].wallet, call[s].again, FALSE)
    <3>1. call' = [call EXCEPT ![s] = c] /\ UNCHANGED <<outside, ledger>>
      BY <2>13 DEF Expires
    <3>2. call'[s] = c /\ call[s].pc # "idle"
      BY <2>13, <3>1 DEF Expires, Open, TypeOK
    <3>3. Sound(s)'
      BY <2>0, <3>1, <3>2 DEF Sound, Call, Genuine, Enough, outside
    <3> HIDE DEF c
    <3> QED
      BY <2>2, <3>1, <3>3
  <2>14. ASSUME NEW s \in Handlers, Reply(s) PROVE GenuineInv'
    BY <2>2, <2>14 DEF Reply, NoCall, Call, Sound, TypeOK
  <2>15. ASSUME NEW s \in Handlers, Replenish(s) PROVE GenuineInv'
    BY <2>2, <2>15 DEF Replenish, Call, Sound, TypeOK
  <2>16. ASSUME NEW s \in Handlers, Commit(s) PROVE GenuineInv'
    <3>1. PICK h \in Hashes : h = call[s].hash
      BY <2>8, <2>16 DEF Commit
    <3>2. NewRow(call[s]) /\ recorded[h] = 0
      BY <2>0, <2>8, <2>16, <3>1 DEF Commit, NewRow, Sound, SerialisedInv, Holds, Open, LockHeld
    <3>3. Genuine(call[s]) /\ <<call[s].user, call[s].wallet>> \in proven
      <4>1. call[s].pc = "commit" /\ Sound(s)
        BY <2>0, <2>16 DEF Commit
      <4>2. call[s].kind \notin ByHand /\ call[s].pc # "idle"
        BY <2>8, <2>16, <4>1
      <4> QED
        BY <4>1, <4>2 DEF Sound
    <3>4. ~RepliesLater(call[s])
      BY <2>8, <2>16 DEF Commit, RepliesLater, ByHand
    <3>5. credited[h] = 0 /\ call[s].amount \in Nat
      BY <2>0, <2>16, <3>2, CallFields DEF Commit
    <3>6. /\ recorded' = [recorded EXCEPT ![h] = 1]
          /\ rowUser' = [rowUser EXCEPT ![h] = call[s].user]
          /\ credited' = [credited EXCEPT ![h] = call[s].amount]
          /\ UNCHANGED outside
          /\ call' = [call EXCEPT ![s] = NoCall]
      BY <2>16, <3>1, <3>2, <3>4, <3>5 DEF Commit
    <3>7. Links' /\ Empty'
      BY <2>0, <3>6 DEF TypeOK, outside
    <3>8. Rows'
      <4> SUFFICES ASSUME NEW g \in Hashes, recorded'[g] > 0
                   PROVE  /\ g \in confirmed
                          /\ <<rowUser'[g], Sender[g]>> \in proven
                          /\ credited'[g] * 999 <= Value * 1000
        BY <3>6 DEF outside
      <4>1. CASE g = h
        <5>1. credited'[g] = call[s].amount /\ rowUser'[g] = call[s].user
          BY <3>6, <4>1 DEF TypeOK
        <5>2. call[s].amount * 999 <= Value * 1000
          BY <3>3, <3>5 DEF Genuine, Enough
        <5> QED
          BY <3>1, <3>3, <4>1, <5>1, <5>2 DEF Genuine
      <4>2. CASE g # h
        BY <2>0, <3>6, <4>2 DEF TypeOK
      <4> QED
        BY <4>1, <4>2
    <3>9. ASSUME NEW t \in Handlers PROVE Sound(t)'
      <4>1. CASE t = s
        BY <3>6, <4>1 DEF Sound, NoCall, Call, TypeOK
      <4>2. CASE t # s
        BY <2>0, <3>6, <4>2, SoundIsStable DEF TypeOK, outside
      <4> QED
        BY <4>1, <4>2
    <3> QED
      BY <2>1, <3>7, <3>8, <3>9
  <2>17. ASSUME NEW s \in Handlers, NEW kind \in ByHand, NEW u \in Users,
                NEW h \in Hashes \cup {None}, NEW a \in Claims, creditPolManual(s, kind, u, h, a)
         PROVE  GenuineInv'
    BY <2>2, <2>17 DEF creditPolManual, Begin, Call, Sound, TypeOK
  <2>18. CASE Next
    BY <2>4, <2>5, <2>6, <2>7, <2>11, <2>12, <2>13, <2>14, <2>15, <2>16, <2>17, <2>18, NextCases
  <2> QED
    BY <2>3, <2>18
<1>3. GenuineInv => DepositsAreGenuine
  BY DEF GenuineInv, DepositsAreGenuine
<1> QED
  BY <1>1, <1>2, <1>3, TypeCorrect, LedgerIsSerialised, PTL DEF Spec

-----------------------------------------------------------------------------
(* ErrorMeansNotCredited and NotifiedIsCredited.                            *)

\* What a call has committed: nothing while its transaction is open, and only a
\* ticket credit goes on after that.
CommittedInv ==
    \A s \in Handlers :
        call[s].pc # "idle" /\ committed[s] => call[s].pc = "reply" /\ call[s].kind = "ticket"

\* A call that can still commit has committed nothing yet, whatever fails or
\* expires, so an error answer of any call but a ticket credit leaves the
\* ledger as it was.
THEOREM ErrorsCreditNothing == Spec => ErrorMeansNotCredited
<1>1. Init => CommittedInv
  BY DEF Init, CommittedInv, NoCall, Call
<1>2. TypeOK /\ CommittedInv /\ [Next]_vars => CommittedInv'
  <2> SUFFICES ASSUME TypeOK, CommittedInv, [Next]_vars PROVE CommittedInv'
    OBVIOUS
  <2>1. ASSUME NEW s \in Handlers, NEW c, call' = [call EXCEPT ![s] = c],
               UNCHANGED committed, c.kind = call[s].kind,
               c.pc = call[s].pc \/ call[s].pc \notin {"idle", "reply"}
        PROVE  CommittedInv'
    BY <2>1 DEF CommittedInv, TypeOK
  <2>2. ASSUME NEW s \in Handlers, call' = [call EXCEPT ![s] = NoCall], UNCHANGED committed
        PROVE  CommittedInv'
    BY <2>2 DEF CommittedInv, TypeOK, NoCall, Call
  <2>3. ASSUME UNCHANGED <<call, committed>> PROVE CommittedInv'
    BY <2>3 DEF CommittedInv
  <2>4. ASSUME NEW s \in Handlers, NEW kind, NEW u, NEW h, NEW a, NEW w, Begin(s, kind, u, h, a, w)
        PROVE  CommittedInv'
    BY <2>4 DEF CommittedInv, TypeOK, Begin, Call
  <2>5. ASSUME NEW s \in Handlers, NEW pc, Goes(s, pc), call[s].pc \notin {"idle", "reply"}
        PROVE  CommittedInv'
    <3>1. At(s, pc).kind = call[s].kind
      BY DEF At, Call
    <3> QED
      BY <2>1, <2>5, <3>1 DEF Goes
  <2>6. ASSUME NEW s \in Handlers, Commit(s) PROVE CommittedInv'
    <3>1. call'[s].pc = "idle" \/ (call'[s].pc = "reply" /\ call'[s].kind = "ticket")
      BY <2>6 DEF Commit, TypeOK, RepliesLater, NoCall, Call
    <3>2. \A t \in Handlers : t # s => call'[t] = call[t] /\ committed'[t] = committed[t]
      BY <2>6 DEF Commit, TypeOK
    <3> QED
      BY <3>1, <3>2 DEF CommittedInv
  <2>7. ASSUME NEW s \in Handlers, Replenish(s) \/ Expires(s) \/ Notify(s) PROVE CommittedInv'
    <3>1. CASE Replenish(s)
      BY <2>1, <3>1 DEF Replenish, Call
    <3>2. CASE Expires(s)
      BY <2>1, <3>2 DEF Expires, Call
    <3>3. CASE Notify(s)
      BY <2>1, <3>3 DEF Notify, At, Call
    <3> QED
      BY <2>7, <3>1, <3>2, <3>3
  <2>8. CASE UNCHANGED vars
    BY <2>3, <2>8 DEF vars
  <2>9. CASE Next
    <3>1. ASSUME NEW s \in Handlers,
                 \/ Lock(s) \/ CheckDuplicate(s) \/ Verify(s) \/ NotifyFails(s)
          PROVE  CommittedInv'
      BY <2>2, <2>5, <3>1 DEF Lock, CheckDuplicate, Verify, NotifyFails, Refuses
    <3>2. ASSUME NEW s \in Handlers,
                 \/ RefuseDuplicate(s) \/ Reply(s) \/ ReplyFails(s) \/ StatementFails(s)
                 \/ LateStatement(s)
          PROVE  CommittedInv'
      BY <2>2, <3>2 DEF RefuseDuplicate, Reply, ReplyFails, StatementFails, LateStatement, Refuses
    <3>3. ASSUME NEW s \in Handlers, NEW u \in Users, NEW h \in Hashes,
                 \/ \E a \in Claims \cup {Value} : requestDeposit(s, u, h, a)
                 \/ scanForNewDeposits(s, u, h)
          PROVE  CommittedInv'
      BY <2>4, <3>3 DEF requestDeposit, scanForNewDeposits
    <3>4. ASSUME NEW s \in Handlers, NEW kind \in ByHand, NEW u \in Users,
                 NEW h \in Hashes \cup {None}, NEW a \in Claims, creditPolManual(s, kind, u, h, a)
          PROVE  CommittedInv'
      BY <2>4, <3>4 DEF creditPolManual
    <3>5. ASSUME \/ \E u \in Users, w \in Wallets : updateAddress(u, w)
                 \/ \E h \in Hashes : Confirm(h)
                 \/ ScannerSleeps
          PROVE  CommittedInv'
      BY <2>3, <3>5 DEF updateAddress, Confirm, ScannerSleeps
    <3> QED
      BY <2>6, <2>7, <2>9, <3>1, <3>2, <3>3, <3>4, <3>5, NextCases
  <2> QED
    BY <2>8, <2>9
<1>3. TypeOK /\ CommittedInv /\ [Next]_vars =>
        [\A s \in Handlers :
           /\ call[s].kind # "ticket" /\ call[s].pc # "idle"
           /\ call'[s].pc = "idle" /\ answer'[s] = "error"
           => ~committed[s]]_vars
  BY DEF CommittedInv
<1> QED
  BY <1>1, <1>2, <1>3, TypeCorrect, PTL DEF Spec, ErrorMeansNotCredited

\* With nothing failing: a call that has not committed has its transaction, and
\* one that tops up a balance has found its hash in the ledger.
TellsInv ==
    /\ NotifiedIsCredited
    /\ \A s \in Handlers :
         /\ call[s].pc \notin {"idle", "reply"} => call[s].open
         /\ call[s].pc # "idle" /\ call[s].again /\ call[s].hash \in Hashes => recorded[call[s].hash] > 0

\* Where no statement fails and no transaction expires, whoever is told of a
\* deposit has it in the ledger, or the transaction that will put it there is
\* at its commit, whichever calls report it at once.
THEOREM NotificationsAreTrue ==
    ASSUME ~MayFail
    PROVE  Spec => []NotifiedIsCredited
<1>1. Init => TellsInv
  BY DEF Init, TellsInv, NotifiedIsCredited, NoCall, Call
<1>2. TypeOK /\ TellsInv /\ [Next]_vars => TellsInv'
  <2> SUFFICES ASSUME TypeOK, TellsInv, [Next]_vars PROVE TellsInv'
    OBVIOUS
  <2> DEFINE Mine(s) == /\ call[s].pc \notin {"idle", "reply"} => call[s].open
                        /\ call[s].pc # "idle" /\ call[s].again /\ call[s].hash \in Hashes
                             => recorded[call[s].hash] > 0
             Told(u, h) == \/ recorded[h] > 0
                           \/ \E s \in Handlers :
                                call[s].pc = "commit" /\ call[s].open /\ call[s].hash = h
  <2>0. /\ \A s \in Handlers : Mine(s)
        /\ \A u \in Users, h \in Hashes : <<u, h>> \in notified => Told(u, h)
    BY DEF TellsInv, NotifiedIsCredited, Open
  <2>1. ASSUME \A s \in Handlers : Mine(s)',
               \A u \in Users, h \in Hashes : <<u, h>> \in notified' => Told(u, h)'
        PROVE  TellsInv'
    BY <2>1 DEF TellsInv, NotifiedIsCredited, Open
  <2>2. ASSUME NEW s \in Handlers, NEW c, call' = [call EXCEPT ![s] = c],
               UNCHANGED <<recorded, notified>>, call[s].pc # "commit", Mine(s)'
        PROVE  TellsInv'
    <3>1. \A t \in Handlers : Mine(t)'
      BY <2>0, <2>2 DEF TypeOK
    <3>2. \A u \in Users, h \in Hashes : <<u, h>> \in notified' => Told(u, h)'
      BY <2>0, <2>2 DEF TypeOK
    <3> QED
      BY <2>1, <3>1, <3>2
  <2>3. ASSUME UNCHANGED <<call, recorded, notified>> PROVE TellsInv'
    BY <2>0, <2>1, <2>3
  <2>4. ASSUME NEW s \in Handlers, NEW kind, NEW u, NEW h, NEW a, NEW w, Begin(s, kind, u, h, a, w)
        PROVE  TellsInv'
    <3>1. Mine(s)'
      BY <2>4 DEF Begin, Call, TypeOK
    <3>2. UNCHANGED <<recorded, notified>> /\ call[s].pc # "commit"
      BY <2>4 DEF Begin, ledger
    <3> HIDE DEF Mine
    <3> QED
      BY <2>2, <2>4, <3>1, <3>2 DEF Begin
  <2>5. ASSUME NEW s \in Handlers, NEW pc, Goes(s, pc), call[s].pc \notin {"idle", "reply", "commit"}
        PROVE  TellsInv'
    <3>1. call'[s] = At(s, pc) /\ UNCHANGED <<recorded, notified>>
      BY <2>5 DEF Goes, TypeOK, ledger
    <3>2. Mine(s)'
      BY <2>0, <2>5, <3>1 DEF At, Call
    <3> HIDE DEF Mine
    <3> QED
      BY <2>2, <2>5, <3>1, <3>2 DEF Goes
  <2>6. ASSUME NEW s \in Handlers, Refuses(s), call[s].pc # "commit" PROVE TellsInv'
    <3>1. Mine(s)' /\ UNCHANGED <<recorded, notified>>
      BY <2>6 DEF Refuses, NoCall, Call, TypeOK, ledger
    <3> HIDE DEF Mine
    <3> QED
      BY <2>2, <2>6, <3>1 DEF Refuses
  <2>7. ASSUME NEW s \in Handlers, Replenish(s) PROVE TellsInv'
    <3>1. Mine(s)' /\ UNCHANGED <<recorded, notified>>
      BY <2>0, <2>7 DEF Replenish, Duplicate, Call, TypeOK, ledger
    <3> HIDE DEF Mine
    <3> QED
      BY <2>2, <2>7, <3>1 DEF Replenish
  <2>8. ASSUME NEW s \in Handlers, Notify(s) PROVE TellsInv'
    <3>1. /\ call' = [call EXCEPT ![s] = At(s, "commit")]
          /\ UNCHANGED recorded
          /\ notified' = notified \cup {<<call[s].user, call[s].hash>>}
          /\ call[s].pc = "notify"
      BY <2>8 DEF Notify, ledger
    <3>2. call'[s] = At(s, "commit")
      BY <3>1 DEF TypeOK
    <3>3. call'[s].pc = "commit" /\ call'[s].open /\ call'[s].hash = call[s].hash
      BY <2>0, <3>1, <3>2 DEF At, Call
    <3>4. \A t \in Handlers : t # s => call'[t] = call[t]
      BY <3>1 DEF TypeOK
    <3>5. \A t \in Handlers : Mine(t)'
      BY <2>0, <3>1, <3>2, <3>4 DEF At, Call
    <3>6. \A u \in Users, h \in Hashes : <<u, h>> \in notified' => Told(u, h)'
      BY <2>0, <3>1, <3>3, <3>4
    <3> QED
      BY <2>1, <3>5, <3>6
  <2>9. ASSUME NEW s \in Handlers, Commit(s) PROVE TellsInv'
    <3>1. \A h \in Hashes : recorded[h] > 0 => recorded'[h] > 0
      BY <2>9 DEF Commit, TypeOK
    <3>2. call[s].hash \in Hashes => recorded'[call[s].hash] > 0
      BY <2>0, <2>9, <3>1, CallFields, DepositsAssumption DEF Commit, NewRow, TypeOK
    <3>3. \A t \in Handlers : t # s => call'[t] = call[t]
      BY <2>9 DEF Commit, TypeOK
    <3>4. call'[s].pc \in {"idle", "reply"} /\ UNCHANGED notified
      BY <2>9 DEF Commit, NoCall, Call, TypeOK
    <3>5. call'[s].pc # "idle" => call'[s].hash = call[s].hash
      BY <2>9 DEF Commit, NoCall, Call, TypeOK
    <3>6. \A t \in Handlers : Mine(t)'
      BY <2>0, <3>1, <3>2, <3>3, <3>4, <3>5
    <3>7. \A u \in Users, h \in Hashes : <<u, h>> \in notified' => Told(u, h)'
      BY <2>0, <3>1, <3>2, <3>3, <3>4
    <3> QED
      BY <2>1, <3>6, <3>7
  <2>10. ASSUME NEW s \in Handlers, Reply(s) PROVE TellsInv'
    <3>1. Mine(s)' /\ UNCHANGED <<recorded, notified>>
      BY <2>10 DEF Reply, NoCall, Call, TypeOK, ledger
    <3> HIDE DEF Mine
    <3> QED
      BY <2>2, <2>10, <3>1 DEF Reply
  <2>11. ASSUME NEW s \in Handlers, LateStatement(s) PROVE FALSE
    BY <2>0, <2>11 DEF LateStatement
  <2>12. CASE Next
    <3> HIDE DEF Mine, Told
    <3>1. ASSUME NEW s \in Handlers,
                 Lock(s) \/ CheckDuplicate(s) \/ RefuseDuplicate(s) \/ Verify(s) \/ NotifyFails(s)
          PROVE  TellsInv'
      BY <2>5, <2>6, <3>1 DEF Lock, CheckDuplicate, RefuseDuplicate, Verify, NotifyFails
    <3>2. ASSUME NEW s \in Handlers, ReplyFails(s) \/ StatementFails(s) \/ Expires(s)
          PROVE  FALSE
      BY <3>2 DEF ReplyFails, StatementFails, Expires
    <3>3. ASSUME NEW s \in Handlers, NEW u \in Users, NEW h \in Hashes,
                 \/ \E a \in Claims \cup {Value} : requestDeposit(s, u, h, a)
                 \/ scanForNewDeposits(s, u, h)
          PROVE  TellsInv'
      BY <2>4, <3>3 DEF requestDeposit, scanForNewDeposits
    <3>4. ASSUME NEW s \in Handlers, NEW kind \in ByHand, NEW u \in Users,
                 NEW h \in Hashes \cup {None}, NEW a \in Claims, creditPolManual(s, kind, u, h, a)
          PROVE  TellsInv'
      BY <2>4, <3>4 DEF creditPolManual
    <3>5. ASSUME \/ \E u \in Users, w \in Wallets : updateAddress(u, w)
                 \/ \E h \in Hashes : Confirm(h)
                 \/ ScannerSleeps
          PROVE  TellsInv'
      BY <2>3, <3>5 DEF updateAddress, Confirm, ScannerSleeps, ledger
    <3> QED
      BY <2>7, <2>8, <2>9, <2>10, <2>11, <2>12, <3>1, <3>2, <3>3, <3>4, <3>5, NextCases
  <2>13. CASE UNCHANGED vars
    BY <2>3, <2>13 DEF vars, ledger
  <2> QED
    BY <2>12, <2>13
<1>3. TellsInv => NotifiedIsCredited
  BY DEF TellsInv
<1> QED
  BY <1>1, <1>2, <1>3, TypeCorrect, PTL DEF Spec
=============================================================================
