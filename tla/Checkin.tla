------------------------------- MODULE Checkin -------------------------------
(***************************************************************************)
(* The paid daily check-in of one user: a page pays on the chain, waits for *)
(* the receipt and has the server confirm the payment; the server looks the *)
(* payment up, checks the tables and creates the row of the day on which    *)
(* the request began.  Answers and hashes get lost; nights pass meanwhile.  *)
(***************************************************************************)
EXTENDS Requests, Sequences

CONSTANTS
    Pages,          \* tabs and devices
    Take,           \* rows the streak is counted from (120)
    LastDay,        \* bound: the clock
    MaxPayments     \* bound: payments made

ASSUME CheckinAssumption ==
    /\ IsFiniteSet(Pages)
    /\ Take \in Nat \ {0} /\ LastDay \in Nat /\ MaxPayments \in Nat

VARIABLES
    today,
    payments,   \* day of each payment on the chain, by hash
    checkins,   \* rows of daily_checkins: [day, hash]
    page,       \* what each page shows and waits for
    kcall,      \* confirmations in flight
    lost,       \* days on which a page lost a payment it had made
    reposted    \* hashes posted more than once

checkinVars == <<today, payments, checkins, page, kcall, lost, reposted>>

Dates == 0 .. LastDay
Hashes == 1 .. MaxPayments

Row(day, hash) == [day |-> day, hash |-> hash]

\* checked: status.checkedIn as it was fetched; hash: the payment waited for.
Page(pc, checked, hash) == [pc |-> pc, checked |-> checked, hash |-> hash]
KCall(pc, p, day, hash) == [pc |-> pc, page |-> p, day |-> day, hash |-> hash]
KIdle == KCall("idle", None, 0, 0)

CheckinInit ==
    /\ today = 0
    /\ payments = <<>> /\ checkins = {}
    /\ page = [p \in Pages |-> Page("loading", FALSE, 0)]
    /\ kcall = [c \in Calls |-> KIdle]
    /\ lost = {} /\ reposted = {}

NightPasses ==
    /\ today < LastDay
    /\ today' = today + 1
    /\ UNCHANGED <<payments, checkins, page, kcall, lost, reposted>>

CheckedOn(day) == \E r \in checkins : r.day = day

-----------------------------------------------------------------------------
(* The page.                                                                *)

\* The page is opened or reloaded, whatever it was waiting for.
openPage(p) ==
    /\ page' = [page EXCEPT ![p] = Page("loading", FALSE, 0)]
    /\ lost' = IF page[p].hash # 0 THEN lost \cup {payments[page[p].hash]} ELSE lost
    /\ UNCHANGED <<today, payments, checkins, kcall, reposted>>

fetchStatus(p) ==
    /\ page[p].pc = "loading"
    /\ page' = [page EXCEPT ![p] = Page("shown", CheckedOn(today), 0)]
    /\ UNCHANGED <<today, payments, checkins, kcall, lost, reposted>>

\* Slip: the day's status does not keep the page from paying.
PayableAlways(p) == page[p].pc = "shown"

\* payInFlightRef and the status.
Payable(p) == page[p].pc = "shown" /\ ~page[p].checked

handlePayCheckin(p) ==
    /\ Payable(p)
    /\ Len(payments) < MaxPayments
    /\ payments' = Append(payments, today)
    /\ page' = [page EXCEPT ![p] = Page("paying", FALSE, Len(payments) + 1)]
    /\ UNCHANGED <<today, checkins, kcall, lost, reposted>>

\* The receipt arrives, and the hash is posted.
confirmPayment(p, c) ==
    /\ page[p].pc = "paying" /\ kcall[c].pc = "idle"
    /\ page' = [page EXCEPT ![p].pc = "confirming"]
    /\ kcall' = [kcall EXCEPT ![c] = KCall("sent", p, 0, page[p].hash)]
    /\ UNCHANGED <<today, payments, checkins, lost, reposted>>

\* The request is sent again below the page, which listens to the new one.
Repost(p, c) ==
    /\ MayFail
    /\ page[p].pc = "confirming" /\ kcall[c].pc = "idle"
    /\ kcall' = [d \in Calls |-> IF d = c THEN KCall("sent", p, 0, page[p].hash)
                                 ELSE IF kcall[d].page = p THEN [kcall[d] EXCEPT !.page = None]
                                 ELSE kcall[d]]
    /\ reposted' = reposted \cup {page[p].hash}
    /\ UNCHANGED <<today, payments, checkins, page, lost>>

-----------------------------------------------------------------------------
(* confirmCheckin.                                                          *)

\* The answer reaches the page, unless it has been reloaded; an error leaves
\* the page without the hash.
Tells(c, ok) ==
    LET p == kcall[c].page
        heard == p # None /\ page[p].pc = "confirming" /\ page[p].hash = kcall[c].hash
    IN  /\ kcall' = [kcall EXCEPT ![c] = KIdle]
        /\ page' = IF ~heard THEN page
                   ELSE [page EXCEPT ![p] = Page(IF ok THEN "loading" ELSE "shown", FALSE, 0)]
        /\ lost' = IF heard /\ ~ok THEN lost \cup {payments[kcall[c].hash]} ELSE lost

confirmCheckin(c) ==
    /\ kcall[c].pc = "sent"
    /\ kcall' = [kcall EXCEPT ![c].pc = "look", ![c].day = today]
    /\ UNCHANGED <<today, payments, checkins, page, lost, reposted>>

\* The payment is found, confirmed and right; the tables are looked at.
CheckinReads(c) ==
    LET q == kcall[c] IN
    /\ q.pc = "look"
    /\ IF CheckedOn(q.day) THEN Tells(c, TRUE)
       ELSE IF \E r \in checkins : r.hash = q.hash THEN Tells(c, FALSE)
       ELSE /\ kcall' = [kcall EXCEPT ![c].pc = "create"]
            /\ UNCHANGED <<page, lost>>
    /\ UNCHANGED <<today, payments, checkins, reposted>>

\* Slip: the row is one of the day on which it is written.
RowOfNow(q) == Row(today, q.hash)

RowOf(q) == Row(q.day, q.hash)

\* A key that is taken by then is answered with ok.
CheckinCreates(c) ==
    LET q == kcall[c]
        taken == CheckedOn(q.day) \/ \E r \in checkins : r.hash = q.hash
    IN  /\ q.pc = "create"
        /\ checkins' = IF taken THEN checkins ELSE checkins \cup {RowOf(q)}
        /\ Tells(c, TRUE)
        /\ UNCHANGED <<today, payments, reposted>>

\* The payment is not found or not confirmed yet, or a statement throws.
CheckinFails(c) ==
    /\ MayFail
    /\ kcall[c].pc \in {"look", "create"}
    /\ Tells(c, FALSE)
    /\ UNCHANGED <<today, payments, checkins, reposted>>

CheckinNext ==
    \/ NightPasses
    \/ \E p \in Pages :
          \/ openPage(p) \/ fetchStatus(p) \/ handlePayCheckin(p)
          \/ \E c \in Calls : confirmPayment(p, c) \/ Repost(p, c)
    \/ \E c \in Calls :
          confirmCheckin(c) \/ CheckinReads(c) \/ CheckinCreates(c) \/ CheckinFails(c)

CheckinSpec == CheckinInit /\ [][CheckinNext]_checkinVars

-----------------------------------------------------------------------------
(* The streak.                                                              *)

\* The days of the newest rows.
Newest ==
    LET days == {r.day : r \in checkins}
    IN  {d \in days : Cardinality({e \in days : e > d}) < Take}

\* Slip: a streak that does not reach today is counted from yesterday, too.
CountedFrom(days) == IF today \in days THEN today ELSE today - 1

StreakFrom(days) == today

\* computeBrazilStreak goes back from today while there is a row.
Streak ==
    LET days == Newest
        run[d \in -2 .. LastDay] == IF d \in days THEN 1 + run[d - 1] ELSE 0
    IN  run[StreakFrom(days)]

-----------------------------------------------------------------------------
(* Properties.                                                              *)

\* Type correctness of the tables, the pages and the requests.
CheckinTypeOK ==
    /\ today \in Dates
    /\ payments \in Seq(Dates) /\ Len(payments) <= MaxPayments
    /\ checkins \subseteq [day: Dates, hash: Hashes]
    /\ page \in [Pages -> [pc: {"loading", "shown", "paying", "confirming"}, checked: BOOLEAN,
                           hash: Hashes \cup {0}]]
    /\ kcall \in [Calls -> [pc: {"idle", "sent", "look", "create"}, page: Pages \cup {None},
                            day: Dates, hash: Hashes \cup {0}]]
    /\ lost \subseteq Dates /\ reposted \subseteq Hashes

\* A user who loses no payment pays at most once a day on each page, whatever
\* is reloaded and whenever night falls.
OnePaymentADay ==
    lost # {} \/ \A d \in Dates :
        Cardinality({h \in 1 .. Len(payments) : payments[h] = d}) <= Cardinality(Pages)

\* A confirmation that is answered with ok has left a row for the day on which
\* it was posted, also across midnight and when the row's keys were taken
\* meanwhile; unless the same hash was posted twice, on two days.
OkMeansCheckedIn ==
    [][\A c \in Calls :
          LET q == kcall[c] IN
          (q.page # None /\ kcall'[c] # q /\ page[q.page].pc = "confirming"
              /\ page'[q.page].pc = "loading")
          => \/ \E r \in checkins' : r.day = q.day
             \/ q.hash \in reposted]_checkinVars

\* The streak is the number of days up to today with a check-in on each, or
\* Take when there are more.
StreakIsARun ==
    LET all == {n \in 0 .. today + 1 : \A i \in 0 .. n - 1 : CheckedOn(today - i)}
        longest == CHOOSE n \in all : \A m \in all : m <= n
    IN  Streak = IF longest > Take THEN Take ELSE longest
=============================================================================
