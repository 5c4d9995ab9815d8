----------------------------- MODULE FaucetPage -----------------------------
(***************************************************************************)
(* The faucet's page over the faucet: a cooldown the page counts down from   *)
(* what it was last told, a wait that a click on the advertisement starts,   *)
(* and a claim.  The page learns of the server's state by its answers only,   *)
(* and the timers of a browser lag.                                          *)
(***************************************************************************)
EXTENDS Requests

CONSTANTS
    CooldownTicks, WaitTicks,   \* the faucet's two delays
    MaxClaims                   \* bound: claims, and visits

ASSUME FaucetPageAssumption == {CooldownTicks, WaitTicks, MaxClaims} \subseteq Nat \ {0}

VARIABLES
    left,       \* the server's cooldown, as it is left
    visitAge,   \* how long ago the visit of today was opened
    faucetTab,  \* the page: [remaining, wait, can, claiming, unlocked, clicked, loading]
    lcall,      \* progress of each request: [op, left]
    lcount,     \* claims and visits
    lluck       \* "unknown": the page was not told the cooldown;
                \* "midnight": a visit was opened on another day

faucetPageVars == <<left, visitAge, faucetTab, lcall, lcount, lluck>>

NotVisited == -1
LCall(op, t) == [op |-> op, left |-> t]
LIdle == LCall("idle", 0)
LDue(ops) == \E c \in Calls : lcall[c].op \in ops
LSets(c, q) == lcall' = [lcall EXCEPT ![c] = q]
LSends(c, op) == lcall[c] = LIdle /\ LSets(c, LCall(op, 0))
Less(t) == IF t > 0 THEN t - 1 ELSE 0

FreshTab == [remaining |-> 0, wait |-> 0, can |-> FALSE, claiming |-> FALSE,
             unlocked |-> FALSE, clicked |-> FALSE, loading |-> TRUE]

FaucetPageInit ==
    /\ left = 0
    /\ visitAge = NotVisited
    /\ faucetTab = FreshTab
    /\ lcall = [c \in Calls |-> LIdle]
    /\ lcount = 0
    /\ lluck = {}

\* The flags go back, and what was visited is visited again.
FlagsReset(tab) == [tab EXCEPT !.unlocked = FALSE, !.can = FALSE, !.clicked = FALSE]

\* Slip: a visit counts for the next claim as well.
OnlyCanReset(tab) == [tab EXCEPT !.can = FALSE]

\* The first effect of a page that is opened, and a claim, fetch the status.
fetchStatus(c) ==
    /\ faucetTab.loading /\ ~LDue({"status", "told"})
    /\ LSends(c, "status")
    /\ UNCHANGED <<left, visitAge, faucetTab, lcount, lluck>>

FaucetTells(c) ==
    /\ lcall[c].op = "status"
    /\ LSets(c, LCall("told", left))
    /\ UNCHANGED <<left, visitAge, faucetTab, lcount, lluck>>

StatusArrives(c) ==
    LET told == [faucetTab EXCEPT !.remaining = lcall[c].left, !.loading = FALSE] IN
    /\ lcall[c].op = "told"
    /\ faucetTab' = IF lcall[c].left > 0 THEN FlagsReset(told) ELSE told
    /\ LSets(c, LIdle)
    /\ UNCHANGED <<left, visitAge, lcount, lluck>>

\* The wait is over: whether the claim is open is decided now, once.
WaitEnds(tab, remaining) ==
    [tab EXCEPT !.remaining = remaining, !.wait = 0, !.unlocked = TRUE, !.can = (remaining = 0)]

\* A second passes for the server; each timer of the page ticks, or lags.
SecondPasses ==
    /\ left > 0 \/ visitAge \in 0 .. WaitTicks - 1 \/ faucetTab.remaining > 0 \/ faucetTab.wait > 0
    /\ left' = Less(left)
    /\ visitAge' = IF visitAge \in 0 .. WaitTicks - 1 THEN visitAge + 1 ELSE visitAge
    /\ \E remaining \in {faucetTab.remaining, Less(faucetTab.remaining)} :
          \/ faucetTab' = [faucetTab EXCEPT !.remaining = remaining]
          \/ /\ faucetTab.wait > 1
             /\ faucetTab' = [faucetTab EXCEPT !.remaining = remaining, !.wait = @ - 1]
          \/ /\ faucetTab.wait = 1
             /\ faucetTab' = WaitEnds(faucetTab, remaining)
    /\ UNCHANGED <<lcall, lcount, lluck>>

\* handleBlur: the advertisement is shown when no cooldown is, and a click on
\* its frame starts the wait; before a status is told the page knows of no
\* cooldown.
startPartnerTimer(c) ==
    LET tab == faucetTab IN
    /\ ~tab.loading /\ tab.remaining = 0 /\ tab.wait = 0 /\ ~tab.unlocked /\ ~tab.clicked
    /\ lcount < MaxClaims
    /\ faucetTab' = [tab EXCEPT !.clicked = TRUE]
    /\ LSends(c, "start")
    /\ lluck' = lluck \cup IF LDue({"status", "told"}) THEN {"unknown"} ELSE {}
    /\ lcount' = lcount + 1
    /\ UNCHANGED <<left, visitAge>>

OpensVisit(c) ==
    /\ lcall[c].op = "start"
    /\ visitAge' = 0
    /\ LSets(c, LCall("started", 0))
    /\ UNCHANGED <<left, faucetTab, lcount, lluck>>

StartArrives(c) ==
    /\ lcall[c].op = "started"
    /\ faucetTab' = [faucetTab EXCEPT !.wait = WaitTicks]
    /\ LSets(c, LIdle)
    /\ UNCHANGED <<left, visitAge, lcount, lluck>>

\* A visit serves the claims of its day.
MidnightPasses ==
    /\ visitAge # NotVisited /\ "midnight" \notin lluck
    /\ visitAge' = NotVisited
    /\ lluck' = lluck \cup {"midnight"}
    /\ UNCHANGED <<left, faucetTab, lcall, lcount>>

handleClaim(c) ==
    /\ faucetTab.can /\ ~faucetTab.claiming /\ faucetTab.remaining = 0
    /\ faucetTab' = [faucetTab EXCEPT !.claiming = TRUE]
    /\ LSends(c, "claim")
    /\ UNCHANGED <<left, visitAge, lcount, lluck>>

\* What claimReward asks for: see Faucet.
WouldClaim == left = 0 /\ visitAge = WaitTicks

claimReward(c) ==
    /\ lcall[c].op = "claim"
    /\ LSets(c, LCall(IF WouldClaim THEN "claimed" ELSE "refused", 0))
    /\ left' = IF WouldClaim THEN CooldownTicks ELSE left
    /\ visitAge' = IF WouldClaim THEN NotVisited ELSE visitAge
    /\ UNCHANGED <<faucetTab, lcount, lluck>>

\* A claim that succeeded fetches the status and resets the flags.
ClaimArrives(c) ==
    /\ lcall[c].op = "claimed"
    /\ faucetTab' = [FlagsReset(faucetTab) EXCEPT !.claiming = FALSE]
    /\ LSets(c, LCall("status", 0))
    /\ UNCHANGED <<left, visitAge, lcount, lluck>>

RefusalArrives(c) ==
    /\ lcall[c].op = "refused"
    /\ faucetTab' = [faucetTab EXCEPT !.claiming = FALSE]
    /\ LSets(c, LIdle)
    /\ UNCHANGED <<left, visitAge, lcount, lluck>>

\* A request, or its answer, is lost: the page goes on without.
FaucetAnswerLost(c) ==
    LET op == lcall[c].op IN
    /\ MayFail
    /\ op # "idle"
    /\ faucetTab' = CASE op \in {"status", "told"} -> [faucetTab EXCEPT !.loading = FALSE]
                      [] op \in {"start", "started"} -> [faucetTab EXCEPT !.clicked = FALSE]
                      [] OTHER -> [faucetTab EXCEPT !.claiming = FALSE]
    /\ lluck' = lluck \cup IF op \in {"status", "told", "claimed"} THEN {"unknown"} ELSE {}
    /\ LSets(c, LIdle)
    /\ UNCHANGED <<left, visitAge, lcount>>

\* The page is opened anew, with nothing of it under way.
ReloadsFaucet ==
    /\ ~faucetTab.loading /\ \A c \in Calls : lcall[c] = LIdle
    /\ faucetTab' = FreshTab
    /\ lluck' = {}
    /\ UNCHANGED <<left, visitAge, lcall, lcount>>

FaucetPageNext ==
    \/ SecondPasses \/ MidnightPasses \/ ReloadsFaucet
    \/ \E c \in Calls :
          \/ fetchStatus(c) \/ FaucetTells(c) \/ StatusArrives(c)
          \/ startPartnerTimer(c) \/ OpensVisit(c) \/ StartArrives(c)
          \/ handleClaim(c) \/ claimReward(c) \/ ClaimArrives(c) \/ RefusalArrives(c)
          \/ FaucetAnswerLost(c)

FaucetPageSpec == FaucetPageInit /\ [][FaucetPageNext]_faucetPageVars
-----------------------------------------------------------------------------
(* Properties.                                                              *)

\* Type correctness of the faucet and its page.
FaucetPageTypeOK ==
    /\ left \in 0 .. CooldownTicks /\ visitAge \in NotVisited .. WaitTicks
    /\ faucetTab \in [remaining : 0 .. CooldownTicks, wait : 0 .. WaitTicks, can : BOOLEAN,
                      claiming : BOOLEAN, unlocked : BOOLEAN, clicked : BOOLEAN, loading : BOOLEAN]
    /\ lcall \in [Calls -> [op : {"idle", "status", "told", "start", "started", "claim", "claimed", "refused"},
                            left : 0 .. CooldownTicks]]
    /\ lluck \subseteq {"unknown", "midnight"}

\* The claim is offered when the server would take it, and not while a claim
\* is under way elsewhere: the page's timers run after the server's.  Unless a
\* click came before the cooldown was known, or the day changed.
OfferIsGood ==
    lluck = {} /\ faucetTab.can /\ ~faucetTab.claiming => WouldClaim

\* A visit that is shown as made opens the claim, or the claim is on its way:
\* the page is not stuck with neither an advertisement nor a claim.
VisitOpensClaim ==
    lluck = {} /\ faucetTab.unlocked /\ faucetTab.remaining = 0 => faucetTab.can
=============================================================================
