------------------------------- MODULE MCPlay -------------------------------
(***************************************************************************)
(* One run for the modules of what a player does between two blocks.  They  *)
(* share no state, so their specifications are checked side by side: each    *)
(* behaviour picks one of them and leaves the others as they begin.          *)
(***************************************************************************)
EXTENDS Machines, Faucet, Shortlink, WatchTime, Games, Boards, Checkin, Market

CONSTANTS m1, m2, p1

MCModelOf == [u \in {m1, m2, p1} |-> IF u = p1 THEN None ELSE "small"]
MCStats == {[hash |-> 1, size |-> 1], [hash |-> 2, size |-> 2]}
MCCost == [y \in Types |-> 2]
MCPerWindow == [y \in Types |-> 1]

VARIABLE part

playVars == <<part, machinesVars, faucetVars, shortlinkVars, watchVars, gamesVars, memoryVars, match3Vars, checkinVars, marketVars>>

PlayInit ==
    /\ part \in {"machines", "faucet", "shortlink", "watch", "games", "memory", "match3", "checkin", "market"}
    /\ MachinesInit /\ FaucetInit /\ ShortlinkInit /\ WatchInit /\ GamesInit
    /\ MemoryInit /\ Match3Init /\ CheckinInit /\ MarketInit
    \* One beginning for the parts that are not picked.
    /\ part # "machines" => catalogue = [m \in Models |-> [hash |-> 1, size |-> 1]]
    /\ part # "watch" => activity = "youtube"
    /\ part # "market" => price = Fallback

PlayNext ==
    /\ UNCHANGED part
    /\ \/ part = "machines" /\ MachinesNext
          /\ UNCHANGED <<faucetVars, shortlinkVars, watchVars, gamesVars, memoryVars, match3Vars, checkinVars, marketVars>>
       \/ part = "faucet" /\ FaucetNext
          /\ UNCHANGED <<machinesVars, shortlinkVars, watchVars, gamesVars, memoryVars, match3Vars, checkinVars, marketVars>>
       \/ part = "shortlink" /\ ShortlinkNext
          /\ UNCHANGED <<machinesVars, faucetVars, watchVars, gamesVars, memoryVars, match3Vars, checkinVars, marketVars>>
       \/ part = "watch" /\ WatchNext
          /\ UNCHANGED <<machinesVars, faucetVars, shortlinkVars, gamesVars, memoryVars, match3Vars, checkinVars, marketVars>>
       \/ part = "games" /\ GamesNext
          /\ UNCHANGED <<machinesVars, faucetVars, shortlinkVars, watchVars, memoryVars, match3Vars, checkinVars, marketVars>>
       \/ part = "memory" /\ MemoryNext
          /\ UNCHANGED <<machinesVars, faucetVars, shortlinkVars, watchVars, gamesVars, match3Vars, checkinVars, marketVars>>
       \/ part = "match3" /\ Match3Next
          /\ UNCHANGED <<machinesVars, faucetVars, shortlinkVars, watchVars, gamesVars, memoryVars, checkinVars, marketVars>>
       \/ part = "checkin" /\ CheckinNext
          /\ UNCHANGED <<machinesVars, faucetVars, shortlinkVars, watchVars, gamesVars, memoryVars, match3Vars, marketVars>>
       \/ part = "market" /\ MarketNext
          /\ UNCHANGED <<machinesVars, faucetVars, shortlinkVars, watchVars, gamesVars, memoryVars, match3Vars, checkinVars>>

PlaySpec == PlayInit /\ [][PlayNext]_playVars

-----------------------------------------------------------------------------
\* The modules' type invariants.
PlayTypeOK ==
    /\ part = "machines" => MachinesTypeOK
    /\ part = "faucet" => FaucetTypeOK
    /\ part = "shortlink" => ShortlinkTypeOK
    /\ part = "watch" => WatchTypeOK
    /\ part = "games" => GamesTypeOK
    /\ part = "memory" => MemoryTypeOK
    /\ part = "match3" => Match3TypeOK
    /\ part = "checkin" => CheckinTypeOK
    /\ part = "market" => MarketTypeOK

\* What a player is rewarded for takes the time it is said to take: faucet
\* claims are a cooldown apart and each has a visit waited for of its own, and
\* no shortlink machine is given before three steps' time.
RewardsAreEarned == ClaimsAreSpaced /\ ClaimsHaveVisits /\ StepsAreWaited

\* Rewards are counted as they are given: the shortlink's daily limit, its
\* tab's copy of the row, and the faucet's count of the day.
RewardsAreCounted ==
    /\ part = "faucet" => TotalCountsTheDay
    /\ part = "shortlink" => RunsAreLimited /\ TabFollowsRow

\* Watching: time is earned in real time and covers the claims, powers stay
\* within the daily limit, and each Pulse GPU waits its turn and gives one
\* machine.
WatchIsPaid ==
    part = "watch" =>
        /\ TimeIsEarned /\ TimeCoversClaims /\ LivePowersAreLimited
        /\ MachinesMatchClaims /\ GpusWaitInTurn

\* Games: powers are spaced by the cooldown, sessions belong to connected
\* sockets, the tab shows the server's cards, two open cards get closed, and
\* match-3 boards are stable and fall as columns.
GamesAreSound ==
    /\ part = "games" => PowersAreSpaced /\ SessionsAreLive
    /\ part = "memory" => TabShowsBoard /\ CardsWillClose /\ SymbolsAreKnown
    /\ part = "match3" => BoardIsStable /\ ColumnsFall

\* Check-ins: a user pays at most once a day, and the streak is the run of
\* days that ends today.
CheckinsAreKept == part = "checkin" => OnePaymentADay /\ StreakIsARun

\* What a handler has looked up is still true when it is used: a confirmation
\* answered with ok has left its day's row, and a swap's rate is recent.
AnswersAreTrue == OkMeansCheckedIn /\ RatesAreRecent

\* Money spent in the market, the shop and on ads: overlapping requests
\* overdraw by less than what they take, and views are paid once each.
MarketIsSound ==
    /\ part = "market" => MarketDebtIsBounded /\ AdsMatchViews
    /\ part = "machines" => DebtIsBounded
=============================================================================
