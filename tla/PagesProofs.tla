---------------------------- MODULE PagesProofs -----------------------------
(***************************************************************************)
(* Theorems about the pages, for any tabs, requests, answers and bounds:   *)
(* what a page shows and offers agrees with what it has been told, however *)
(* late and in whatever order it is told.                                  *)
(***************************************************************************)
EXTENDS MCPeople, RequestsProofs, SequenceTheorems, FunctionTheorems, TLAPS

-----------------------------------------------------------------------------
(* The faucet's page.                                                       *)

TabQuiet == /\ ~faucetTab.can /\ ~faucetTab.unlocked /\ ~faucetTab.claiming /\ ~faucetTab.clicked
            /\ faucetTab.wait = 0 /\ faucetTab.remaining = 0

\* What a request under way says of the page: no other is, and the page waits
\* for it.
LCallFits(c) ==
    /\ lcall[c].op = "idle" => lcall[c] = LIdle
    /\ lcall[c].op # "idle" => \A d \in Calls : d # c => lcall[d].op = "idle"
    /\ lcall[c].op \in {"status", "told"} => TabQuiet
    /\ lcall[c].op = "told" => left <= lcall[c].left
    /\ lcall[c].op \in {"start", "started"} =>
          /\ faucetTab.clicked /\ ~faucetTab.can /\ ~faucetTab.unlocked /\ ~faucetTab.claiming /\ ~faucetTab.loading
          /\ faucetTab.wait = 0 /\ faucetTab.remaining = 0 /\ left = 0
    /\ lcall[c].op = "started" => visitAge >= 0
    /\ lcall[c].op \in {"claim", "claimed"} => faucetTab.claiming /\ faucetTab.can
    /\ lcall[c].op = "claim" => WouldClaim
    /\ lcall[c].op # "refused"

\* The cooldown shown is not behind the server's, a wait is not ahead of the
\* visit's age, and a claim that is open would be taken.
TabFits ==
    /\ faucetTab.claiming => LDue({"claim", "claimed"})
    /\ faucetTab.loading => TabQuiet
    /\ faucetTab.can => faucetTab.unlocked /\ faucetTab.remaining = 0 /\ faucetTab.wait = 0
    /\ faucetTab.can /\ ~faucetTab.claiming => WouldClaim
    /\ faucetTab.unlocked => faucetTab.can
    /\ faucetTab.wait > 0 =>
          /\ \A c \in Calls : lcall[c].op = "idle"
          /\ left = 0 /\ faucetTab.remaining = 0 /\ faucetTab.clicked /\ ~faucetTab.claiming
          /\ visitAge >= 0 /\ visitAge + faucetTab.wait >= WaitTicks
    /\ ~faucetTab.loading /\ ~LDue({"status", "told", "claimed"}) => left <= faucetTab.remaining

FaucetPageInv == FaucetPageTypeOK /\ (lluck = {} => TabFits /\ \A c \in Calls : LCallFits(c))

FTabs == [remaining : 0 .. CooldownTicks, wait : 0 .. WaitTicks, can : BOOLEAN,
          claiming : BOOLEAN, unlocked : BOOLEAN, clicked : BOOLEAN, loading : BOOLEAN]
FOps == {"idle", "status", "told", "start", "started", "claim", "claimed", "refused"}
FCalls == [op : FOps, left : 0 .. CooldownTicks]

LEMMA FaucetPageNumbers ==
    /\ CooldownTicks \in Nat \ {0} /\ WaitTicks \in Nat \ {0} /\ MaxClaims \in Nat \ {0}
    /\ 0 \in 0 .. CooldownTicks /\ 0 \in 0 .. WaitTicks /\ WaitTicks \in 0 .. WaitTicks /\ CooldownTicks \in 0 .. CooldownTicks
    /\ \A t \in 0 .. CooldownTicks : Less(t) \in 0 .. CooldownTicks
    /\ \A t, u \in 0 .. CooldownTicks : t <= u => Less(t) <= u /\ Less(t) <= Less(u)
    /\ 0 \in NotVisited .. WaitTicks /\ NotVisited \in NotVisited .. WaitTicks
BY FaucetPageAssumption DEF Less, NotVisited

LEMMA FaucetTabKinds ==
    ASSUME NEW tab \in FTabs
    PROVE  /\ tab.remaining \in 0 .. CooldownTicks /\ tab.wait \in 0 .. WaitTicks
           /\ tab.can \in BOOLEAN /\ tab.claiming \in BOOLEAN /\ tab.unlocked \in BOOLEAN
           /\ tab.clicked \in BOOLEAN /\ tab.loading \in BOOLEAN
BY DEF FTabs

LEMMA FaucetCallKinds ==
    /\ LIdle \in FCalls /\ LIdle.op = "idle" /\ LIdle.left = 0
    /\ \A op \in FOps, t \in 0 .. CooldownTicks : LCall(op, t) \in FCalls /\ LCall(op, t).op = op /\ LCall(op, t).left = t
    /\ FOps = {"idle", "status", "told", "start", "started", "claim", "claimed", "refused"}
BY FaucetPageNumbers DEF LIdle, LCall, FCalls, FOps

LEMMA FaucetPageTypes ==
    /\ FaucetPageTypeOK <=> /\ left \in 0 .. CooldownTicks /\ visitAge \in NotVisited .. WaitTicks
                            /\ faucetTab \in FTabs /\ lcall \in [Calls -> FCalls] /\ lluck \subseteq {"unknown", "midnight"}
BY DEF FaucetPageTypeOK, FTabs, FCalls, FOps

LEMMA FaucetPageBegins == FaucetPageInit => FaucetPageInv
<1> SUFFICES ASSUME FaucetPageInit PROVE FaucetPageInv
  OBVIOUS
<1>1. left = 0 /\ visitAge = NotVisited /\ faucetTab = FreshTab /\ lluck = {} /\ lcall = [c \in Calls |-> LIdle]
  BY DEF FaucetPageInit
<1>2. FreshTab \in FTabs
  BY FaucetPageNumbers DEF FreshTab, FTabs
<1>3. FaucetPageTypeOK
  BY <1>1, <1>2, FaucetPageNumbers, FaucetCallKinds, FaucetPageTypes
<1>4. TabQuiet /\ ~faucetTab.claiming /\ faucetTab.loading
  BY <1>1 DEF TabQuiet, FreshTab
<1>5. \A c \in Calls : lcall[c] = LIdle
  BY <1>1
<1>6. \A c \in Calls : LCallFits(c)
  BY <1>5, FaucetCallKinds DEF LCallFits
<1>7. TabFits
  BY <1>1, <1>4 DEF TabFits, TabQuiet
<1> QED
  BY <1>3, <1>6, <1>7 DEF FaucetPageInv

LEMMA FaucetCallSet ==
    ASSUME lcall \in [Calls -> FCalls], NEW c \in Calls, NEW q \in FCalls, LSets(c, q)
    PROVE  /\ lcall' \in [Calls -> FCalls] /\ lcall'[c] = q /\ \A d \in Calls : d # c => lcall'[d] = lcall[d]
BY DEF LSets

LEMMA FaucetPageFacts ==
    ASSUME FaucetPageInv
    PROVE  /\ left \in 0 .. CooldownTicks /\ visitAge \in NotVisited .. WaitTicks /\ faucetTab \in FTabs
           /\ lcall \in [Calls -> FCalls] /\ lluck \subseteq {"unknown", "midnight"}
           /\ \A c \in Calls : lcall[c] \in FCalls /\ lcall[c].op \in FOps /\ lcall[c].left \in 0 .. CooldownTicks
BY FaucetPageTypes DEF FaucetPageInv, FCalls

\* Nothing is under way while the page loads and no status is due, or while
\* the claim is open.
LEMMA NothingIsDue ==
    ASSUME FaucetPageInv, lluck = {},
           \/ faucetTab.loading /\ ~LDue({"status", "told"})
           \/ faucetTab.can /\ ~faucetTab.claiming
           \/ /\ ~faucetTab.loading /\ faucetTab.remaining = 0 /\ faucetTab.wait = 0 /\ ~faucetTab.unlocked
              /\ ~faucetTab.clicked /\ ~LDue({"status", "told"})
    PROVE  \A c \in Calls : lcall[c].op = "idle" /\ lcall[c] = LIdle
<1> SUFFICES ASSUME NEW c \in Calls PROVE lcall[c].op = "idle"
  BY DEF FaucetPageInv, LCallFits
<1>1. LCallFits(c) /\ TabFits /\ lcall[c].op \in FOps
  BY FaucetPageFacts DEF FaucetPageInv
<1>2. lcall[c].op \notin {"refused", "start", "started"}
  BY <1>1 DEF LCallFits, TabFits, TabQuiet
<1>3. lcall[c].op \notin {"claim", "claimed"}
  BY <1>1 DEF LCallFits, TabFits, TabQuiet
<1>4. lcall[c].op \notin {"status", "told"}
  BY <1>1 DEF LCallFits, TabQuiet, LDue
<1> QED
  BY <1>1, <1>2, <1>3, <1>4 DEF FOps

LEMMA FetchingHolds == ASSUME FaucetPageInv, NEW c \in Calls, fetchStatus(c) PROVE FaucetPageInv'
<1>1. /\ faucetTab.loading /\ ~LDue({"status", "told"}) /\ lcall[c] = LIdle /\ LSets(c, LCall("status", 0))
      /\ UNCHANGED <<left, visitAge, faucetTab, lluck>>
  BY DEF fetchStatus, LSends
<1>2. LCall("status", 0) \in FCalls /\ LCall("status", 0).op = "status"
  BY FaucetCallKinds, FaucetPageNumbers
<1>3. lcall' \in [Calls -> FCalls] /\ lcall'[c].op = "status" /\ \A d \in Calls : d # c => lcall'[d] = lcall[d]
  BY <1>1, <1>2, FaucetPageFacts, FaucetCallSet
<1>4. FaucetPageTypeOK'
  BY <1>1, <1>3, FaucetPageFacts DEF FaucetPageTypeOK, FTabs, FCalls, FOps
<1>5. ASSUME lluck' = {} PROVE TabFits' /\ \A d \in Calls : LCallFits(d)'
  <2>1. TabFits /\ TabQuiet /\ TabQuiet' /\ \A d \in Calls : lcall[d].op = "idle" /\ lcall[d] = LIdle
    BY <1>1, <1>5, NothingIsDue DEF FaucetPageInv, TabFits, TabQuiet
  <2>2. TabFits'
    BY <1>1, <1>3, <2>1 DEF TabFits, TabQuiet, LDue
  <2>3. ASSUME NEW d \in Calls PROVE LCallFits(d)'
    BY <1>3, <2>1 DEF LCallFits
  <2> QED
    BY <2>2, <2>3
<1> QED
  BY <1>4, <1>5 DEF FaucetPageInv

LEMMA TellingHolds == ASSUME FaucetPageInv, NEW c \in Calls, FaucetTells(c) PROVE FaucetPageInv'
<1>1. lcall[c].op = "status" /\ LSets(c, LCall("told", left)) /\ UNCHANGED <<left, visitAge, faucetTab, lluck>>
  BY DEF FaucetTells
<1>2. LCall("told", left) \in FCalls /\ LCall("told", left).op = "told" /\ LCall("told", left).left = left
  BY FaucetCallKinds, FaucetPageFacts
<1>3. lcall' \in [Calls -> FCalls] /\ lcall'[c].op = "told" /\ lcall'[c].left = left
      /\ \A d \in Calls : d # c => lcall'[d] = lcall[d]
  BY <1>1, <1>2, FaucetPageFacts, FaucetCallSet
<1>4. FaucetPageTypeOK'
  BY <1>1, <1>3, FaucetPageFacts DEF FaucetPageTypeOK, FTabs, FCalls, FOps
<1>5. ASSUME lluck' = {} PROVE TabFits' /\ \A d \in Calls : LCallFits(d)'
  <2>1. TabFits /\ LCallFits(c) /\ \A d \in Calls : LCallFits(d)
    BY <1>1, <1>5 DEF FaucetPageInv
  <2>2. TabQuiet /\ TabQuiet' /\ \A d \in Calls : d # c => lcall[d].op = "idle" /\ lcall[d] = LIdle
    BY <1>1, <2>1 DEF LCallFits, TabQuiet
  <2>3. TabFits'
    BY <1>1, <1>3, <2>2 DEF TabFits, TabQuiet, LDue
  <2>4. ASSUME NEW d \in Calls PROVE LCallFits(d)'
    <3>1. left <= left
      BY FaucetPageFacts
    <3> QED
      BY <1>1, <1>3, <2>2, <3>1 DEF LCallFits
  <2> QED
    BY <2>3, <2>4
<1> QED
  BY <1>4, <1>5 DEF FaucetPageInv

LEMMA FaucetFlags ==
    ASSUME NEW tab \in FTabs
    PROVE  /\ FlagsReset(tab) \in FTabs
           /\ ~FlagsReset(tab).unlocked /\ ~FlagsReset(tab).can /\ ~FlagsReset(tab).clicked
           /\ FlagsReset(tab).remaining = tab.remaining /\ FlagsReset(tab).wait = tab.wait
           /\ FlagsReset(tab).claiming = tab.claiming /\ FlagsReset(tab).loading = tab.loading
BY DEF FTabs, FlagsReset

LEMMA StatusHolds == ASSUME FaucetPageInv, NEW c \in Calls, StatusArrives(c) PROVE FaucetPageInv'
<1> DEFINE heardOf == [faucetTab EXCEPT !.remaining = lcall[c].left, !.loading = FALSE]
<1>1. /\ lcall[c].op = "told" /\ LSets(c, LIdle) /\ UNCHANGED <<left, visitAge, lluck>>
      /\ faucetTab' = IF lcall[c].left > 0 THEN FlagsReset(heardOf) ELSE heardOf
  BY DEF StatusArrives
<1>2. /\ heardOf \in FTabs /\ heardOf.remaining = lcall[c].left /\ ~heardOf.loading /\ heardOf.wait = faucetTab.wait
      /\ heardOf.can = faucetTab.can /\ heardOf.claiming = faucetTab.claiming /\ heardOf.unlocked = faucetTab.unlocked
  BY FaucetPageFacts DEF FTabs
<1> HIDE DEF heardOf
<1>3. /\ faucetTab' \in FTabs /\ faucetTab'.remaining = lcall[c].left /\ ~faucetTab'.loading
      /\ faucetTab'.wait = faucetTab.wait /\ (faucetTab'.claiming => faucetTab.claiming)
      /\ (faucetTab'.can => faucetTab.can) /\ (faucetTab'.unlocked => faucetTab.unlocked)
  BY <1>1, <1>2, FaucetFlags
<1>4. lcall' \in [Calls -> FCalls] /\ lcall'[c] = LIdle /\ \A d \in Calls : d # c => lcall'[d] = lcall[d]
  BY <1>1, FaucetPageFacts, FaucetCallSet, FaucetCallKinds
<1>5. FaucetPageTypeOK'
  BY <1>1, <1>3, <1>4, FaucetPageFacts DEF FaucetPageTypeOK, FTabs, FCalls, FOps
<1>6. ASSUME lluck' = {} PROVE TabFits' /\ \A d \in Calls : LCallFits(d)'
  <2>1. TabFits /\ LCallFits(c) /\ \A d \in Calls : LCallFits(d)
    BY <1>1, <1>6 DEF FaucetPageInv
  <2>2. TabQuiet /\ left <= lcall[c].left /\ \A d \in Calls : d # c => lcall[d].op = "idle" /\ lcall[d] = LIdle
    BY <1>1, <2>1 DEF LCallFits
  <2>3. \A d \in Calls : lcall'[d] = LIdle /\ lcall'[d].op = "idle"
    BY <1>4, <2>2, FaucetCallKinds
  <2>4. TabFits'
    <3>1. ~faucetTab'.can /\ ~faucetTab'.unlocked /\ ~faucetTab'.claiming /\ faucetTab'.wait = 0
      <4>1. ~faucetTab'.can /\ ~faucetTab'.unlocked /\ ~faucetTab'.claiming
        BY <1>3, <2>2, Zenon DEF TabQuiet
      <4>2. faucetTab'.wait = 0
        BY <1>3, <2>2, Zenon DEF TabQuiet
      <4> QED
        BY <4>1, <4>2
    <3>2. left' <= faucetTab'.remaining
      BY <1>1, <1>3, <2>2
    <3> QED
      BY <1>3, <3>1, <3>2 DEF TabFits
  <2>5. ASSUME NEW d \in Calls PROVE LCallFits(d)'
    BY <2>3 DEF LCallFits
  <2> QED
    BY <2>4, <2>5
<1> QED
  BY <1>5, <1>6 DEF FaucetPageInv

LEMMA SecondHolds == ASSUME FaucetPageInv, SecondPasses PROVE FaucetPageInv'
<1>1. /\ left' = Less(left) /\ visitAge' = IF visitAge \in 0 .. WaitTicks - 1 THEN visitAge + 1 ELSE visitAge
      /\ UNCHANGED <<lcall, lluck>>
  BY DEF SecondPasses
<1>2. PICK r \in {faucetTab.remaining, Less(faucetTab.remaining)} :
        \/ faucetTab' = [faucetTab EXCEPT !.remaining = r]
        \/ faucetTab.wait > 1 /\ faucetTab' = [faucetTab EXCEPT !.remaining = r, !.wait = faucetTab.wait - 1]
        \/ faucetTab.wait = 1 /\ faucetTab' = WaitEnds(faucetTab, r)
  BY DEF SecondPasses
<1>3. /\ left' \in 0 .. CooldownTicks /\ left' <= left /\ (left = 0 => left' = 0)
      /\ r \in 0 .. CooldownTicks /\ (left <= faucetTab.remaining => left' <= r)
      /\ faucetTab.remaining = 0 => r = 0
  BY <1>1, <1>2, FaucetPageFacts, FaucetPageNumbers, FaucetTabKinds DEF Less
<1>4. /\ visitAge' \in NotVisited .. WaitTicks /\ visitAge' >= visitAge
      /\ (visitAge = WaitTicks => visitAge' = WaitTicks)
      /\ (visitAge >= 0 => visitAge' = WaitTicks \/ visitAge' = visitAge + 1)
  BY <1>1, FaucetPageFacts, FaucetPageNumbers DEF NotVisited
<1>5. faucetTab.wait \in 0 .. WaitTicks /\ faucetTab.wait \in Nat
  BY FaucetPageFacts, FaucetTabKinds
<1>6. /\ faucetTab' \in FTabs /\ faucetTab'.remaining = r
      /\ (faucetTab'.claiming <=> faucetTab.claiming) /\ (faucetTab'.clicked <=> faucetTab.clicked)
      /\ (faucetTab'.loading <=> faucetTab.loading)
      /\ \/ /\ faucetTab'.wait = faucetTab.wait
            /\ (faucetTab'.can <=> faucetTab.can) /\ (faucetTab'.unlocked <=> faucetTab.unlocked)
         \/ /\ faucetTab.wait > 1 /\ faucetTab'.wait = faucetTab.wait - 1
            /\ (faucetTab'.can <=> faucetTab.can) /\ (faucetTab'.unlocked <=> faucetTab.unlocked)
         \/ /\ faucetTab.wait = 1 /\ faucetTab'.wait = 0
            /\ (faucetTab'.can <=> r = 0) /\ faucetTab'.unlocked
  <2>1. faucetTab \in FTabs
    BY FaucetPageFacts
  <2>2. CASE faucetTab' = [faucetTab EXCEPT !.remaining = r]
    BY <1>3, <2>1, <2>2 DEF FTabs
  <2>3. CASE faucetTab.wait > 1 /\ faucetTab' = [faucetTab EXCEPT !.remaining = r, !.wait = faucetTab.wait - 1]
    <3>1. faucetTab.wait - 1 \in 0 .. WaitTicks
      BY <1>5, <2>3, FaucetPageNumbers
    <3> QED
      BY <1>3, <2>1, <2>3, <3>1 DEF FTabs
  <2>4. CASE faucetTab.wait = 1 /\ faucetTab' = WaitEnds(faucetTab, r)
    <3>1. faucetTab' = [faucetTab EXCEPT !.remaining = r, !.wait = 0, !.unlocked = TRUE, !.can = (r = 0)]
      BY <2>4 DEF WaitEnds
    <3> QED
      BY <1>3, <2>1, <2>4, <3>1, FaucetPageNumbers DEF FTabs
  <2> QED
    BY <1>2, <2>2, <2>3, <2>4
<1>7. FaucetPageTypeOK'
  BY <1>1, <1>3, <1>4, <1>6, FaucetPageFacts DEF FaucetPageTypeOK, FTabs, FCalls, FOps
<1>8. ASSUME lluck' = {} PROVE TabFits' /\ \A d \in Calls : LCallFits(d)'
  <2>1. TabFits /\ \A d \in Calls : LCallFits(d)
    BY <1>1, <1>8 DEF FaucetPageInv
  <2>2. WouldClaim => WouldClaim'
    BY <1>3, <1>4 DEF WouldClaim
  <2>3. \A ops : LDue(ops)' <=> LDue(ops)
    BY <1>1 DEF LDue
  <2>4. TabQuiet => TabQuiet'
    <3> SUFFICES ASSUME TabQuiet PROVE TabQuiet'
      OBVIOUS
    <3>1. r = 0 /\ faucetTab.wait = 0
      BY <1>3 DEF TabQuiet
    <3>2. faucetTab'.wait = 0 /\ (faucetTab'.can <=> faucetTab.can) /\ (faucetTab'.unlocked <=> faucetTab.unlocked)
      BY <1>6, <3>1
    <3> QED
      BY <1>6, <3>1, <3>2, Zenon DEF TabQuiet
  <2>5. ASSUME NEW d \in Calls PROVE LCallFits(d)'
    <3>1. LCallFits(d) /\ lcall' = lcall
      BY <1>1, <2>1
    <3>2. CASE lcall[d].op \in {"idle", "refused"}
      BY <3>1, <3>2 DEF LCallFits
    <3>3. CASE lcall[d].op \in {"status", "told"}
      <4>1. lcall[d].op = "told" => left' <= lcall[d].left
        BY <1>3, <3>1, FaucetPageFacts DEF LCallFits
      <4> QED
        BY <2>4, <3>1, <3>3, <4>1 DEF LCallFits
    <3>4. CASE lcall[d].op \in {"start", "started"}
      <4>1. r = 0 /\ left' = 0 /\ faucetTab'.wait = 0 /\ (faucetTab'.can <=> faucetTab.can)
            /\ (faucetTab'.unlocked <=> faucetTab.unlocked)
        BY <1>3, <1>6, <3>1, <3>4 DEF LCallFits
      <4>2. visitAge >= 0 => visitAge' >= 0
        BY <1>4, FaucetPageFacts, FaucetPageNumbers DEF NotVisited
      <4> QED
        BY <1>6, <3>1, <3>4, <4>1, <4>2 DEF LCallFits
    <3>5. CASE lcall[d].op \in {"claim", "claimed"}
      <4>1. faucetTab.wait = 0
        BY <2>1, <3>1, <3>5 DEF LCallFits, TabFits
      <4>2. faucetTab'.can <=> faucetTab.can
        BY <1>6, <4>1
      <4> QED
        BY <1>6, <2>2, <3>1, <3>5, <4>2 DEF LCallFits
    <3> QED
      BY <3>2, <3>3, <3>4, <3>5, FaucetPageFacts DEF FOps
  <2>6. TabFits'
    <3>1. (faucetTab'.claiming => LDue({"claim", "claimed"})') /\ (faucetTab'.loading => TabQuiet')
      BY <1>6, <2>1, <2>3, <2>4 DEF TabFits
    <3>2. ~faucetTab'.loading /\ ~LDue({"status", "told", "claimed"})' => left' <= faucetTab'.remaining
      BY <1>3, <1>6, <2>1, <2>3 DEF TabFits
    <3>3. CASE faucetTab.wait = 0
      <4>1. faucetTab'.wait = 0 /\ (faucetTab'.can <=> faucetTab.can) /\ (faucetTab'.unlocked <=> faucetTab.unlocked)
        BY <1>6, <3>3
      <4>2. faucetTab'.can => faucetTab'.unlocked /\ faucetTab'.remaining = 0 /\ faucetTab'.wait = 0
        BY <1>3, <1>6, <2>1, <4>1 DEF TabFits
      <4>3. (faucetTab'.can /\ ~faucetTab'.claiming => WouldClaim') /\ (faucetTab'.unlocked => faucetTab'.can)
        BY <1>6, <2>1, <2>2, <4>1 DEF TabFits
      <4> QED
        BY <3>1, <3>2, <4>1, <4>2, <4>3 DEF TabFits
    <3>4. CASE faucetTab.wait > 0
      <4>1. /\ \A c \in Calls : lcall'[c].op = "idle"
            /\ left' = 0 /\ r = 0
            /\ visitAge >= 0 /\ visitAge + faucetTab.wait >= WaitTicks
        BY <1>1, <1>3, <2>1, <3>4 DEF TabFits
      <4>2. faucetTab'.clicked /\ ~faucetTab'.claiming
        BY <1>6, <2>1, <3>4 DEF TabFits
      <4>3. visitAge' >= 0 /\ visitAge' + (faucetTab.wait - 1) >= WaitTicks
        BY <1>4, <1>5, <3>4, <4>1, FaucetPageFacts, FaucetPageNumbers DEF NotVisited
      <4>4. ~faucetTab.can /\ ~faucetTab.unlocked
        BY <2>1, <3>4 DEF TabFits
      <4>5. CASE faucetTab'.wait = 0
        <5>1. faucetTab.wait = 1 /\ faucetTab'.can /\ faucetTab'.unlocked
          BY <1>5, <1>6, <3>4, <4>1, <4>5
        <5>2. WouldClaim'
          BY <1>4, <4>1, <4>3, <5>1, FaucetPageNumbers DEF WouldClaim, NotVisited
        <5> QED
          BY <1>6, <3>1, <3>2, <4>1, <4>5, <5>1, <5>2 DEF TabFits
      <4>6. CASE faucetTab'.wait # 0
        <5>1. ~faucetTab'.can /\ ~faucetTab'.unlocked /\ faucetTab'.wait \in {faucetTab.wait, faucetTab.wait - 1}
          BY <1>6, <4>4, <4>6
        <5>2. visitAge' + faucetTab'.wait >= WaitTicks
          BY <1>4, <1>5, <4>3, <5>1, FaucetPageNumbers DEF NotVisited
        <5> QED
          BY <1>6, <3>1, <3>2, <4>1, <4>2, <4>3, <5>1, <5>2 DEF TabFits
      <4> QED
        BY <4>5, <4>6
    <3> QED
      BY <1>5, <3>3, <3>4
  <2> QED
    BY <2>5, <2>6
<1> QED
  BY <1>7, <1>8 DEF FaucetPageInv

LEMMA TimerHolds == ASSUME FaucetPageInv, NEW c \in Calls, startPartnerTimer(c) PROVE FaucetPageInv'
<1>1. /\ ~faucetTab.loading /\ faucetTab.remaining = 0 /\ faucetTab.wait = 0 /\ ~faucetTab.unlocked /\ ~faucetTab.clicked
      /\ faucetTab' = [faucetTab EXCEPT !.clicked = TRUE]
      /\ lcall[c] = LIdle /\ LSets(c, LCall("start", 0))
      /\ lluck' = lluck \cup IF LDue({"status", "told"}) THEN {"unknown"} ELSE {}
      /\ UNCHANGED <<left, visitAge>>
  BY DEF startPartnerTimer, LSends
<1>2. LCall("start", 0) \in FCalls /\ LCall("start", 0).op = "start"
  BY FaucetCallKinds, FaucetPageNumbers
<1>3. lcall' \in [Calls -> FCalls] /\ lcall'[c].op = "start" /\ \A d \in Calls : d # c => lcall'[d] = lcall[d]
  BY <1>1, <1>2, FaucetPageFacts, FaucetCallSet
<1>4. /\ faucetTab' \in FTabs /\ faucetTab'.clicked /\ faucetTab'.remaining = 0 /\ faucetTab'.wait = 0
      /\ ~faucetTab'.loading /\ ~faucetTab'.unlocked
      /\ (faucetTab'.can <=> faucetTab.can) /\ (faucetTab'.claiming <=> faucetTab.claiming)
  BY <1>1, FaucetPageFacts DEF FTabs
<1>5. lluck' \subseteq {"unknown", "midnight"} /\ (lluck' = {} => lluck = {} /\ ~LDue({"status", "told"}))
  BY <1>1, FaucetPageFacts
<1>6. FaucetPageTypeOK'
  BY <1>1, <1>3, <1>4, <1>5, FaucetPageFacts DEF FaucetPageTypeOK, FTabs, FCalls, FOps
<1>7. ASSUME lluck' = {} PROVE TabFits' /\ \A d \in Calls : LCallFits(d)'
  <2>1. TabFits /\ \A d \in Calls : lcall[d].op = "idle" /\ lcall[d] = LIdle
    BY <1>1, <1>5, <1>7, NothingIsDue DEF FaucetPageInv
  <2>2. ~faucetTab.claiming /\ ~faucetTab.can
    BY <1>1, <2>1 DEF TabFits, LDue
  <2>3. left = 0
    BY <1>1, <2>1, FaucetPageFacts DEF TabFits, LDue
  <2>4. TabFits'
    BY <1>1, <1>4, <2>2, <2>3 DEF TabFits
  <2>5. ASSUME NEW d \in Calls PROVE LCallFits(d)'
    <3>1. CASE d = c
      BY <1>1, <1>3, <1>4, <2>1, <2>2, <2>3, <3>1 DEF LCallFits
    <3>2. CASE d # c
      BY <1>3, <2>1, <3>2 DEF LCallFits
    <3> QED
      BY <3>1, <3>2
  <2> QED
    BY <2>4, <2>5
<1> QED
  BY <1>6, <1>7 DEF FaucetPageInv

LEMMA VisitingHolds == ASSUME FaucetPageInv, NEW c \in Calls, OpensVisit(c) PROVE FaucetPageInv'
<1>1. lcall[c].op = "start" /\ visitAge' = 0 /\ LSets(c, LCall("started", 0)) /\ UNCHANGED <<left, faucetTab, lluck>>
  BY DEF OpensVisit
<1>2. LCall("started", 0) \in FCalls /\ LCall("started", 0).op = "started"
  BY FaucetCallKinds, FaucetPageNumbers
<1>3. lcall' \in [Calls -> FCalls] /\ lcall'[c].op = "started" /\ \A d \in Calls : d # c => lcall'[d] = lcall[d]
  BY <1>1, <1>2, FaucetPageFacts, FaucetCallSet
<1>4. FaucetPageTypeOK'
  BY <1>1, <1>3, FaucetPageFacts, FaucetPageNumbers DEF FaucetPageTypeOK, FTabs, FCalls, FOps
<1>5. ASSUME lluck' = {} PROVE TabFits' /\ \A d \in Calls : LCallFits(d)'
  <2>1. TabFits /\ LCallFits(c) /\ \A d \in Calls : LCallFits(d)
    BY <1>1, <1>5 DEF FaucetPageInv
  <2>2. \A d \in Calls : d # c => lcall[d].op = "idle" /\ lcall[d] = LIdle
    BY <1>1, <2>1 DEF LCallFits
  <2>3. /\ faucetTab.clicked /\ ~faucetTab.can /\ ~faucetTab.unlocked /\ ~faucetTab.claiming /\ ~faucetTab.loading
        /\ faucetTab.wait = 0 /\ faucetTab.remaining = 0 /\ left = 0
    BY <1>1, <2>1 DEF LCallFits
  <2>4. TabFits'
    BY <1>1, <2>3 DEF TabFits
  <2>5. ASSUME NEW d \in Calls PROVE LCallFits(d)'
    <3>1. CASE d = c
      BY <1>1, <1>3, <2>2, <2>3, <3>1 DEF LCallFits
    <3>2. CASE d # c
      BY <1>3, <2>2, <3>2 DEF LCallFits
    <3> QED
      BY <3>1, <3>2
  <2> QED
    BY <2>4, <2>5
<1> QED
  BY <1>4, <1>5 DEF FaucetPageInv

LEMMA StartedHolds == ASSUME FaucetPageInv, NEW c \in Calls, StartArrives(c) PROVE FaucetPageInv'
<1>1. /\ lcall[c].op = "started" /\ faucetTab' = [faucetTab EXCEPT !.wait = WaitTicks] /\ LSets(c, LIdle)
      /\ UNCHANGED <<left, visitAge, lluck>>
  BY DEF StartArrives
<1>2. lcall' \in [Calls -> FCalls] /\ lcall'[c] = LIdle /\ \A d \in Calls : d # c => lcall'[d] = lcall[d]
  BY <1>1, FaucetPageFacts, FaucetCallSet, FaucetCallKinds
<1>3. /\ faucetTab' \in FTabs /\ faucetTab'.wait = WaitTicks /\ faucetTab'.remaining = faucetTab.remaining
      /\ (faucetTab'.can <=> faucetTab.can) /\ (faucetTab'.unlocked <=> faucetTab.unlocked)
      /\ (faucetTab'.claiming <=> faucetTab.claiming) /\ (faucetTab'.clicked <=> faucetTab.clicked)
      /\ (faucetTab'.loading <=> faucetTab.loading)
  BY <1>1, FaucetPageFacts, FaucetPageNumbers DEF FTabs
<1>4. FaucetPageTypeOK'
  BY <1>1, <1>2, <1>3, FaucetPageFacts DEF FaucetPageTypeOK, FTabs, FCalls, FOps
<1>5. ASSUME lluck' = {} PROVE TabFits' /\ \A d \in Calls : LCallFits(d)'
  <2>1. TabFits /\ LCallFits(c) /\ \A d \in Calls : LCallFits(d)
    BY <1>1, <1>5 DEF FaucetPageInv
  <2>2. \A d \in Calls : lcall'[d] = LIdle /\ lcall'[d].op = "idle"
    BY <1>1, <1>2, <2>1, FaucetCallKinds DEF LCallFits
  <2>3. /\ faucetTab.clicked /\ ~faucetTab.can /\ ~faucetTab.unlocked /\ ~faucetTab.claiming /\ ~faucetTab.loading
        /\ faucetTab.remaining = 0 /\ left = 0 /\ visitAge >= 0
    BY <1>1, <2>1 DEF LCallFits
  <2>4. visitAge + WaitTicks >= WaitTicks
    BY <2>3, FaucetPageFacts, FaucetPageNumbers DEF NotVisited
  <2>5. TabFits'
    BY <1>1, <1>3, <2>2, <2>3, <2>4 DEF TabFits
  <2>6. ASSUME NEW d \in Calls PROVE LCallFits(d)'
    BY <2>2 DEF LCallFits
  <2> QED
    BY <2>5, <2>6
<1> QED
  BY <1>4, <1>5 DEF FaucetPageInv

LEMMA MidnightHolds == ASSUME FaucetPageInv, MidnightPasses PROVE FaucetPageInv'
<1>1. visitAge' = NotVisited /\ lluck' = lluck \cup {"midnight"} /\ UNCHANGED <<left, faucetTab, lcall>>
  BY DEF MidnightPasses
<1>2. FaucetPageTypeOK'
  BY <1>1, FaucetPageFacts, FaucetPageNumbers DEF FaucetPageTypeOK, FTabs, FCalls, FOps
<1> QED
  BY <1>1, <1>2 DEF FaucetPageInv

LEMMA ClaimingHolds == ASSUME FaucetPageInv, NEW c \in Calls, handleClaim(c) PROVE FaucetPageInv'
<1>1. /\ faucetTab.can /\ ~faucetTab.claiming /\ faucetTab' = [faucetTab EXCEPT !.claiming = TRUE]
      /\ lcall[c] = LIdle /\ LSets(c, LCall("claim", 0)) /\ UNCHANGED <<left, visitAge, lluck>>
  BY DEF handleClaim, LSends
<1>2. LCall("claim", 0) \in FCalls /\ LCall("claim", 0).op = "claim"
  BY FaucetCallKinds, FaucetPageNumbers
<1>3. lcall' \in [Calls -> FCalls] /\ lcall'[c].op = "claim" /\ \A d \in Calls : d # c => lcall'[d] = lcall[d]
  BY <1>1, <1>2, FaucetPageFacts, FaucetCallSet
<1>4. /\ faucetTab' \in FTabs /\ faucetTab'.claiming
      /\ faucetTab'.wait = faucetTab.wait /\ faucetTab'.remaining = faucetTab.remaining
      /\ (faucetTab'.can <=> faucetTab.can) /\ (faucetTab'.unlocked <=> faucetTab.unlocked)
      /\ (faucetTab'.clicked <=> faucetTab.clicked) /\ (faucetTab'.loading <=> faucetTab.loading)
  BY <1>1, FaucetPageFacts DEF FTabs
<1>5. FaucetPageTypeOK'
  BY <1>1, <1>3, <1>4, FaucetPageFacts DEF FaucetPageTypeOK, FTabs, FCalls, FOps
<1>6. ASSUME lluck' = {} PROVE TabFits' /\ \A d \in Calls : LCallFits(d)'
  <2>1. TabFits /\ \A d \in Calls : lcall[d].op = "idle" /\ lcall[d] = LIdle
    BY <1>1, <1>6, NothingIsDue DEF FaucetPageInv
  <2>2. WouldClaim /\ WouldClaim' /\ faucetTab.unlocked /\ faucetTab.remaining = 0 /\ faucetTab.wait = 0
    BY <1>1, <2>1 DEF TabFits, WouldClaim
  <2>3. ~faucetTab.loading /\ left' <= faucetTab'.remaining
    BY <1>1, <1>4, <2>1 DEF TabFits, TabQuiet, LDue
  <2>4. LDue({"claim", "claimed"})'
    BY <1>3 DEF LDue
  <2>5. TabFits'
    <3>1. ~faucetTab'.loading /\ faucetTab'.can /\ faucetTab'.unlocked
      BY <1>1, <1>4, <2>2, <2>3
    <3>2. faucetTab'.remaining = 0 /\ faucetTab'.wait = 0
      BY <1>4, <2>2
    <3> QED
      BY <1>4, <2>2, <2>3, <2>4, <3>1, <3>2 DEF TabFits
  <2>6. ASSUME NEW d \in Calls PROVE LCallFits(d)'
    <3>1. CASE d = c
      BY <1>1, <1>3, <1>4, <2>1, <2>2, <3>1 DEF LCallFits
    <3>2. CASE d # c
      BY <1>3, <2>1, <3>2 DEF LCallFits
    <3> QED
      BY <3>1, <3>2
  <2> QED
    BY <2>5, <2>6
<1> QED
  BY <1>5, <1>6 DEF FaucetPageInv

LEMMA RewardingHolds == ASSUME FaucetPageInv, NEW c \in Calls, claimReward(c) PROVE FaucetPageInv'
<1>1. PICK op \in {"claimed", "refused"} :
        /\ lcall[c].op = "claim" /\ LSets(c, LCall(op, 0)) /\ (op = "claimed" <=> WouldClaim)
        /\ left' = IF WouldClaim THEN CooldownTicks ELSE left
        /\ visitAge' = IF WouldClaim THEN NotVisited ELSE visitAge
        /\ UNCHANGED <<faucetTab, lluck>>
  BY DEF claimReward
<1>2. LCall(op, 0) \in FCalls /\ LCall(op, 0).op = op
  BY FaucetCallKinds, FaucetPageNumbers
<1>3. lcall' \in [Calls -> FCalls] /\ lcall'[c].op = op /\ \A d \in Calls : d # c => lcall'[d] = lcall[d]
  BY <1>1, <1>2, FaucetPageFacts, FaucetCallSet
<1>4. FaucetPageTypeOK'
  BY <1>1, <1>3, FaucetPageFacts, FaucetPageNumbers DEF FaucetPageTypeOK, FTabs, FCalls, FOps
<1>5. ASSUME lluck' = {} PROVE TabFits' /\ \A d \in Calls : LCallFits(d)'
  <2>1. TabFits /\ LCallFits(c) /\ \A d \in Calls : LCallFits(d)
    BY <1>1, <1>5 DEF FaucetPageInv
  <2>2. WouldClaim /\ op = "claimed" /\ faucetTab.claiming /\ faucetTab.can
        /\ \A d \in Calls : d # c => lcall[d].op = "idle" /\ lcall[d] = LIdle
    BY <1>1, <2>1 DEF LCallFits
  <2>3. faucetTab.unlocked /\ faucetTab.remaining = 0 /\ faucetTab.wait = 0 /\ ~faucetTab.loading
    BY <2>1, <2>2 DEF TabFits, TabQuiet
  <2>4. LDue({"claim", "claimed"})' /\ LDue({"status", "told", "claimed"})'
    BY <1>3, <2>2 DEF LDue
  <2>5. TabFits'
    BY <1>1, <2>2, <2>3, <2>4 DEF TabFits
  <2>6. ASSUME NEW d \in Calls PROVE LCallFits(d)'
    <3>1. CASE d = c
      BY <1>1, <1>3, <2>2, <3>1 DEF LCallFits
    <3>2. CASE d # c
      BY <1>3, <2>2, <3>2 DEF LCallFits
    <3> QED
      BY <3>1, <3>2
  <2> QED
    BY <2>5, <2>6
<1> QED
  BY <1>4, <1>5 DEF FaucetPageInv

LEMMA ClaimedHolds == ASSUME FaucetPageInv, NEW c \in Calls, ClaimArrives(c) PROVE FaucetPageInv'
<1>1. /\ lcall[c].op = "claimed" /\ faucetTab' = [FlagsReset(faucetTab) EXCEPT !.claiming = FALSE]
      /\ LSets(c, LCall("status", 0)) /\ UNCHANGED <<left, visitAge, lluck>>
  BY DEF ClaimArrives
<1>2. LCall("status", 0) \in FCalls /\ LCall("status", 0).op = "status"
  BY FaucetCallKinds, FaucetPageNumbers
<1>3. lcall' \in [Calls -> FCalls] /\ lcall'[c].op = "status" /\ \A d \in Calls : d # c => lcall'[d] = lcall[d]
  BY <1>1, <1>2, FaucetPageFacts, FaucetCallSet
<1>4. /\ faucetTab' \in FTabs /\ ~faucetTab'.claiming /\ ~faucetTab'.unlocked /\ ~faucetTab'.can /\ ~faucetTab'.clicked
      /\ faucetTab'.remaining = faucetTab.remaining /\ faucetTab'.wait = faucetTab.wait
      /\ (faucetTab'.loading <=> faucetTab.loading)
  <2>1. PICK tab \in FTabs : tab = FlagsReset(faucetTab)
    BY FaucetPageFacts, FaucetFlags
  <2>2. /\ ~tab.unlocked /\ ~tab.can /\ ~tab.clicked /\ tab.remaining = faucetTab.remaining /\ tab.wait = faucetTab.wait
        /\ tab.loading = faucetTab.loading
    BY <2>1, FaucetPageFacts, FaucetFlags
  <2> QED
    BY <1>1, <2>1, <2>2 DEF FTabs
<1>5. FaucetPageTypeOK'
  BY <1>1, <1>3, <1>4, FaucetPageFacts DEF FaucetPageTypeOK, FTabs, FCalls, FOps
<1>6. ASSUME lluck' = {} PROVE TabFits' /\ \A d \in Calls : LCallFits(d)'
  <2>1. TabFits /\ LCallFits(c) /\ \A d \in Calls : LCallFits(d)
    BY <1>1, <1>6 DEF FaucetPageInv
  <2>2. faucetTab.can /\ \A d \in Calls : d # c => lcall[d].op = "idle" /\ lcall[d] = LIdle
    BY <1>1, <2>1 DEF LCallFits
  <2>3. faucetTab.remaining = 0 /\ faucetTab.wait = 0
    BY <2>1, <2>2 DEF TabFits
  <2>4. TabQuiet' /\ LDue({"status", "told", "claimed"})'
    BY <1>3, <1>4, <2>3 DEF TabQuiet, LDue
  <2>5. TabFits'
    BY <1>4, <2>3, <2>4 DEF TabFits
  <2>6. ASSUME NEW d \in Calls PROVE LCallFits(d)'
    <3>1. CASE d = c
      BY <1>3, <2>2, <2>4, <3>1 DEF LCallFits
    <3>2. CASE d # c
      BY <1>3, <2>2, <3>2 DEF LCallFits
    <3> QED
      BY <3>1, <3>2
  <2> QED
    BY <2>5, <2>6
<1> QED
  BY <1>5, <1>6 DEF FaucetPageInv

LEMMA LostHolds == ASSUME FaucetPageInv, NEW c \in Calls, FaucetAnswerLost(c) \/ RefusalArrives(c) PROVE FaucetPageInv'
<1>1. /\ lcall[c].op # "idle" /\ LSets(c, LIdle) /\ UNCHANGED <<left, visitAge>>
      /\ lluck \subseteq lluck' /\ lluck' \subseteq lluck \cup {"unknown"}
      /\ lluck' = {} => lcall[c].op \notin {"status", "told", "claimed"}
  BY DEF FaucetAnswerLost, RefusalArrives
<1>2. /\ faucetTab' \in {[faucetTab EXCEPT !.loading = FALSE], [faucetTab EXCEPT !.clicked = FALSE], [faucetTab EXCEPT !.claiming = FALSE]}
      /\ lcall[c].op \in {"start", "started"} => faucetTab' = [faucetTab EXCEPT !.clicked = FALSE]
      /\ lcall[c].op = "claim" => faucetTab' = [faucetTab EXCEPT !.claiming = FALSE]
  BY DEF FaucetAnswerLost, RefusalArrives
<1>3. lcall' \in [Calls -> FCalls] /\ lcall'[c] = LIdle /\ \A d \in Calls : d # c => lcall'[d] = lcall[d]
  BY <1>1, FaucetPageFacts, FaucetCallSet, FaucetCallKinds
<1>4. faucetTab' \in FTabs
  BY <1>2, FaucetPageFacts DEF FTabs
<1>5. FaucetPageTypeOK'
  BY <1>1, <1>3, <1>4, FaucetPageFacts DEF FaucetPageTypeOK, FTabs, FCalls, FOps
<1>6. ASSUME lluck' = {} PROVE TabFits' /\ \A d \in Calls : LCallFits(d)'
  <2>1. TabFits /\ LCallFits(c) /\ \A d \in Calls : LCallFits(d)
    BY <1>1, <1>6 DEF FaucetPageInv
  <2>2. \A d \in Calls : lcall'[d] = LIdle /\ lcall'[d].op = "idle"
    BY <1>1, <1>3, <2>1, FaucetCallKinds DEF LCallFits
  <2>3. ASSUME NEW d \in Calls PROVE LCallFits(d)'
    BY <2>2 DEF LCallFits
  <2>4. CASE lcall[c].op \in {"start", "started"}
    <3>1. /\ ~faucetTab.can /\ ~faucetTab.unlocked /\ ~faucetTab.claiming /\ ~faucetTab.loading
          /\ faucetTab.wait = 0 /\ faucetTab.remaining = 0 /\ left = 0
      BY <2>1, <2>4 DEF LCallFits
    <3>2. /\ ~faucetTab'.can /\ ~faucetTab'.unlocked /\ ~faucetTab'.claiming /\ ~faucetTab'.loading
          /\ faucetTab'.wait = 0 /\ faucetTab'.remaining = 0
      BY <1>2, <2>4, <3>1, FaucetPageFacts DEF FTabs
    <3>3. left' <= 0
      BY <1>1, <3>1
    <3> QED
      BY <2>3, <3>2, <3>3 DEF TabFits
  <2>5. CASE lcall[c].op = "claim"
    <3>1. faucetTab.can /\ WouldClaim
      BY <2>1, <2>5 DEF LCallFits
    <3>2. faucetTab.unlocked /\ faucetTab.remaining = 0 /\ faucetTab.wait = 0 /\ ~faucetTab.loading
      BY <2>1, <3>1 DEF TabFits, TabQuiet
    <3>3. /\ ~faucetTab'.claiming /\ faucetTab'.can /\ faucetTab'.unlocked /\ ~faucetTab'.loading
          /\ faucetTab'.wait = 0 /\ faucetTab'.remaining = 0
      BY <1>2, <2>5, <3>1, <3>2, FaucetPageFacts DEF FTabs
    <3>4. WouldClaim' /\ left' <= 0
      BY <1>1, <3>1 DEF WouldClaim
    <3> QED
      BY <2>3, <3>3, <3>4 DEF TabFits
  <2>6. lcall[c].op \in {"start", "started", "claim"}
    BY <1>1, <1>6, <2>1, FaucetPageFacts DEF LCallFits, FOps
  <2> QED
    BY <2>4, <2>5, <2>6
<1> QED
  BY <1>5, <1>6 DEF FaucetPageInv

LEMMA ReloadHolds == ASSUME FaucetPageInv, ReloadsFaucet PROVE FaucetPageInv'
<1>1. faucetTab' = FreshTab /\ lluck' = {} /\ UNCHANGED <<left, visitAge, lcall>> /\ \A c \in Calls : lcall[c] = LIdle
  BY DEF ReloadsFaucet
<1>2. FreshTab \in FTabs /\ FreshTab.loading /\ FreshTab.wait = 0 /\ FreshTab.remaining = 0
      /\ ~FreshTab.claiming /\ ~FreshTab.can /\ ~FreshTab.unlocked /\ ~FreshTab.clicked
  BY FaucetPageNumbers DEF FreshTab, FTabs
<1>3. FaucetPageTypeOK'
  BY <1>1, <1>2, FaucetPageFacts DEF FaucetPageTypeOK, FTabs, FCalls, FOps
<1>4. \A c \in Calls : LCallFits(c)'
  BY <1>1, FaucetCallKinds DEF LCallFits
<1>5. TabQuiet'
  BY <1>1, <1>2 DEF TabQuiet
<1>6. TabFits'
  BY <1>1, <1>2, <1>5 DEF TabFits
<1> QED
  BY <1>3, <1>4, <1>6 DEF FaucetPageInv

LEMMA FaucetPageSteps == ASSUME FaucetPageInv, FaucetPageNext PROVE FaucetPageInv'
BY FetchingHolds, TellingHolds, StatusHolds, SecondHolds, TimerHolds, VisitingHolds, StartedHolds, MidnightHolds,
   ClaimingHolds, RewardingHolds, ClaimedHolds, LostHolds, ReloadHolds DEF FaucetPageNext

LEMMA FaucetPageHolds == FaucetPageInv => FaucetPageTypeOK /\ OfferIsGood /\ VisitOpensClaim
BY DEF FaucetPageInv, TabFits, OfferIsGood, VisitOpensClaim

\* The faucet's page offers a claim the server would take, and never holds a
\* visit without offering it, unless a click came before the cooldown was
\* known, an answer that tells it was lost, or the day changed.
THEOREM FaucetPageIsTrue == FaucetPageSpec => [](FaucetPageTypeOK /\ OfferIsGood /\ VisitOpensClaim)
<1>1. FaucetPageInit => FaucetPageInv
  BY FaucetPageBegins
<1>2. FaucetPageInv /\ [FaucetPageNext]_faucetPageVars => FaucetPageInv'
  <2> SUFFICES ASSUME FaucetPageInv, UNCHANGED faucetPageVars PROVE FaucetPageInv'
    BY FaucetPageSteps
  <2>1. UNCHANGED <<left, visitAge, faucetTab, lcall, lluck>>
    BY DEF faucetPageVars
  <2> QED
    BY <2>1 DEF FaucetPageInv, FaucetPageTypeOK, TabFits, TabQuiet, LCallFits, LDue, WouldClaim
<1> QED
  BY <1>1, <1>2, FaucetPageHolds, PTL DEF FaucetPageSpec

-----------------------------------------------------------------------------
(* The YouTube page in several tabs.                                        *)

TabRecords == [open : BOOLEAN, plays : BOOLEAN, leads : BOOLEAN, since : 0 .. CheckEvery,
               count : 1 .. FullCount, told : BOOLEAN, writes : BOOLEAN, claims : BOOLEAN]

\* The tab that is named counts if it plays, and renews its name in time.
NameIsKept ==
    /\ leaderKey.tab = None => leaderKey = NoKey
    /\ leaderKey.tab # None => tabs[leaderKey.tab].leads
    /\ \A t \in Tabs : leaderKey.tab = t /\ tabs[t].plays /\ ~tabs[t].writes => leaderKey.age <= tabs[t].since

\* A tab that counts beside the one named looks before the name is out of
\* date, and gives way.
GivesWay(t) ==
    \/ together <= tabs[t].since
    \/ /\ leaderKey # NoKey
       /\ together <= CheckEvery + tabs[t].since
       /\ leaderKey.age + CheckEvery - tabs[t].since <= LeaderTtl

TogetherFits ==
    /\ together <= 2 * CheckEvery
    /\ Expired => together <= CheckEvery
    /\ \A t \in Tabs :
          /\ tabs[t].writes /\ leaderKey.tab # t => together <= CheckEvery
          /\ tabs[t].plays /\ ~tabs[t].writes /\ tabs[t].leads /\ leaderKey.tab # t => GivesWay(t)
          /\ tabs[t].plays /\ ~tabs[t].writes /\ leaderKey = NoKey => together <= tabs[t].since

\* What goes by with nothing counted is the age of a name that does not
\* play, and what is left to the next look.
UnledFits ==
    /\ unled <= LeaderTtl + 1 + CheckEvery
    /\ \A t \in Tabs :
          /\ tabs[t].writes /\ ~tabs[t].plays => unled = 0
          /\ leaderKey.tab = t /\ ~tabs[t].plays /\ ~Expired => unled <= leaderKey.age
          /\ Expired /\ tabs[t].plays /\ ~tabs[t].writes => unled <= LeaderTtl + 1 + tabs[t].since

WatchTabsInv == WatchTabsTypeOK /\ unled \in Nat /\ NameIsKept /\ TogetherFits /\ UnledFits

LEMMA TabNumbers ==
    /\ CheckEvery \in Nat /\ CheckEvery >= 1 /\ LeaderTtl \in Nat /\ LeaderTtl >= 1 /\ CheckEvery < LeaderTtl
    /\ FullCount \in Nat /\ FullCount >= 1 /\ MaxToggles \in Nat
    /\ None \notin Tabs
BY WatchTabsAssumption

LEMMA KeyFields == NoKey.tab = None /\ NoKey.age = 0
BY DEF NoKey

LEMMA WatchTabsFacts ==
    ASSUME WatchTabsInv
    PROVE  /\ leaderKey \in [tab : Tabs \cup {None}, age : 0 .. LeaderTtl + 1]
           /\ leaderKey.tab \in Tabs \cup {None} /\ leaderKey.age \in 0 .. LeaderTtl + 1
           /\ leaderKey.age \in Nat /\ leaderKey.age <= LeaderTtl + 1
           /\ tabs \in [Tabs -> TabRecords]
           /\ \A t \in Tabs : tabs[t] \in TabRecords /\ tabs[t].since \in 0 .. CheckEvery /\ tabs[t].since \in Nat
           /\ together \in Nat /\ unled \in Nat /\ toggles \in 0 .. MaxToggles
           /\ NameIsKept /\ TogetherFits /\ UnledFits
<1>1. leaderKey \in [tab : Tabs \cup {None}, age : 0 .. LeaderTtl + 1] /\ tabs \in [Tabs -> TabRecords]
  BY DEF WatchTabsInv, WatchTabsTypeOK, TabRecords
<1>2. \A t \in Tabs : tabs[t] \in TabRecords /\ tabs[t].since \in 0 .. CheckEvery
  BY <1>1 DEF TabRecords
<1>3. leaderKey.tab \in Tabs \cup {None} /\ leaderKey.age \in 0 .. LeaderTtl + 1
  BY <1>1
<1>4. leaderKey.age \in Nat /\ leaderKey.age <= LeaderTtl + 1 /\ \A t \in Tabs : tabs[t].since \in Nat
  BY <1>2, <1>3, TabNumbers
<1> QED
  BY <1>1, <1>2, <1>3, <1>4 DEF WatchTabsInv, WatchTabsTypeOK

LEMMA ClosedTab ==
    /\ Closed \in TabRecords /\ Closed.leads /\ ~Closed.plays /\ ~Closed.writes /\ Closed.since = 0
    /\ [Closed EXCEPT !.open = TRUE] \in TabRecords /\ [Closed EXCEPT !.open = TRUE].leads
    /\ ~[Closed EXCEPT !.open = TRUE].plays /\ ~[Closed EXCEPT !.open = TRUE].writes
<1>1. 0 \in 0 .. CheckEvery /\ FullCount \in 1 .. FullCount
  BY TabNumbers
<1>2. Closed \in TabRecords /\ Closed.leads /\ ~Closed.plays /\ ~Closed.writes /\ Closed.since = 0
  BY <1>1 DEF Closed, TabRecords
<1> QED
  BY <1>2 DEF TabRecords

\* A look ends in a write to come, or in giving way.
LEMMA LookedSo ==
    ASSUME NEW t \in Tabs, NEW x \in TabRecords
    PROVE  /\ Looked(t, x) \in TabRecords /\ Looked(t, x).since = 0 /\ (Looked(t, x).plays <=> x.plays)
           /\ MayWrite(t) => Looked(t, x).writes /\ (Looked(t, x).leads <=> x.leads)
           /\ ~MayWrite(t) => ~Looked(t, x).leads /\ (Looked(t, x).writes <=> x.writes)
<1>1. 0 \in 0 .. CheckEvery
  BY TabNumbers
<1>2. CASE MayWrite(t)
  <2>1. Looked(t, x) = [x EXCEPT !.writes = TRUE, !.since = 0]
    BY <1>2 DEF Looked
  <2> QED
    BY <1>1, <1>2, <2>1 DEF TabRecords
<1>3. CASE ~MayWrite(t)
  <2>1. Looked(t, x) = [x EXCEPT !.leads = FALSE, !.since = 0]
    BY <1>3 DEF Looked
  <2> QED
    BY <1>1, <1>3, <2>1 DEF TabRecords
<1> QED
  BY <1>2, <1>3

LEMMA TabSet ==
    ASSUME WatchTabsInv, NEW t \in Tabs, NEW x \in TabRecords, tabs' = [tabs EXCEPT ![t] = x]
    PROVE  tabs' \in [Tabs -> TabRecords] /\ tabs'[t] = x /\ \A u \in Tabs : u # t => tabs'[u] = tabs[u]
BY WatchTabsFacts

LEMMA NewTypes ==
    ASSUME tabs' \in [Tabs -> TabRecords], leaderKey' \in [tab : Tabs \cup {None}, age : 0 .. LeaderTtl + 1],
           together' \in Nat, toggles' \in 0 .. MaxToggles
    PROVE  WatchTabsTypeOK'
BY DEF WatchTabsTypeOK, TabRecords

LEMMA WatchTabsBegin == WatchTabsInit => WatchTabsInv
<1> SUFFICES ASSUME WatchTabsInit PROVE WatchTabsInv
  OBVIOUS
<1>1. leaderKey = NoKey /\ tabs = [t \in Tabs |-> Closed] /\ together = 0 /\ unled = 0 /\ toggles = 0
  BY DEF WatchTabsInit
<1>2. tabs \in [Tabs -> TabRecords] /\ \A t \in Tabs : ~tabs[t].plays /\ ~tabs[t].writes
  BY <1>1, ClosedTab
<1>3. WatchTabsTypeOK /\ unled \in Nat
  <2>1. leaderKey \in [tab : Tabs \cup {None}, age : 0 .. LeaderTtl + 1] /\ toggles \in 0 .. MaxToggles
    BY <1>1, TabNumbers DEF NoKey
  <2> QED
    BY <1>1, <1>2, <2>1 DEF WatchTabsTypeOK, TabRecords
<1>4. NameIsKept
  BY <1>1, <1>2, KeyFields DEF NameIsKept
<1>5. TogetherFits
  BY <1>1, <1>2, TabNumbers DEF TogetherFits
<1>6. UnledFits
  <2>1. Expired
    BY <1>1 DEF Expired
  <2> QED
    BY <1>1, <1>2, <2>1, TabNumbers DEF UnledFits
<1> QED
  BY <1>3, <1>4, <1>5, <1>6 DEF WatchTabsInv

\* A toggle begins the two counts anew.
LEMMA TogglingHolds ==
    ASSUME WatchTabsInv, Toggled, tabs' \in [Tabs -> TabRecords],
           leaderKey' \in [tab : Tabs \cup {None}, age : 0 .. LeaderTtl + 1], NameIsKept'
    PROVE  WatchTabsInv'
<1>1. together' = 0 /\ unled' = 0 /\ toggles' \in 0 .. MaxToggles
  <2>1. toggles \in 0 .. MaxToggles /\ MaxToggles \in Nat
    BY WatchTabsFacts, TabNumbers
  <2> QED
    BY <2>1 DEF Toggled
<1>2. WatchTabsTypeOK'
  BY <1>1, NewTypes
<1>3. \A t \in Tabs : tabs'[t].since \in Nat
  <2>1. \A t \in Tabs : tabs'[t].since \in 0 .. CheckEvery
    BY DEF TabRecords
  <2> QED
    BY <2>1, TabNumbers
<1>4. leaderKey'.age \in Nat
  <2>1. leaderKey'.age \in 0 .. LeaderTtl + 1
    OBVIOUS
  <2> QED
    BY <2>1, TabNumbers
<1>5. TogetherFits'
  <2>1. together' <= 2 * CheckEvery /\ together' <= CheckEvery /\ \A t \in Tabs : together' <= tabs'[t].since
    BY <1>1, <1>3, TabNumbers
  <2> QED
    BY <2>1 DEF TogetherFits, GivesWay
<1>6. UnledFits'
  <2>1. unled' <= LeaderTtl + 1 + CheckEvery /\ unled' <= leaderKey'.age
        /\ \A t \in Tabs : unled' <= LeaderTtl + 1 + tabs'[t].since
    BY <1>1, <1>3, <1>4, TabNumbers
  <2> QED
    BY <1>1, <2>1 DEF UnledFits
<1> QED
  BY <1>1, <1>2, <1>5, <1>6 DEF WatchTabsInv

LEMMA NamingHolds == ASSUME WatchTabsInv, NEW t \in Tabs, tryBecomeLeader(t) PROVE WatchTabsInv'
<1>1. leaderKey.tab = t => tabs[t].leads
  BY WatchTabsFacts, TabNumbers DEF NameIsKept
<1>2. PICK x \in TabRecords : tabs' = [tabs EXCEPT ![t] = Looked(t, x)] /\ (leaderKey.tab = t => x.leads)
  <2>1. CASE ~tabs[t].open
    <3>1. tabs' = [tabs EXCEPT ![t] = Looked(t, [Closed EXCEPT !.open = TRUE])]
      BY <2>1 DEF tryBecomeLeader
    <3> QED
      BY <3>1, ClosedTab
  <2>2. CASE tabs[t].open
    <3>1. tabs[t] \in TabRecords
      BY WatchTabsFacts
    <3>2. /\ [tabs[t] EXCEPT !.plays = ~tabs[t].plays] \in TabRecords
          /\ [tabs[t] EXCEPT !.plays = ~tabs[t].plays].leads <=> tabs[t].leads
      BY <3>1 DEF TabRecords
    <3>3. tabs' = [tabs EXCEPT ![t] = Looked(t, [tabs[t] EXCEPT !.plays = ~tabs[t].plays])]
      BY <2>2 DEF tryBecomeLeader
    <3> QED
      BY <1>1, <3>2, <3>3
  <2> QED
    BY <2>1, <2>2
<1>3. /\ tabs' \in [Tabs -> TabRecords] /\ tabs'[t] = Looked(t, x) /\ \A u \in Tabs : u # t => tabs'[u] = tabs[u]
  BY <1>2, LookedSo, TabSet
<1>4. leaderKey' = leaderKey /\ Toggled
  BY DEF tryBecomeLeader
<1>5. leaderKey.tab = t => tabs'[t].leads /\ tabs'[t].writes
  BY <1>2, <1>3, LookedSo DEF MayWrite
<1>6. NameIsKept'
  BY <1>3, <1>4, <1>5, WatchTabsFacts DEF NameIsKept
<1> QED
  BY <1>3, <1>4, <1>6, WatchTabsFacts, TogglingHolds

LEMMA LookingHolds == ASSUME WatchTabsInv, NEW t \in Tabs, Looks(t) PROVE WatchTabsInv'
<1>1. /\ tabs' \in [Tabs -> TabRecords] /\ tabs'[t] = Looked(t, tabs[t]) /\ \A u \in Tabs : u # t => tabs'[u] = tabs[u]
  BY WatchTabsFacts, LookedSo, TabSet DEF Looks
<1>2. leaderKey' = leaderKey /\ together' = together /\ unled' = unled /\ toggles' = toggles /\ tabs[t].plays
  BY DEF Looks
<1>3. /\ tabs'[t].plays
      /\ MayWrite(t) => tabs'[t].writes /\ (tabs'[t].leads <=> tabs[t].leads)
      /\ ~MayWrite(t) => ~tabs'[t].leads /\ (tabs'[t].writes <=> tabs[t].writes)
  BY <1>1, <1>2, WatchTabsFacts, LookedSo
<1>4. WatchTabsTypeOK'
  BY <1>1, <1>2, WatchTabsFacts, NewTypes
<1>5. NameIsKept'
  BY <1>1, <1>2, <1>3, WatchTabsFacts DEF NameIsKept, MayWrite
<1>6. TogetherFits'
  <2>1. TogetherFits
    BY WatchTabsFacts
  <2>2. together' <= 2 * CheckEvery /\ (Expired' => together' <= CheckEvery)
    BY <1>2, <2>1 DEF TogetherFits, Expired
  <2>3. ASSUME NEW u \in Tabs
        PROVE  /\ tabs'[u].writes /\ leaderKey'.tab # u => together' <= CheckEvery
               /\ tabs'[u].plays /\ ~tabs'[u].writes /\ tabs'[u].leads /\ leaderKey'.tab # u => GivesWay(u)'
               /\ tabs'[u].plays /\ ~tabs'[u].writes /\ leaderKey' = NoKey => together' <= tabs'[u].since
    <3>1. CASE u # t
      BY <1>1, <1>2, <2>1, <3>1 DEF TogetherFits, GivesWay
    <3>2. CASE u = t /\ MayWrite(t)
      BY <1>2, <1>3, <2>1, <3>2 DEF TogetherFits, MayWrite
    <3>3. CASE u = t /\ ~MayWrite(t)
      BY <1>2, <1>3, <2>1, <3>3 DEF TogetherFits, MayWrite, Expired
    <3> QED
      BY <3>1, <3>2, <3>3
  <2> QED
    BY <2>2, <2>3 DEF TogetherFits
<1>7. UnledFits'
  <2>1. UnledFits
    BY WatchTabsFacts
  <2>2. unled' <= LeaderTtl + 1 + CheckEvery
    BY <1>2, <2>1 DEF UnledFits
  <2>3. ASSUME NEW u \in Tabs
        PROVE  /\ tabs'[u].writes /\ ~tabs'[u].plays => unled' = 0
               /\ leaderKey'.tab = u /\ ~tabs'[u].plays /\ ~Expired' => unled' <= leaderKey'.age
               /\ Expired' /\ tabs'[u].plays /\ ~tabs'[u].writes => unled' <= LeaderTtl + 1 + tabs'[u].since
    <3>1. CASE u # t
      BY <1>1, <1>2, <2>1, <3>1 DEF UnledFits, Expired
    <3>2. CASE u = t
      <4>1. Expired' => tabs'[t].writes
        BY <1>2, <1>3 DEF MayWrite, Expired
      <4> QED
        BY <1>3, <3>2, <4>1
    <3> QED
      BY <3>1, <3>2
  <2> QED
    BY <2>2, <2>3 DEF UnledFits
<1> QED
  BY <1>2, <1>4, <1>5, <1>6, <1>7, WatchTabsFacts DEF WatchTabsInv

\* What telling the other tabs leaves as it is.
LEMMA ToldSo ==
    ASSUME WatchTabsInv, NEW t \in Tabs
    PROVE  /\ Told(t) \in [Tabs -> TabRecords] /\ Told(t)[t] = tabs[t]
           /\ \A u \in Tabs : /\ Told(t)[u].since = tabs[u].since /\ (Told(t)[u].plays <=> tabs[u].plays)
                              /\ (Told(t)[u].leads <=> tabs[u].leads) /\ (Told(t)[u].writes <=> tabs[u].writes)
<1>1. \A u \in Tabs : Told(t)[u] = IF u # t /\ tabs[u].open THEN [tabs[u] EXCEPT !.told = TRUE] ELSE tabs[u]
  BY DEF Told
<1>2. ASSUME NEW x \in TabRecords
      PROVE  /\ [x EXCEPT !.told = TRUE] \in TabRecords /\ [x EXCEPT !.told = TRUE].since = x.since
             /\ [x EXCEPT !.told = TRUE].plays <=> x.plays
             /\ [x EXCEPT !.told = TRUE].leads <=> x.leads
             /\ [x EXCEPT !.told = TRUE].writes <=> x.writes
  BY DEF TabRecords
<1>3. ASSUME NEW u \in Tabs
      PROVE  /\ Told(t)[u] \in TabRecords /\ Told(t)[u].since = tabs[u].since /\ (Told(t)[u].plays <=> tabs[u].plays)
             /\ (Told(t)[u].leads <=> tabs[u].leads) /\ (Told(t)[u].writes <=> tabs[u].writes)
  <2>1. tabs[u] \in TabRecords
    BY WatchTabsFacts
  <2>2. CASE u # t /\ tabs[u].open
    <3>1. Told(t)[u] = [tabs[u] EXCEPT !.told = TRUE]
      BY <1>1, <2>2
    <3> QED
      BY <1>2, <2>1, <3>1
  <2>3. CASE ~(u # t /\ tabs[u].open)
    BY <1>1, <2>1, <2>3
  <2> QED
    BY <2>2, <2>3
<1>4. Told(t) \in [Tabs -> TabRecords]
  BY <1>3 DEF Told
<1> QED
  BY <1>1, <1>3, <1>4

LEMMA WritingHolds == ASSUME WatchTabsInv, NEW t \in Tabs, writeLeader(t) PROVE WatchTabsInv'
<1>1. /\ tabs[t].writes /\ leaderKey' = [tab |-> t, age |-> 0]
      /\ tabs' = [Told(t) EXCEPT ![t].writes = FALSE, ![t].leads = TRUE]
      /\ together' = together /\ unled' = unled /\ toggles' = toggles
  BY DEF writeLeader
<1>2. tabs[t] \in TabRecords
  BY WatchTabsFacts
<1>3. PICK x : x = [tabs[t] EXCEPT !.writes = FALSE, !.leads = TRUE]
  OBVIOUS
<1>4. x \in TabRecords /\ x.since = tabs[t].since /\ (x.plays <=> tabs[t].plays) /\ ~x.writes /\ x.leads
  BY <1>2, <1>3 DEF TabRecords
<1>5. tabs' = [Told(t) EXCEPT ![t] = x]
  BY <1>1, <1>3, ToldSo
<1>6. /\ tabs' \in [Tabs -> TabRecords] /\ tabs'[t] = x
      /\ \A u \in Tabs : u # t => /\ tabs'[u].since = tabs[u].since /\ (tabs'[u].plays <=> tabs[u].plays)
                                  /\ (tabs'[u].leads <=> tabs[u].leads) /\ (tabs'[u].writes <=> tabs[u].writes)
  BY <1>4, <1>5, ToldSo
<1>7. leaderKey'.tab = t /\ leaderKey'.age = 0 /\ t # None /\ ~Expired'
  <2>1. leaderKey'.tab = t /\ leaderKey'.age = 0 /\ t # None
    BY <1>1, TabNumbers
  <2>2. leaderKey' # NoKey
    BY <2>1, KeyFields
  <2>3. ~(leaderKey'.age > LeaderTtl)
    BY <2>1, TabNumbers
  <2> QED
    BY <2>1, <2>2, <2>3 DEF Expired
<1>8. WatchTabsTypeOK'
  <2>1. leaderKey' \in [tab : Tabs \cup {None}, age : 0 .. LeaderTtl + 1]
    BY <1>1, TabNumbers
  <2> QED
    BY <1>1, <1>6, <2>1, WatchTabsFacts, NewTypes
<1>9. NameIsKept'
  <2>1. x.since \in Nat
    BY <1>4, WatchTabsFacts
  <2>2. 0 <= x.since
    BY <2>1
  <2> QED
    BY <1>4, <1>6, <1>7, <2>2 DEF NameIsKept
<1>10. \A u \in Tabs : u # t /\ tabs[u].writes => together <= CheckEvery
  BY <1>1, WatchTabsFacts DEF TogetherFits
<1>11. ASSUME NEW u \in Tabs, u # t, tabs[u].plays, tabs[u].leads, ~tabs[u].writes
       PROVE  GivesWay(u)'
  <2>1. GivesWay(u) \/ together <= CheckEvery
    BY <1>1, <1>11, WatchTabsFacts DEF TogetherFits
  <2>2. together <= CheckEvery + tabs[u].since
    BY <2>1, WatchTabsFacts, TabNumbers DEF GivesWay
  <2>3. leaderKey' # NoKey
    BY <1>7, KeyFields
  <2>4. 0 + CheckEvery - tabs[u].since <= LeaderTtl
    BY WatchTabsFacts, TabNumbers
  <2> QED
    BY <1>1, <1>6, <1>7, <1>11, <2>2, <2>3, <2>4 DEF GivesWay
<1>12. TogetherFits'
  <2>1. together' <= 2 * CheckEvery /\ leaderKey' # NoKey
    BY <1>1, <1>7, KeyFields, WatchTabsFacts DEF TogetherFits
  <2> QED
    BY <1>1, <1>4, <1>6, <1>7, <1>10, <1>11, <2>1 DEF TogetherFits
<1>13. UnledFits'
  <2>1. UnledFits
    BY WatchTabsFacts
  <2>2. ~tabs[t].plays => unled = 0 /\ unled <= leaderKey'.age
    <3>1. ~tabs[t].plays => unled = 0
      BY <1>1, <2>1 DEF UnledFits
    <3> QED
      BY <1>7, <3>1
  <2>3. ASSUME NEW u \in Tabs
        PROVE  /\ tabs'[u].writes /\ ~tabs'[u].plays => unled' = 0
               /\ leaderKey'.tab = u /\ ~tabs'[u].plays /\ ~Expired' => unled' <= leaderKey'.age
               /\ ~Expired'
    BY <1>1, <1>4, <1>6, <1>7, <2>1, <2>2 DEF UnledFits
  <2> QED
    BY <1>1, <2>1, <2>3 DEF UnledFits
<1> QED
  BY <1>1, <1>8, <1>9, <1>12, <1>13, WatchTabsFacts DEF WatchTabsInv

LEMMA HearingChangeHolds == ASSUME WatchTabsInv, NEW t \in Tabs, onStorage(t) PROVE WatchTabsInv'
<1>1. /\ leaderKey' = leaderKey /\ together' = together /\ unled' = unled /\ toggles' = toggles
      /\ tabs' = [tabs EXCEPT ![t].told = FALSE, ![t].leads = LeadsAfter(t)]
  BY DEF onStorage
<1>2. tabs[t] \in TabRecords /\ LeadsAfter(t) \in BOOLEAN
  BY WatchTabsFacts DEF LeadsAfter
<1>3. PICK x : x = [tabs[t] EXCEPT !.told = FALSE, !.leads = LeadsAfter(t)]
  OBVIOUS
<1>4. /\ x \in TabRecords /\ x.since = tabs[t].since /\ (x.plays <=> tabs[t].plays) /\ (x.writes <=> tabs[t].writes)
      /\ (x.leads <=> LeadsAfter(t))
  BY <1>2, <1>3 DEF TabRecords
<1>5. tabs' = [tabs EXCEPT ![t] = x]
  BY <1>1, <1>3
<1>6. tabs' \in [Tabs -> TabRecords] /\ tabs'[t] = x /\ \A u \in Tabs : u # t => tabs'[u] = tabs[u]
  BY <1>4, <1>5, TabSet
<1>7. \A u \in Tabs : /\ tabs'[u].since = tabs[u].since /\ (tabs'[u].plays <=> tabs[u].plays)
                      /\ (tabs'[u].writes <=> tabs[u].writes)
  BY <1>4, <1>6
<1>8. WatchTabsTypeOK'
  BY <1>1, <1>6, WatchTabsFacts, NewTypes
<1>9. NameIsKept'
  BY <1>1, <1>4, <1>6, <1>7, WatchTabsFacts DEF NameIsKept, LeadsAfter
<1>10. TogetherFits'
  <2>1. TogetherFits
    BY WatchTabsFacts
  <2>2. ASSUME NEW u \in Tabs, tabs'[u].plays, ~tabs'[u].writes, tabs'[u].leads, leaderKey'.tab # u PROVE GivesWay(u)'
    <3>1. CASE u = t
      <4>1. leaderKey = NoKey
        BY <1>1, <1>4, <1>6, <2>2, <3>1 DEF LeadsAfter
      <4>2. together <= tabs[u].since
        BY <1>7, <2>1, <2>2, <4>1 DEF TogetherFits
      <4> QED
        BY <1>1, <1>7, <4>2 DEF GivesWay
    <3>2. CASE u # t
      BY <1>1, <1>6, <2>1, <2>2, <3>2 DEF TogetherFits, GivesWay
    <3> QED
      BY <3>1, <3>2
  <2> QED
    BY <1>1, <1>7, <2>1, <2>2 DEF TogetherFits, Expired
<1>11. UnledFits'
  BY <1>1, <1>7, WatchTabsFacts DEF UnledFits, Expired
<1> QED
  BY <1>1, <1>8, <1>9, <1>10, <1>11, WatchTabsFacts DEF WatchTabsInv

LEMMA TabClosingHolds == ASSUME WatchTabsInv, NEW t \in Tabs, ClosesTab(t) PROVE WatchTabsInv'
<1>1. /\ tabs' \in [Tabs -> TabRecords] /\ tabs'[t] = Closed
      /\ \A u \in Tabs : u # t => /\ tabs'[u].since = tabs[u].since /\ (tabs'[u].plays <=> tabs[u].plays)
                                  /\ (tabs'[u].leads <=> tabs[u].leads) /\ (tabs'[u].writes <=> tabs[u].writes)
  <2>1. PICK f \in {tabs, Told(t)} : tabs' = [f EXCEPT ![t] = Closed]
    BY DEF ClosesTab
  <2>2. CASE f = tabs
    BY <2>1, <2>2, ClosedTab, WatchTabsFacts
  <2>3. CASE f = Told(t)
    BY <2>1, <2>3, ClosedTab, ToldSo
  <2> QED
    BY <2>1, <2>2, <2>3
<1>2. leaderKey' \in {leaderKey, NoKey} /\ Toggled
  BY DEF ClosesTab
<1>3. leaderKey' \in [tab : Tabs \cup {None}, age : 0 .. LeaderTtl + 1]
  <2>1. NoKey \in [tab : Tabs \cup {None}, age : 0 .. LeaderTtl + 1]
    BY TabNumbers DEF NoKey
  <2> QED
    BY <1>2, <2>1, WatchTabsFacts
<1>4. NameIsKept'
  <2>1. CASE leaderKey' = NoKey
    BY <2>1, KeyFields, TabNumbers DEF NameIsKept
  <2>2. CASE leaderKey' = leaderKey
    <3>1. leaderKey.tab # None => tabs'[leaderKey.tab].leads
      BY <1>1, ClosedTab, WatchTabsFacts DEF NameIsKept
    <3>2. \A u \in Tabs : leaderKey.tab = u /\ tabs'[u].plays /\ ~tabs'[u].writes => leaderKey.age <= tabs'[u].since
      BY <1>1, ClosedTab, WatchTabsFacts DEF NameIsKept
    <3> QED
      BY <2>2, <3>1, <3>2, WatchTabsFacts DEF NameIsKept
  <2> QED
    BY <1>2, <2>1, <2>2
<1> QED
  BY <1>1, <1>2, <1>3, <1>4, TogglingHolds

\* A second passes for a tab: it comes nearer to its next look.
LEMMA TabAges ==
    ASSUME WatchTabsInv, TickOfTabs, NEW t \in Tabs
    PROVE  /\ tabs'[t] \in TabRecords /\ ~tabs[t].writes /\ ~tabs'[t].writes
           /\ tabs'[t].plays <=> tabs[t].plays
           /\ tabs'[t].leads <=> tabs[t].leads
           /\ tabs[t].plays => tabs[t].since < CheckEvery /\ tabs'[t].since = tabs[t].since + 1
           /\ tabs'[t].since >= tabs[t].since
<1>1. tabs[t] \in TabRecords /\ tabs[t].since \in 0 .. CheckEvery /\ tabs[t].since \in Nat /\ tabs[t].count \in 1 .. FullCount
  BY WatchTabsFacts DEF TabRecords
<1>2. ~tabs[t].writes /\ (tabs[t].plays => tabs[t].since < CheckEvery) /\ tabs'[t] = CountsDown(t)
  BY DEF TickOfTabs
<1>3. PICK since : since = IF tabs[t].plays THEN tabs[t].since + 1 ELSE tabs[t].since
  OBVIOUS
<1>4. since \in 0 .. CheckEvery /\ (tabs[t].plays => since = tabs[t].since + 1) /\ since >= tabs[t].since
  BY <1>1, <1>2, <1>3, TabNumbers
<1>5. PICK aged : aged = [tabs[t] EXCEPT !.since = since]
  OBVIOUS
<1>6. /\ aged \in TabRecords /\ aged.since = since /\ aged.count = tabs[t].count
      /\ aged.plays <=> tabs[t].plays
      /\ aged.leads <=> tabs[t].leads
      /\ aged.writes <=> tabs[t].writes
  BY <1>1, <1>4, <1>5 DEF TabRecords
<1>7. PICK count : count = IF tabs[t].count > 1 THEN tabs[t].count - 1 ELSE FullCount
  OBVIOUS
<1>8. count \in 1 .. FullCount
  BY <1>1, <1>7, TabNumbers
<1>9. PICK claims \in BOOLEAN : claims = (aged.claims \/ tabs[t].count = 1)
  OBVIOUS
<1>10. CountsDown(t) = IF Counts(t) THEN [aged EXCEPT !.count = count, !.claims = claims] ELSE aged
  BY <1>3, <1>5, <1>6, <1>7, <1>9 DEF CountsDown
<1>11. CASE Counts(t)
  <2>1. tabs'[t] = [aged EXCEPT !.count = count, !.claims = claims]
    BY <1>2, <1>10, <1>11
  <2> QED
    BY <1>2, <1>4, <1>6, <1>8, <2>1 DEF TabRecords
<1>12. CASE ~Counts(t)
  BY <1>2, <1>4, <1>6, <1>10, <1>12
<1> QED
  BY <1>11, <1>12

LEMMA TickingHolds == ASSUME WatchTabsInv, TickOfTabs PROVE WatchTabsInv'
<1>1. /\ leaderKey' = IF Expired THEN leaderKey ELSE [leaderKey EXCEPT !.age = leaderKey.age + 1]
      /\ together' = IF Cardinality({t \in Tabs : Counts(t)}) > 1 THEN together + 1 ELSE 0
      /\ unled' = IF (\E t \in Tabs : tabs[t].plays) /\ ~\E t \in Tabs : Counts(t) THEN unled + 1 ELSE 0
      /\ toggles' = toggles
  BY DEF TickOfTabs, Expired
<1>2. tabs' \in [Tabs -> TabRecords]
  <2>1. tabs' = [t \in Tabs |-> CountsDown(t)] /\ \A t \in Tabs : tabs'[t] \in TabRecords
    BY TabAges DEF TickOfTabs
  <2>2. \A t \in Tabs : CountsDown(t) \in TabRecords
    BY <2>1
  <2> QED
    BY <2>1, <2>2
<1>3. /\ leaderKey' \in [tab : Tabs \cup {None}, age : 0 .. LeaderTtl + 1] /\ leaderKey'.tab = leaderKey.tab
      /\ leaderKey' = NoKey <=> leaderKey = NoKey
      /\ leaderKey'.age \in Nat /\ leaderKey'.age <= leaderKey.age + 1
      /\ Expired => Expired' /\ leaderKey' = leaderKey
      /\ ~Expired => leaderKey # NoKey /\ leaderKey.age <= LeaderTtl /\ leaderKey'.age = leaderKey.age + 1
  <2>1. leaderKey.age \in Nat /\ leaderKey.age <= LeaderTtl + 1
    BY WatchTabsFacts
  <2>2. CASE Expired
    BY <1>1, <2>1, <2>2, WatchTabsFacts DEF Expired
  <2>3. CASE ~Expired
    <3>1. leaderKey # NoKey /\ leaderKey.age <= LeaderTtl
      BY <2>1, <2>3, TabNumbers DEF Expired
    <3>2. leaderKey' = [leaderKey EXCEPT !.age = leaderKey.age + 1]
      BY <1>1, <2>3
    <3>3. leaderKey.age + 1 \in 0 .. LeaderTtl + 1
      BY <2>1, <3>1, TabNumbers
    <3>4. leaderKey' \in [tab : Tabs \cup {None}, age : 0 .. LeaderTtl + 1] /\ leaderKey'.tab = leaderKey.tab /\ leaderKey'.age = leaderKey.age + 1
      BY <3>2, <3>3, WatchTabsFacts
    <3>5. leaderKey' # NoKey
      BY <2>1, <3>4, KeyFields
    <3> QED
      BY <2>1, <2>3, <3>1, <3>4, <3>5
  <2> QED
    BY <2>2, <2>3
<1>4. together' \in Nat /\ unled' \in Nat
  BY <1>1, WatchTabsFacts
<1>5. WatchTabsTypeOK'
  BY <1>1, <1>2, <1>3, <1>4, WatchTabsFacts, NewTypes
<1>6. /\ NameIsKept /\ TogetherFits /\ UnledFits
      /\ CheckEvery \in Nat /\ LeaderTtl \in Nat /\ together \in Nat /\ unled \in Nat /\ leaderKey.age \in Nat
      /\ \A t \in Tabs : tabs[t].since \in Nat
  BY WatchTabsFacts, TabNumbers
<1>7. NameIsKept'
  <2>1. leaderKey'.tab # None => tabs'[leaderKey'.tab].leads
    BY <1>3, <1>6, TabAges, WatchTabsFacts DEF NameIsKept
  <2>2. ASSUME NEW t \in Tabs, leaderKey'.tab = t, tabs'[t].plays PROVE leaderKey'.age <= tabs'[t].since
    <3>1. leaderKey.age <= tabs[t].since
      BY <1>3, <1>6, <2>2, TabAges DEF NameIsKept
    <3>2. tabs'[t].since = tabs[t].since + 1
      BY <2>2, TabAges
    <3> QED
      BY <1>3, <1>6, <3>1, <3>2
  <2> QED
    BY <1>3, <1>6, <2>1, <2>2 DEF NameIsKept
<1>8. TogetherFits'
  <2>1. CASE Cardinality({t \in Tabs : Counts(t)}) > 1
    <3>1. together' = together + 1
      BY <1>1, <2>1
    <3>2. PICK u \in Tabs : Counts(u) /\ u # leaderKey.tab
      <4>1. SUFFICES ASSUME \A u \in Tabs : Counts(u) => u = leaderKey.tab PROVE FALSE
        OBVIOUS
      <4>2. {t \in Tabs : Counts(t)} = {} \/ {t \in Tabs : Counts(t)} = {leaderKey.tab}
        BY <4>1
      <4>3. Cardinality({t \in Tabs : Counts(t)}) \in {0, 1}
        BY <4>2, FS_EmptySet, FS_Singleton
      <4> QED
        BY <2>1, <4>3
    <3>3. tabs[u].plays /\ tabs[u].leads /\ ~tabs[u].writes /\ tabs[u].since < CheckEvery
      BY <3>2, TabAges DEF Counts
    <3>4. GivesWay(u)
      BY <1>6, <3>2, <3>3 DEF TogetherFits
    <3>5. \/ together + 1 <= CheckEvery
          \/ leaderKey # NoKey /\ together + 1 <= 2 * CheckEvery /\ leaderKey.age + 1 <= LeaderTtl
      <4>1. CASE together <= tabs[u].since
        BY <1>6, <3>3, <4>1
      <4>2. CASE /\ leaderKey # NoKey /\ together <= CheckEvery + tabs[u].since
                 /\ leaderKey.age + CheckEvery - tabs[u].since <= LeaderTtl
        BY <1>6, <3>3, <4>2
      <4> QED
        BY <3>4, <4>1, <4>2 DEF GivesWay
    <3>6. together' <= 2 * CheckEvery /\ (Expired' => together' <= CheckEvery)
      <4>1. CASE together + 1 <= CheckEvery
        BY <1>6, <3>1, <4>1
      <4>2. CASE leaderKey # NoKey /\ together + 1 <= 2 * CheckEvery /\ leaderKey.age + 1 <= LeaderTtl
        <5>1. ~Expired
          BY <1>6, <4>2 DEF Expired
        <5>2. leaderKey' # NoKey /\ leaderKey'.age <= LeaderTtl
          BY <1>3, <4>2, <5>1
        <5>3. ~(leaderKey'.age > LeaderTtl)
          BY <1>3, <1>6, <5>2
        <5> QED
          BY <3>1, <4>2, <5>2, <5>3 DEF Expired
      <4> QED
        BY <3>5, <4>1, <4>2
    <3>7. ASSUME NEW t \in Tabs, tabs'[t].plays, tabs'[t].leads, leaderKey'.tab # t PROVE GivesWay(t)'
      <4>1. GivesWay(t) /\ tabs'[t].since = tabs[t].since + 1
        BY <1>3, <1>6, <3>7, TabAges DEF TogetherFits
      <4>2. CASE together <= tabs[t].since
        <5>1. together' <= tabs'[t].since
          BY <1>6, <3>1, <4>1, <4>2
        <5> QED
          BY <5>1 DEF GivesWay
      <4>3. CASE /\ leaderKey # NoKey /\ together <= CheckEvery + tabs[t].since
                 /\ leaderKey.age + CheckEvery - tabs[t].since <= LeaderTtl
        <5>1. leaderKey' # NoKey /\ leaderKey'.age \in Nat /\ leaderKey'.age <= leaderKey.age + 1
          BY <1>3, <4>3
        <5>2. together' <= CheckEvery + tabs'[t].since /\ leaderKey'.age + CheckEvery - tabs'[t].since <= LeaderTtl
          BY <1>6, <3>1, <4>1, <4>3, <5>1
        <5> QED
          BY <5>1, <5>2 DEF GivesWay
      <4> QED
        BY <4>1, <4>2, <4>3 DEF GivesWay
    <3>8. ASSUME NEW t \in Tabs, tabs'[t].plays, leaderKey' = NoKey PROVE together' <= tabs'[t].since
      <4>1. together <= tabs[t].since /\ tabs'[t].since = tabs[t].since + 1
        BY <1>3, <1>6, <3>8, TabAges DEF TogetherFits
      <4> QED
        BY <1>6, <3>1, <4>1
    <3> QED
      BY <3>6, <3>7, <3>8, TabAges DEF TogetherFits
  <2>2. CASE ~(Cardinality({t \in Tabs : Counts(t)}) > 1)
    <3>1. together' = 0
      BY <1>1, <2>2
    <3>2. together' <= 2 * CheckEvery /\ together' <= CheckEvery
      BY <1>6, <3>1
    <3>3. ASSUME NEW t \in Tabs PROVE together' <= tabs'[t].since
      <4>1. tabs'[t].since \in 0 .. CheckEvery
        BY <1>2 DEF TabRecords
      <4> QED
        BY <1>6, <3>1, <4>1
    <3> QED
      BY <3>2, <3>3 DEF TogetherFits, GivesWay
  <2> QED
    BY <2>1, <2>2
<1>9. UnledFits'
  <2>1. CASE (\E t \in Tabs : tabs[t].plays) /\ ~\E t \in Tabs : Counts(t)
    <3>1. unled' = unled + 1
      BY <1>1, <2>1
    <3>2. PICK p \in Tabs : tabs[p].plays
      BY <2>1
    <3>3. ~Expired => leaderKey.tab \in Tabs /\ unled <= leaderKey.age
      <4>1. SUFFICES ASSUME ~Expired PROVE leaderKey.tab \in Tabs /\ unled <= leaderKey.age
        OBVIOUS
      <4>2. leaderKey.tab \in Tabs /\ tabs[leaderKey.tab].leads
        BY <1>3, <1>6, <4>1, WatchTabsFacts DEF NameIsKept
      <4>3. ~tabs[leaderKey.tab].plays
        BY <2>1, <4>2 DEF Counts
      <4> QED
        BY <1>6, <4>1, <4>2, <4>3 DEF UnledFits
    <3>4. unled' <= LeaderTtl + 1 + CheckEvery
      <4>1. CASE Expired
        <5>1. unled <= LeaderTtl + 1 + tabs[p].since /\ tabs[p].since < CheckEvery
          BY <1>6, <3>2, <4>1, TabAges DEF UnledFits
        <5> QED
          BY <1>6, <3>1, <5>1
      <4>2. CASE ~Expired
        BY <1>3, <1>6, <3>1, <3>3, <4>2
      <4> QED
        BY <4>1, <4>2
    <3>5. ASSUME NEW t \in Tabs, leaderKey'.tab = t, ~tabs'[t].plays, ~Expired' PROVE unled' <= leaderKey'.age
      <4>1. ~Expired
        BY <1>3, <3>5
      <4> QED
        BY <1>3, <1>6, <3>1, <3>3, <4>1
    <3>6. ASSUME NEW t \in Tabs, Expired', tabs'[t].plays PROVE unled' <= LeaderTtl + 1 + tabs'[t].since
      <4>1. tabs[t].plays /\ ~tabs[t].writes /\ tabs'[t].since = tabs[t].since + 1
        BY <3>6, TabAges
      <4>2. CASE Expired
        <5>1. unled <= LeaderTtl + 1 + tabs[t].since
          BY <1>6, <4>1, <4>2 DEF UnledFits
        <5> QED
          BY <1>6, <3>1, <4>1, <5>1
      <4>3. CASE ~Expired
        BY <1>3, <1>6, <3>1, <3>3, <4>1, <4>3
      <4> QED
        BY <4>2, <4>3
    <3> QED
      BY <3>4, <3>5, <3>6, TabAges DEF UnledFits
  <2>2. CASE ~((\E t \in Tabs : tabs[t].plays) /\ ~\E t \in Tabs : Counts(t))
    <3>1. unled' = 0
      BY <1>1, <2>2
    <3>2. unled' <= LeaderTtl + 1 + CheckEvery /\ unled' <= leaderKey'.age
      BY <1>3, <1>6, <3>1
    <3>3. ASSUME NEW t \in Tabs PROVE unled' <= LeaderTtl + 1 + tabs'[t].since
      <4>1. tabs'[t].since \in 0 .. CheckEvery
        BY <1>2 DEF TabRecords
      <4> QED
        BY <1>6, <3>1, <4>1
    <3> QED
      BY <3>1, <3>2, <3>3 DEF UnledFits
  <2> QED
    BY <2>1, <2>2
<1> QED
  BY <1>4, <1>5, <1>7, <1>8, <1>9 DEF WatchTabsInv

LEMMA ClaimAnswerHolds == ASSUME WatchTabsInv, NEW t \in Tabs, ClaimIsAnswered(t) PROVE WatchTabsInv'
<1>1. leaderKey' = leaderKey /\ together' = together /\ toggles' = toggles
  BY DEF ClaimIsAnswered
<1>2. tabs[t] \in TabRecords /\ FullCount \in 1 .. FullCount
  BY WatchTabsFacts, TabNumbers
<1>3. CASE tabs' = [tabs EXCEPT ![t].claims = FALSE, ![t].count = FullCount] /\ UNCHANGED unled
  <2>1. PICK x : x = [tabs[t] EXCEPT !.claims = FALSE, !.count = FullCount]
    OBVIOUS
  <2>2. /\ x \in TabRecords /\ x.since = tabs[t].since
        /\ x.plays <=> tabs[t].plays
        /\ x.writes <=> tabs[t].writes
        /\ x.leads <=> tabs[t].leads
    BY <1>2, <2>1 DEF TabRecords
  <2>3. tabs' = [tabs EXCEPT ![t] = x]
    BY <1>3, <2>1
  <2>4. tabs' \in [Tabs -> TabRecords] /\ tabs'[t] = x /\ \A u \in Tabs : u # t => tabs'[u] = tabs[u]
    BY <2>2, <2>3, TabSet
  <2>5. \A u \in Tabs : /\ tabs'[u].since = tabs[u].since /\ (tabs'[u].plays <=> tabs[u].plays)
                        /\ (tabs'[u].writes <=> tabs[u].writes) /\ (tabs'[u].leads <=> tabs[u].leads)
    BY <2>2, <2>4
  <2>6. WatchTabsTypeOK' /\ unled' = unled
    BY <1>1, <1>3, <2>4, WatchTabsFacts, NewTypes
  <2>7. NameIsKept'
    BY <1>1, <2>5, WatchTabsFacts DEF NameIsKept
  <2>8. TogetherFits'
    BY <1>1, <2>5, WatchTabsFacts DEF TogetherFits, GivesWay, Expired
  <2>9. UnledFits'
    BY <1>1, <2>5, <2>6, WatchTabsFacts DEF UnledFits, Expired
  <2> QED
    BY <2>6, <2>7, <2>8, <2>9, WatchTabsFacts DEF WatchTabsInv
<1>4. CASE tabs' = [tabs EXCEPT ![t] = Looked(t, [tabs[t] EXCEPT !.claims = FALSE, !.plays = FALSE])] /\ unled' = 0
  <2>1. PICK x : x = [tabs[t] EXCEPT !.claims = FALSE, !.plays = FALSE]
    OBVIOUS
  <2>2. /\ x \in TabRecords /\ ~x.plays
        /\ x.writes <=> tabs[t].writes
        /\ x.leads <=> tabs[t].leads
    BY <1>2, <2>1 DEF TabRecords
  <2>3. tabs' = [tabs EXCEPT ![t] = Looked(t, x)]
    BY <1>4, <2>1
  <2>4. tabs' \in [Tabs -> TabRecords] /\ tabs'[t] = Looked(t, x) /\ \A u \in Tabs : u # t => tabs'[u] = tabs[u]
    BY <2>2, <2>3, TabSet, LookedSo
  <2>5. /\ ~tabs'[t].plays
        /\ MayWrite(t) => tabs'[t].writes /\ (tabs'[t].leads <=> tabs[t].leads)
        /\ ~MayWrite(t) => ~tabs'[t].leads /\ (tabs'[t].writes <=> tabs[t].writes)
    BY <2>2, <2>4, LookedSo
  <2>6. WatchTabsTypeOK' /\ unled' = 0
    BY <1>1, <1>4, <2>4, WatchTabsFacts, NewTypes
  <2>7. NameIsKept'
    BY <1>1, <2>4, <2>5, WatchTabsFacts DEF NameIsKept, MayWrite
  <2>8. TogetherFits'
    <3>1. TogetherFits
      BY WatchTabsFacts
    <3>2. together' <= 2 * CheckEvery /\ (Expired' => together' <= CheckEvery)
      BY <1>1, <3>1 DEF TogetherFits, Expired
    <3>3. ASSUME NEW u \in Tabs
          PROVE  /\ tabs'[u].writes /\ leaderKey'.tab # u => together' <= CheckEvery
                 /\ tabs'[u].plays /\ ~tabs'[u].writes /\ tabs'[u].leads /\ leaderKey'.tab # u => GivesWay(u)'
                 /\ tabs'[u].plays /\ ~tabs'[u].writes /\ leaderKey' = NoKey => together' <= tabs'[u].since
      <4>1. CASE u # t
        BY <1>1, <2>4, <3>1, <4>1 DEF TogetherFits, GivesWay
      <4>2. CASE u = t
        BY <1>1, <2>5, <3>1, <4>2 DEF TogetherFits, MayWrite
      <4> QED
        BY <4>1, <4>2
    <3> QED
      BY <3>2, <3>3 DEF TogetherFits
  <2>9. UnledFits'
    <3>1. 0 <= LeaderTtl + 1 + CheckEvery /\ 0 <= leaderKey.age
      BY WatchTabsFacts, TabNumbers
    <3>2. ASSUME NEW u \in Tabs PROVE 0 <= LeaderTtl + 1 + tabs'[u].since
      <4>1. tabs'[u].since \in 0 .. CheckEvery
        BY <2>4 DEF TabRecords
      <4> QED
        BY <4>1, TabNumbers
    <3> QED
      BY <1>1, <2>6, <3>1, <3>2 DEF UnledFits
  <2> QED
    BY <2>6, <2>7, <2>8, <2>9 DEF WatchTabsInv
<1> QED
  BY <1>3, <1>4 DEF ClaimIsAnswered

LEMMA WatchTabsSteps == ASSUME WatchTabsInv, WatchTabsNext PROVE WatchTabsInv'
BY TickingHolds, NamingHolds, LookingHolds, WritingHolds, HearingChangeHolds, TabClosingHolds, ClaimAnswerHolds
   DEF WatchTabsNext

LEMMA WatchTabsStay == ASSUME WatchTabsInv, UNCHANGED tabsVars PROVE WatchTabsInv'
<1>1. leaderKey' = leaderKey /\ tabs' = tabs /\ together' = together /\ unled' = unled /\ toggles' = toggles
  BY DEF tabsVars
<1>2. WatchTabsTypeOK' /\ unled' \in Nat
  BY <1>1 DEF WatchTabsInv, WatchTabsTypeOK
<1>3. NameIsKept' /\ UnledFits'
  BY <1>1 DEF WatchTabsInv, NameIsKept, UnledFits, Expired
<1>4. TogetherFits'
  BY <1>1 DEF WatchTabsInv, TogetherFits, GivesWay, Expired
<1> QED
  BY <1>2, <1>3, <1>4 DEF WatchTabsInv

\* Two tabs count side by side for no longer than two looks, and while tabs
\* play none counts for no longer than a name is in date and one look more:
\* whatever is opened, closed, paused, crashes or is told late.
THEOREM TabsGiveWay == WatchTabsSpec => [](WatchTabsTypeOK /\ OneTabCounts /\ SomeTabCounts)
<1>1. WatchTabsInit => WatchTabsInv
  BY WatchTabsBegin
<1>2. WatchTabsInv /\ [WatchTabsNext]_tabsVars => WatchTabsInv'
  BY WatchTabsSteps, WatchTabsStay
<1>3. WatchTabsInv => WatchTabsTypeOK /\ OneTabCounts /\ SomeTabCounts
  BY DEF WatchTabsInv, TogetherFits, UnledFits, OneTabCounts, SomeTabCounts
<1> QED
  BY <1>1, <1>2, <1>3, PTL DEF WatchTabsSpec

-----------------------------------------------------------------------------
(* The page of automatic GPU mining.                                        *)

GCalls == [op : {"idle", "fetch", "list", "claim", "claimed", "refused"}, gpu : 0 .. LastGpu]
GpuIsThere(g) == g = gpuNext /\ gpuWaits

\* A list is not ahead of the server, and a claim is of the GPU that waits
\* and beside nothing.
GpuCallFits(c) ==
    /\ gcalls[c].op = "list" /\ gcalls[c].gpu # NoneListed => GpuIsThere(gcalls[c].gpu)
    /\ gcalls[c].op = "claim" => GpuIsThere(gcalls[c].gpu)
    /\ gcalls[c].op \in {"claim", "claimed"} =>
          listed \notin {NoneListed, GpuLoading} /\ \A d \in Calls : d # c => gcalls[d] = GIdle
    /\ gcalls[c].op # "refused"

GpuPageFits ==
    /\ running = switched
    /\ \A c \in Calls : GpuCallFits(c)
    /\ listed \notin {NoneListed, GpuLoading} /\ ~GpuPending => GpuIsThere(listed)

GpuPageInv ==
    /\ GpuPageTypeOK
    /\ running => listed # GpuLoading
    /\ gpuWaits => gpuNext <= LastGpu
    /\ \A c \in Calls : gcalls[c].op = "idle" => gcalls[c] = GIdle
    /\ gluck = {} => GpuPageFits

LEMMA GpuPageNumbers ==
    /\ LastGpu \in Nat /\ MaxSwitches \in Nat /\ Countdown \in Nat \ {0}
    /\ NoneListed = 0 /\ GpuLoading = -1 /\ NoneListed \in 0 .. LastGpu
    /\ GpuLoading \in GpuLoading .. LastGpu /\ NoneListed \in GpuLoading .. LastGpu
    /\ \A g \in 0 .. LastGpu : g \in GpuLoading .. LastGpu /\ g # GpuLoading
    /\ \A g \in GpuLoading .. LastGpu : g # GpuLoading => g \in 0 .. LastGpu
BY GpuPageAssumption DEF NoneListed, GpuLoading

LEMMA GpuCallKinds ==
    /\ GIdle \in GCalls /\ GIdle.op = "idle" /\ GIdle.gpu = NoneListed
    /\ \A op \in {"idle", "fetch", "list", "claim", "claimed", "refused"}, g \in 0 .. LastGpu :
          GCall(op, g) \in GCalls /\ GCall(op, g).op = op /\ GCall(op, g).gpu = g
BY GpuPageNumbers DEF GIdle, GCall, GCalls

LEMMA GpuCallSet ==
    ASSUME gcalls \in [Calls -> GCalls], NEW c \in Calls, NEW q \in GCalls, GSets(c, q)
    PROVE  /\ gcalls' \in [Calls -> GCalls] /\ gcalls'[c] = q /\ \A d \in Calls : d # c => gcalls'[d] = gcalls[d]
BY DEF GSets

LEMMA GpuPageFacts ==
    ASSUME GpuPageInv
    PROVE  /\ gpuNext \in 1 .. LastGpu + 1 /\ gpuWaits \in BOOLEAN /\ listed \in GpuLoading .. LastGpu
           /\ running \in BOOLEAN /\ switched \in BOOLEAN /\ countdown \in 1 .. Countdown
           /\ gcalls \in [Calls -> GCalls] /\ gluck \subseteq {"beside", "lost", "limit"}
           /\ \A c \in Calls : gcalls[c] \in GCalls /\ gcalls[c].gpu \in 0 .. LastGpu
                               /\ (gcalls[c].op = "idle" => gcalls[c] = GIdle)
           /\ running => listed # GpuLoading
           /\ gpuWaits => gpuNext \in 0 .. LastGpu
<1>1. gpuNext \in 1 .. LastGpu + 1 /\ (gpuWaits => gpuNext <= LastGpu)
  BY DEF GpuPageInv, GpuPageTypeOK
<1>2. gpuWaits => gpuNext \in 0 .. LastGpu
  BY <1>1, GpuPageNumbers
<1> QED
  BY <1>2 DEF GpuPageInv, GpuPageTypeOK, GCalls

LEMMA GpuPageBegins == GpuPageInit => GpuPageInv
<1> SUFFICES ASSUME GpuPageInit PROVE GpuPageInv
  OBVIOUS
<1>1. /\ gpuNext = 1 /\ gpuWaits = FALSE /\ listed = GpuLoading /\ running = FALSE /\ switched = FALSE
      /\ countdown = Countdown /\ gluck = {} /\ gcalls \in [Calls -> {GIdle}]
  BY DEF GpuPageInit
<1>2. gcalls \in [Calls -> GCalls] /\ \A c \in Calls : gcalls[c] = GIdle /\ gcalls[c].op = "idle"
  BY <1>1, GpuCallKinds
<1>3. GpuPageTypeOK
  <2>1. gpuNext \in 1 .. LastGpu + 1 /\ listed \in GpuLoading .. LastGpu /\ countdown \in 1 .. Countdown
    BY <1>1, GpuPageNumbers
  <2> QED
    BY <1>1, <1>2, <2>1 DEF GpuPageTypeOK, GCalls
<1>4. GpuPageFits
  BY <1>1, <1>2, GpuCallKinds DEF GpuPageFits, GpuCallFits
<1> QED
  BY <1>1, <1>2, <1>3, <1>4 DEF GpuPageInv

\* A request that reads: the list is fetched, read or shown.
LEMMA GpuFetchHolds ==
    ASSUME GpuPageInv, NEW c \in Calls, gcalls[c] = GIdle, GSets(c, GCall("fetch", NoneListed)),
           gluck = {} => \A d \in Calls : gcalls[d].op \notin {"claim", "claimed"},
           countdown' \in 1 .. Countdown,
           UNCHANGED <<gpuNext, gpuWaits, listed, running, switched, gluck>>
    PROVE  GpuPageInv'
<1>1. gcalls' \in [Calls -> GCalls] /\ gcalls'[c].op = "fetch" /\ \A d \in Calls : d # c => gcalls'[d] = gcalls[d]
  BY GpuPageFacts, GpuCallKinds, GpuCallSet, GpuPageNumbers
<1>2. GpuPageTypeOK'
  BY <1>1, GpuPageFacts DEF GpuPageTypeOK, GCalls
<1>3. gcalls'[c] # GIdle
  BY <1>1, GpuCallKinds
<1>4. ASSUME gluck' = {} PROVE GpuPageFits'
  <2>1. GpuPageFits
    BY <1>4 DEF GpuPageInv
  <2>2. ASSUME NEW d \in Calls PROVE GpuCallFits(d)'
    BY <1>1, <1>4, <2>1 DEF GpuPageFits, GpuCallFits, GpuIsThere
  <2> QED
    BY <1>3, <2>1, <2>2 DEF GpuPageFits, GpuPending
<1>5. \A d \in Calls : gcalls'[d].op = "idle" => gcalls'[d] = GIdle
  BY <1>1, GpuPageFacts
<1> QED
  BY <1>2, <1>4, <1>5 DEF GpuPageInv

LEMMA GpuFetchesHolds == ASSUME GpuPageInv, NEW c \in Calls, GpuFetches(c) PROVE GpuPageInv'
<1>1. /\ ~GpuPending /\ GSets(c, GCall("fetch", NoneListed))
      /\ UNCHANGED <<gpuNext, gpuWaits, listed, running, countdown, switched, gluck>>
  BY DEF GpuFetches
<1>2. \A d \in Calls : gcalls[d] = GIdle /\ gcalls[d].op = "idle"
  BY <1>1, GpuCallKinds DEF GpuPending
<1>3. countdown' \in 1 .. Countdown
  BY <1>1, GpuPageFacts
<1> QED
  BY <1>1, <1>2, <1>3, GpuFetchHolds

LEMMA ListingHolds == ASSUME GpuPageInv, NEW c \in Calls, ListsGpus(c) PROVE GpuPageInv'
<1>1. PICK waits \in {gpuWaits, gpuNext <= LastGpu} :
        /\ gcalls[c].op = "fetch" /\ gpuWaits' = waits
        /\ GSets(c, GCall("list", IF waits THEN gpuNext ELSE NoneListed))
        /\ UNCHANGED <<gpuNext, listed, running, countdown, switched, gluck>>
  BY DEF ListsGpus
<1>2. /\ waits \in BOOLEAN /\ (gpuWaits => waits) /\ (waits => gpuNext <= LastGpu)
  <2>1. gpuWaits \in BOOLEAN /\ (gpuWaits => gpuNext <= LastGpu)
    BY DEF GpuPageInv, GpuPageTypeOK
  <2>2. CASE waits = gpuWaits
    BY <2>1, <2>2
  <2>3. CASE waits = (gpuNext <= LastGpu)
    BY <2>1, <2>3
  <2> QED
    BY <1>1, <2>2, <2>3
<1>3. PICK g \in 0 .. LastGpu : g = IF waits THEN gpuNext ELSE NoneListed
  <2>1. waits => gpuNext \in 0 .. LastGpu
    BY <1>2, GpuPageFacts, GpuPageNumbers
  <2> QED
    BY <2>1, GpuPageNumbers
<1>4. gcalls' \in [Calls -> GCalls] /\ gcalls'[c].op = "list" /\ gcalls'[c].gpu = g /\ \A d \in Calls : d # c => gcalls'[d] = gcalls[d]
  BY <1>1, <1>3, GpuPageFacts, GpuCallKinds, GpuCallSet, GpuPageNumbers
<1>5. GpuPageTypeOK'
  BY <1>1, <1>2, <1>4, GpuPageFacts DEF GpuPageTypeOK, GCalls
<1>6. gcalls'[c] # GIdle /\ gcalls[c] # GIdle
  BY <1>1, <1>4, GpuCallKinds
<1>7. ASSUME gluck' = {} PROVE GpuPageFits'
  <2>1. GpuPageFits
    BY <1>1, <1>7 DEF GpuPageInv
  <2>2. g # NoneListed => GpuIsThere(g)'
    BY <1>1, <1>3 DEF GpuIsThere
  <2>3. \A k : GpuIsThere(k) => GpuIsThere(k)'
    BY <1>1, <1>2 DEF GpuIsThere
  <2>4. ASSUME NEW d \in Calls PROVE GpuCallFits(d)'
    <3>1. CASE d = c
      BY <1>4, <2>2, <3>1 DEF GpuCallFits
    <3>2. CASE d # c
      <4>1. gcalls'[d] = gcalls[d] /\ GpuCallFits(d) /\ gcalls[d].op \notin {"claim", "claimed"}
        BY <1>4, <1>6, <2>1, <3>2 DEF GpuPageFits, GpuCallFits
      <4> QED
        BY <2>3, <4>1 DEF GpuCallFits
    <3> QED
      BY <3>1, <3>2
  <2> QED
    BY <1>1, <1>6, <2>1, <2>4 DEF GpuPageFits, GpuPending
<1>8. \A d \in Calls : gcalls'[d].op = "idle" => gcalls'[d] = GIdle
  BY <1>4, GpuPageFacts
<1> QED
  BY <1>1, <1>2, <1>5, <1>7, <1>8 DEF GpuPageInv

LEMMA ListArrivingHolds == ASSUME GpuPageInv, NEW c \in Calls, ListArrives(c) PROVE GpuPageInv'
<1>1. /\ gcalls[c].op = "list" /\ listed' = gcalls[c].gpu /\ GSets(c, GIdle)
      /\ UNCHANGED <<gpuNext, gpuWaits, running, countdown, switched, gluck>>
  BY DEF ListArrives
<1>2. gcalls' \in [Calls -> GCalls] /\ gcalls'[c] = GIdle /\ \A d \in Calls : d # c => gcalls'[d] = gcalls[d]
  BY <1>1, GpuPageFacts, GpuCallKinds, GpuCallSet
<1>3. listed' \in GpuLoading .. LastGpu /\ listed' # GpuLoading
  BY <1>1, GpuPageFacts, GpuPageNumbers
<1>4. GpuPageTypeOK'
  BY <1>1, <1>2, <1>3, GpuPageFacts DEF GpuPageTypeOK, GCalls
<1>5. ASSUME gluck' = {} PROVE GpuPageFits'
  <2>1. GpuPageFits /\ GpuCallFits(c) /\ gcalls[c] # GIdle
    BY <1>1, <1>5, GpuCallKinds DEF GpuPageInv, GpuPageFits
  <2>2. listed' # NoneListed => GpuIsThere(listed')
    BY <1>1, <2>1 DEF GpuCallFits
  <2>3. ASSUME NEW d \in Calls PROVE GpuCallFits(d)'
    <3>1. CASE d = c
      BY <1>2, <3>1, GpuCallKinds DEF GpuCallFits
    <3>2. CASE d # c
      <4>1. gcalls'[d] = gcalls[d] /\ GpuCallFits(d) /\ gcalls[d].op \notin {"claim", "claimed"}
        BY <1>2, <2>1, <3>2 DEF GpuPageFits, GpuCallFits
      <4> QED
        BY <1>1, <4>1 DEF GpuCallFits, GpuIsThere
    <3> QED
      BY <3>1, <3>2
  <2>4. listed' # NoneListed => GpuIsThere(listed)'
    BY <1>1, <2>2 DEF GpuIsThere
  <2> QED
    BY <1>1, <2>1, <2>3, <2>4 DEF GpuPageFits
<1>6. \A d \in Calls : gcalls'[d].op = "idle" => gcalls'[d] = GIdle
  BY <1>2, GpuPageFacts
<1> QED
  BY <1>1, <1>3, <1>4, <1>5, <1>6 DEF GpuPageInv

LEMMA ListLosingHolds == ASSUME GpuPageInv, NEW c \in Calls, ListIsLost(c) PROVE GpuPageInv'
<1>1. /\ listed' = (IF listed = GpuLoading THEN NoneListed ELSE listed) /\ gluck' = gluck \cup {"lost"} /\ GSets(c, GIdle)
      /\ UNCHANGED <<gpuNext, gpuWaits, running, countdown, switched>>
  BY DEF ListIsLost
<1>2. gcalls' \in [Calls -> GCalls] /\ gcalls'[c] = GIdle /\ \A d \in Calls : d # c => gcalls'[d] = gcalls[d]
  BY <1>1, GpuPageFacts, GpuCallKinds, GpuCallSet
<1>3. listed' \in GpuLoading .. LastGpu /\ listed' # GpuLoading
  BY <1>1, GpuPageFacts, GpuPageNumbers
<1>4. GpuPageTypeOK'
  BY <1>1, <1>2, <1>3, GpuPageFacts DEF GpuPageTypeOK, GCalls
<1>5. \A d \in Calls : gcalls'[d].op = "idle" => gcalls'[d] = GIdle
  BY <1>2, GpuPageFacts
<1>6. gluck' # {}
  BY <1>1
<1> QED
  BY <1>1, <1>3, <1>4, <1>5, <1>6 DEF GpuPageInv

LEMMA SwitchHolds == ASSUME GpuPageInv, handleToggleSystem PROVE GpuPageInv'
<1>1. /\ listed # GpuLoading /\ running' = ~running /\ switched' = ~running
      /\ UNCHANGED <<gpuNext, gpuWaits, listed, countdown, gcalls, gluck>>
  BY DEF handleToggleSystem
<1>2. GpuPageTypeOK'
  BY <1>1 DEF GpuPageInv, GpuPageTypeOK
<1>3. gluck' = {} => GpuPageFits'
  BY <1>1 DEF GpuPageInv, GpuPageFits, GpuCallFits, GpuPending, GpuIsThere
<1> QED
  BY <1>1, <1>2, <1>3 DEF GpuPageInv

LEMMA CountdownHolds == ASSUME GpuPageInv, CountdownTicks PROVE GpuPageInv'
<1>1. /\ countdown > 1 /\ countdown' = countdown - 1
      /\ UNCHANGED <<gpuNext, gpuWaits, listed, running, gcalls, switched, gluck>>
  BY DEF CountdownTicks
<1>2. countdown' \in 1 .. Countdown
  BY <1>1, GpuPageFacts, GpuPageNumbers
<1>3. GpuPageTypeOK'
  BY <1>1, <1>2 DEF GpuPageInv, GpuPageTypeOK
<1>4. gluck' = {} => GpuPageFits'
  BY <1>1 DEF GpuPageInv, GpuPageFits, GpuCallFits, GpuPending, GpuIsThere
<1> QED
  BY <1>1, <1>3, <1>4 DEF GpuPageInv

LEMMA GpuClaimHolds ==
    ASSUME GpuPageInv, NEW c \in Calls, listed \notin {NoneListed, GpuLoading}, Claims(c, listed), countdown' \in 1 .. Countdown,
           UNCHANGED <<gpuNext, gpuWaits, listed, running, switched>>
    PROVE  GpuPageInv'
<1>1. gcalls[c] = GIdle /\ GSets(c, GCall("claim", listed)) /\ gluck' = gluck \cup IF GpuPending THEN {"beside"} ELSE {}
  BY DEF Claims
<1>2. listed \in 0 .. LastGpu
  BY GpuPageFacts, GpuPageNumbers
<1>3. gcalls' \in [Calls -> GCalls] /\ gcalls'[c].op = "claim" /\ gcalls'[c].gpu = listed /\ \A d \in Calls : d # c => gcalls'[d] = gcalls[d]
  BY <1>1, <1>2, GpuPageFacts, GpuCallKinds, GpuCallSet
<1>4. gluck' \subseteq {"beside", "lost", "limit"} /\ (gluck' = {} => gluck = {} /\ ~GpuPending)
  BY <1>1, GpuPageFacts
<1>5. GpuPageTypeOK'
  BY <1>3, <1>4, GpuPageFacts DEF GpuPageTypeOK, GCalls
<1>6. ASSUME gluck' = {} PROVE GpuPageFits'
  <2>1. GpuPageFits /\ ~GpuPending
    BY <1>4, <1>6 DEF GpuPageInv
  <2>2. GpuIsThere(listed) /\ \A d \in Calls : gcalls[d] = GIdle /\ gcalls[d].op = "idle"
    BY <2>1, GpuCallKinds DEF GpuPageFits, GpuPending
  <2>3. GpuIsThere(listed)'
    BY <2>2 DEF GpuIsThere
  <2>4. ASSUME NEW d \in Calls PROVE GpuCallFits(d)'
    <3>1. CASE d = c
      BY <1>3, <2>2, <3>1 DEF GpuCallFits, GpuIsThere
    <3>2. CASE d # c
      BY <1>3, <2>2, <3>2 DEF GpuCallFits
    <3> QED
      BY <3>1, <3>2
  <2> QED
    BY <2>1, <2>3, <2>4 DEF GpuPageFits
<1>7. \A d \in Calls : gcalls'[d].op = "idle" => gcalls'[d] = GIdle
  BY <1>3, GpuPageFacts
<1> QED
  BY <1>5, <1>6, <1>7 DEF GpuPageInv

LEMMA ByHandHolds == ASSUME GpuPageInv, NEW c \in Calls, ClaimsByHand(c) PROVE GpuPageInv'
<1>1. /\ listed \in Nat \ {NoneListed} /\ Claims(c, listed)
      /\ UNCHANGED <<gpuNext, gpuWaits, listed, running, countdown, switched>>
  BY DEF ClaimsByHand
<1>2. listed \notin {NoneListed, GpuLoading} /\ countdown' \in 1 .. Countdown
  BY <1>1, GpuPageFacts, GpuPageNumbers
<1> QED
  BY <1>1, <1>2, GpuClaimHolds

LEMMA AutoClaimHolds == ASSUME GpuPageInv, NEW c \in Calls, processAutoClaim(c) PROVE GpuPageInv'
<1>1. /\ running /\ countdown' = Countdown /\ UNCHANGED <<gpuNext, gpuWaits, listed, running, switched>>
      /\ listed # NoneListed => Claims(c, listed)
      /\ listed = NoneListed => gcalls[c] = GIdle /\ GSets(c, GCall("fetch", NoneListed)) /\ UNCHANGED gluck
  BY DEF processAutoClaim
<1>2. countdown' \in 1 .. Countdown /\ listed # GpuLoading
  BY <1>1, GpuPageFacts, GpuPageNumbers
<1>3. CASE listed # NoneListed
  BY <1>1, <1>2, <1>3, GpuClaimHolds
<1>4. CASE listed = NoneListed
  <2>1. gluck = {} => \A d \in Calls : gcalls[d].op \notin {"claim", "claimed"}
    BY <1>4 DEF GpuPageInv, GpuPageFits, GpuCallFits
  <2> QED
    BY <1>1, <1>2, <1>4, <2>1, GpuFetchHolds
<1> QED
  BY <1>3, <1>4

LEMMA GivingHolds == ASSUME GpuPageInv, NEW c \in Calls, GivesGpu(c) PROVE GpuPageInv'
<1>1. gcalls[c].op = "claim" /\ UNCHANGED <<listed, running, countdown, switched>>
  BY DEF GivesGpu
<1> DEFINE g == gcalls[c].gpu
<1>2. CASE /\ gpuWaits /\ g = gpuNext
           /\ GSets(c, GCall("claimed", g)) /\ gpuNext' = gpuNext + 1 /\ gpuWaits' = FALSE
           /\ UNCHANGED gluck
  <2>1. gcalls' \in [Calls -> GCalls] /\ gcalls'[c].op = "claimed" /\ \A d \in Calls : d # c => gcalls'[d] = gcalls[d]
    BY <1>2, GpuPageFacts, GpuCallKinds, GpuCallSet
  <2>2. gpuNext' \in 1 .. LastGpu + 1
    BY <1>2, GpuPageFacts, GpuPageNumbers
  <2>3. GpuPageTypeOK'
    BY <1>1, <1>2, <2>1, <2>2, GpuPageFacts DEF GpuPageTypeOK, GCalls
  <2>4. ASSUME gluck' = {} PROVE GpuPageFits'
    <3>1. GpuPageFits /\ GpuCallFits(c)
      BY <1>2, <2>4 DEF GpuPageInv, GpuPageFits
    <3>2. listed \notin {NoneListed, GpuLoading} /\ \A d \in Calls : d # c => gcalls[d] = GIdle /\ gcalls[d].op = "idle"
      BY <1>1, <3>1, GpuCallKinds DEF GpuCallFits
    <3>3. ASSUME NEW d \in Calls PROVE GpuCallFits(d)'
      <4>1. CASE d = c
        BY <1>1, <2>1, <3>2, <4>1 DEF GpuCallFits
      <4>2. CASE d # c
        BY <2>1, <3>2, <4>2 DEF GpuCallFits
      <4> QED
        BY <4>1, <4>2
    <3>4. gcalls'[c] # GIdle
      BY <2>1, GpuCallKinds
    <3> QED
      BY <1>1, <3>1, <3>3, <3>4 DEF GpuPageFits, GpuPending
  <2>5. \A d \in Calls : gcalls'[d].op = "idle" => gcalls'[d] = GIdle
    BY <2>1, GpuPageFacts
  <2> QED
    BY <1>1, <1>2, <2>3, <2>4, <2>5 DEF GpuPageInv
<1>3. CASE /\ GSets(c, GCall("refused", g)) /\ UNCHANGED <<gpuNext, gpuWaits>>
           /\ gluck' = gluck \cup IF gpuWaits /\ g = gpuNext THEN {"limit"} ELSE {}
  <2>1. gcalls' \in [Calls -> GCalls] /\ gcalls'[c].op = "refused" /\ \A d \in Calls : d # c => gcalls'[d] = gcalls[d]
    BY <1>3, GpuPageFacts, GpuCallKinds, GpuCallSet
  <2>2. gluck' \subseteq {"beside", "lost", "limit"}
    BY <1>3, GpuPageFacts
  <2>3. GpuPageTypeOK'
    BY <1>1, <1>3, <2>1, <2>2, GpuPageFacts DEF GpuPageTypeOK, GCalls
  <2>4. gluck' # {}
    BY <1>1, <1>3 DEF GpuPageInv, GpuPageFits, GpuCallFits, GpuIsThere
  <2>5. \A d \in Calls : gcalls'[d].op = "idle" => gcalls'[d] = GIdle
    BY <2>1, GpuPageFacts
  <2> QED
    BY <1>1, <1>3, <2>3, <2>4, <2>5 DEF GpuPageInv
<1> QED
  BY <1>2, <1>3 DEF GivesGpu

LEMMA SucceedingHolds == ASSUME GpuPageInv, NEW c \in Calls, ClaimSucceeds(c) PROVE GpuPageInv'
<1>1. /\ gcalls[c].op = "claimed" /\ countdown' \in {countdown, Countdown} /\ GSets(c, GCall("fetch", NoneListed))
      /\ UNCHANGED <<gpuNext, gpuWaits, listed, running, switched, gluck>>
  BY DEF ClaimSucceeds, FetchesNext
<1>2. gcalls' \in [Calls -> GCalls] /\ gcalls'[c].op = "fetch" /\ \A d \in Calls : d # c => gcalls'[d] = gcalls[d]
  BY <1>1, GpuPageFacts, GpuCallKinds, GpuCallSet, GpuPageNumbers
<1>3. countdown' \in 1 .. Countdown
  BY <1>1, GpuPageFacts, GpuPageNumbers
<1>4. GpuPageTypeOK'
  BY <1>1, <1>2, <1>3, GpuPageFacts DEF GpuPageTypeOK, GCalls
<1>5. ASSUME gluck' = {} PROVE GpuPageFits'
  <2>1. GpuPageFits /\ \A d \in Calls : d # c => gcalls[d] = GIdle /\ gcalls[d].op = "idle"
    BY <1>1, <1>5, GpuCallKinds DEF GpuPageInv, GpuPageFits, GpuCallFits
  <2>2. ASSUME NEW d \in Calls PROVE GpuCallFits(d)'
    <3>1. CASE d = c
      BY <1>2, <3>1 DEF GpuCallFits
    <3>2. CASE d # c
      BY <1>2, <2>1, <3>2 DEF GpuCallFits
    <3> QED
      BY <3>1, <3>2
  <2>3. gcalls'[c] # GIdle
    BY <1>2, GpuCallKinds
  <2> QED
    BY <1>1, <2>1, <2>2, <2>3 DEF GpuPageFits, GpuPending
<1>6. \A d \in Calls : gcalls'[d].op = "idle" => gcalls'[d] = GIdle
  BY <1>2, GpuPageFacts
<1> QED
  BY <1>1, <1>4, <1>5, <1>6 DEF GpuPageInv

LEMMA GpuRefusalHolds == ASSUME GpuPageInv, NEW c \in Calls, ClaimRefused(c) PROVE GpuPageInv'
<1>1. /\ gcalls[c].op = "refused" /\ running' = FALSE /\ GSets(c, GIdle)
      /\ UNCHANGED <<gpuNext, gpuWaits, listed, countdown, switched, gluck>>
  BY DEF ClaimRefused
<1>2. gcalls' \in [Calls -> GCalls] /\ gcalls'[c] = GIdle /\ \A d \in Calls : d # c => gcalls'[d] = gcalls[d]
  BY <1>1, GpuPageFacts, GpuCallKinds, GpuCallSet
<1>3. GpuPageTypeOK'
  BY <1>1, <1>2, GpuPageFacts DEF GpuPageTypeOK, GCalls
<1>4. gluck' # {}
  BY <1>1 DEF GpuPageInv, GpuPageFits, GpuCallFits
<1>5. \A d \in Calls : gcalls'[d].op = "idle" => gcalls'[d] = GIdle
  BY <1>2, GpuPageFacts
<1> QED
  BY <1>1, <1>3, <1>4, <1>5 DEF GpuPageInv

LEMMA GpuPageStays == ASSUME GpuPageInv, UNCHANGED gpuPageVars PROVE GpuPageInv'
<1>1. UNCHANGED <<gpuNext, gpuWaits, listed, running, countdown, gcalls, switched, gluck>>
  BY DEF gpuPageVars
<1> QED
  BY <1>1 DEF GpuPageInv, GpuPageTypeOK, GpuPageFits, GpuCallFits, GpuPending, GpuIsThere

LEMMA GpuPageSteps == ASSUME GpuPageInv, GpuPageNext PROVE GpuPageInv'
BY GpuPageStays, SwitchHolds, CountdownHolds, GpuFetchesHolds, ListingHolds, ListArrivingHolds, ListLosingHolds,
   ByHandHolds, AutoClaimHolds, GivingHolds, SucceedingHolds, GpuRefusalHolds DEF GpuPageNext, SendsHeartbeat

LEMMA GpuPageHolds == GpuPageInv => GpuPageTypeOK /\ RunsAsSwitched
BY DEF GpuPageInv, GpuPageFits, RunsAsSwitched

\* The system of automatic GPU mining runs as the user switched it, unless a
\* claim was sent beside another request, a list was lost, or the server had
\* a limit to refuse by.
THEOREM GpusRunAsSwitched == GpuPageSpec => [](GpuPageTypeOK /\ RunsAsSwitched)
<1>1. GpuPageInit => GpuPageInv
  BY GpuPageBegins
<1>2. GpuPageInv /\ [GpuPageNext]_gpuPageVars => GpuPageInv'
  BY GpuPageSteps, GpuPageStays
<1> QED
  BY <1>1, <1>2, GpuPageHolds, PTL DEF GpuPageSpec

-----------------------------------------------------------------------------
(* The games' tab and its socket.                                           *)

Views == [active : TabGames \cup {None}, board : TabGames \cup {None}, over : BOOLEAN, cool : SUBSET TabGames]
ToServer == {Msg("end", None)} \cup {Msg("start", g) : g \in TabGames}
ToPage == {Msg(kind, g) : kind \in {"started", "finished", "cooldown"}, g \in TabGames}
PlacesOf(kind, queue) == {i \in 1 .. Len(queue) : queue[i].kind = kind}

GameTabFlows ==
    /\ view \in Views /\ toServer \in Seq(ToServer) /\ toPage \in Seq(ToPage)
    /\ live \in TabGames \cup {None} /\ cooling \subseteq TabGames /\ winsDue \subseteq TabGames
    /\ startsDue \in Seq(TabGames)
    /\ starts \in 0 .. MaxStarts /\ tabLuck \subseteq {"crossed", "late", "offline", "failed"}

\* One start is due: on its way to the server, to the database, or back.
OneStart ==
    /\ \A i, j \in PlacesOf("start", toServer) : i = j
    /\ \A i, j \in PlacesOf("started", toPage) : i = j
    /\ Len(startsDue) <= 1
    /\ PlacesOf("start", toServer) # {} => startsDue = <<>> /\ PlacesOf("started", toPage) = {}
    /\ startsDue # <<>> => PlacesOf("started", toPage) = {}

\* The start that is due is of the game chosen, unless the page was left, and
\* what was sent before it ends the game that was.
StartIsOf(g) == view.active \in {None, g} /\ winsDue = {} /\ (view.board = None \/ view.over)
StartFits ==
    /\ \A i \in PlacesOf("start", toServer) :
          /\ StartIsOf(toServer[i].game)
          /\ view.active # None => \A j \in PlacesOf("end", toServer) : j < i
          /\ view.active # None /\ view.over /\ live # None => \E j \in PlacesOf("end", toServer) : j < i
    /\ startsDue # <<>> => StartIsOf(startsDue[1]) /\ (view.active # None => PlacesOf("end", toServer) = {})
    /\ \A i \in PlacesOf("started", toPage) :
          /\ StartIsOf(toPage[i].game)
          /\ view.active # None => PlacesOf("end", toServer) = {} /\ live = toPage[i].game

\* Of a game that is live no end is told that the page will not hear before
\* its start.
LiveFits ==
    live # None => /\ winsDue = {}
                   /\ \A i \in PlacesOf("finished", toPage) : \E j \in PlacesOf("started", toPage) : i < j

BoardFits ==
    view.active # None /\ view.board # None /\ ~view.over =>
        /\ view.board = view.active /\ PlacesOf("end", toServer) = {}
        /\ live = view.board \/ winsDue # {} \/ PlacesOf("finished", toPage) # {}

ReportFits ==
    /\ view.active # None /\ view.over
    /\ startsDue = <<>> /\ PlacesOf("start", toServer) = {} /\ PlacesOf("started", toPage) = {}
    => live = None \/ PlacesOf("end", toServer) # {}

GameTabInv == GameTabFlows /\ (tabLuck = {} => OneStart /\ StartFits /\ LiveFits /\ BoardFits /\ ReportFits)

LEMMA QueueGrows ==
    ASSUME NEW S, NEW q \in Seq(S), NEW m \in S
    PROVE  /\ Append(q, m) \in Seq(S) /\ Len(q) \in Nat
           /\ \A i \in 1 .. Len(q) : Append(q, m)[i] = q[i]
           /\ Append(q, m)[Len(q) + 1] = m
           /\ \A k : PlacesOf(k, Append(q, m)) = IF m.kind = k THEN PlacesOf(k, q) \cup {Len(q) + 1} ELSE PlacesOf(k, q)
           /\ \A k : \A i \in PlacesOf(k, q) : i \in 1 .. Len(q) /\ i < Len(q) + 1 /\ i \in Nat
<1>1. /\ Append(q, m) \in Seq(S) /\ Len(q) \in Nat /\ Len(Append(q, m)) = Len(q) + 1
      /\ \A i \in 1 .. Len(q) : Append(q, m)[i] = q[i]
      /\ Append(q, m)[Len(q) + 1] = m
  BY AppendProperties, LenProperties
<1>2. ASSUME NEW k, NEW i PROVE i \in PlacesOf(k, Append(q, m)) <=> i \in PlacesOf(k, q) \/ (m.kind = k /\ i = Len(q) + 1)
  <2>1. i \in 1 .. Len(q) + 1 <=> i \in 1 .. Len(q) \/ i = Len(q) + 1
    BY <1>1
  <2> QED
    BY <1>1, <2>1 DEF PlacesOf
<1>3. \A k : \A i \in PlacesOf(k, q) : i \in 1 .. Len(q) /\ i < Len(q) + 1 /\ i \in Nat
  BY <1>1 DEF PlacesOf
<1>4. ASSUME NEW k PROVE PlacesOf(k, Append(q, m)) = IF m.kind = k THEN PlacesOf(k, q) \cup {Len(q) + 1} ELSE PlacesOf(k, q)
  <2>1. CASE m.kind = k
    <3>1. \A i : i \in PlacesOf(k, Append(q, m)) <=> i \in PlacesOf(k, q) \cup {Len(q) + 1}
      BY <1>2, <2>1
    <3> QED
      BY <2>1, <3>1
  <2>2. CASE m.kind # k
    <3>1. \A i : i \in PlacesOf(k, Append(q, m)) <=> i \in PlacesOf(k, q)
      BY <1>2, <2>2
    <3> QED
      BY <2>2, <3>1
  <2> QED
    BY <2>1, <2>2
<1> QED
  BY <1>1, <1>3, <1>4

LEMMA QueueShrinks ==
    ASSUME NEW S, NEW q \in Seq(S), q # <<>>
    PROVE  /\ Tail(q) \in Seq(S) /\ Head(q) \in S /\ Head(q) = q[1]
           /\ \A i \in Nat : i # 0 /\ i + 1 <= Len(q) => Tail(q)[i] = q[i + 1]
           /\ \A k : \A i \in PlacesOf(k, Tail(q)) : i \in Nat /\ i + 1 \in PlacesOf(k, q) /\ Tail(q)[i] = q[i + 1]
           /\ \A k : \A i \in PlacesOf(k, q) : i \in Nat /\ i >= 1 /\ (i # 1 => i - 1 \in PlacesOf(k, Tail(q)) /\ Tail(q)[i - 1] = q[i])
           /\ \A k : 1 \in PlacesOf(k, q) <=> Head(q).kind = k
<1>1. /\ Tail(q) \in Seq(S) /\ Head(q) \in S /\ Head(q) = q[1] /\ Len(q) \in Nat /\ Len(q) >= 1
      /\ Len(Tail(q)) = Len(q) - 1 /\ \A i \in 1 .. Len(q) - 1 : Tail(q)[i] = q[i + 1]
  <2>1. Len(q) \in Nat /\ Len(q) # 0
    BY EmptySeq, LenProperties
  <2>2. Tail(q) \in Seq(S) /\ Head(q) \in S /\ Len(Tail(q)) = Len(q) - 1 /\ \A i \in 1 .. Len(Tail(q)) : Tail(q)[i] = q[i + 1]
    BY HeadTailProperties
  <2>3. Head(q) = q[1]
    BY <2>1
  <2> QED
    BY <2>1, <2>2, <2>3
<1>2. \A i \in Nat : i # 0 /\ i + 1 <= Len(q) => Tail(q)[i] = q[i + 1]
  BY <1>1
<1>3. ASSUME NEW k, NEW i \in PlacesOf(k, Tail(q)) PROVE i \in Nat /\ i + 1 \in PlacesOf(k, q) /\ Tail(q)[i] = q[i + 1]
  <2>1. i \in 1 .. Len(q) - 1 /\ Tail(q)[i].kind = k
    BY <1>1, <1>3 DEF PlacesOf
  <2>2. i \in Nat /\ i + 1 \in 1 .. Len(q) /\ Tail(q)[i] = q[i + 1]
    BY <1>1, <2>1
  <2> QED
    BY <2>1, <2>2 DEF PlacesOf
<1>4. ASSUME NEW k, NEW i \in PlacesOf(k, q)
      PROVE  i \in Nat /\ i >= 1 /\ (i # 1 => i - 1 \in PlacesOf(k, Tail(q)) /\ Tail(q)[i - 1] = q[i])
  <2>1. i \in 1 .. Len(q) /\ q[i].kind = k
    BY <1>4 DEF PlacesOf
  <2>2. i \in Nat /\ i >= 1
    BY <1>1, <2>1
  <2>3. ASSUME i # 1 PROVE i - 1 \in PlacesOf(k, Tail(q)) /\ Tail(q)[i - 1] = q[i]
    <3>1. i - 1 \in 1 .. Len(q) - 1 /\ (i - 1) + 1 = i
      BY <1>1, <2>1, <2>3
    <3>2. Tail(q)[i - 1] = q[i]
      BY <1>1, <3>1
    <3> QED
      BY <1>1, <2>1, <3>1, <3>2 DEF PlacesOf
  <2> QED
    BY <2>2, <2>3
<1>5. ASSUME NEW k PROVE 1 \in PlacesOf(k, q) <=> Head(q).kind = k
  <2>1. 1 \in 1 .. Len(q)
    BY <1>1
  <2> QED
    BY <1>1, <2>1 DEF PlacesOf
<1> QED
  BY <1>1, <1>2, <1>3, <1>4, <1>5

LEMMA NothingQueued == \A k : PlacesOf(k, <<>>) = {}
BY DEF PlacesOf

LEMMA MsgKinds ==
    /\ \A k, g : Msg(k, g).kind = k /\ Msg(k, g).game = g
    /\ \A m \in ToServer : m.kind \in {"start", "end"} /\ (m.kind = "start" => m.game \in TabGames)
    /\ \A m \in ToPage : m.kind \in {"started", "finished", "cooldown"} /\ m.game \in TabGames
    /\ Msg("end", None) \in ToServer /\ \A g \in TabGames : Msg("start", g) \in ToServer
    /\ \A g \in TabGames : Msg("started", g) \in ToPage /\ Msg("finished", g) \in ToPage /\ Msg("cooldown", g) \in ToPage
<1>1. \A k, g : Msg(k, g).kind = k /\ Msg(k, g).game = g
  BY DEF Msg
<1>2. \A m \in ToServer : m.kind \in {"start", "end"} /\ (m.kind = "start" => m.game \in TabGames)
  BY DEF ToServer, Msg
<1>3. \A m \in ToPage : m.kind \in {"started", "finished", "cooldown"} /\ m.game \in TabGames
  <2> SUFFICES ASSUME NEW kind \in {"started", "finished", "cooldown"}, NEW g \in TabGames
               PROVE  Msg(kind, g).kind \in {"started", "finished", "cooldown"} /\ Msg(kind, g).game \in TabGames
    BY DEF ToPage
  <2> QED
    BY <1>1
<1>4. Msg("end", None) \in ToServer /\ \A g \in TabGames : Msg("start", g) \in ToServer
  BY DEF ToServer
<1>5. \A g \in TabGames : Msg("started", g) \in ToPage /\ Msg("finished", g) \in ToPage /\ Msg("cooldown", g) \in ToPage
  BY DEF ToPage
<1> QED
  BY <1>1, <1>2, <1>3, <1>4, <1>5

LEMMA GameTabTypes == GameTabFlows => GameTabTypeOK
<1> SUFFICES ASSUME GameTabFlows PROVE GameTabTypeOK
  OBVIOUS
<1>1. \A i \in 1 .. Len(toServer) : toServer[i] \in [kind : {"start", "end"}, game : TabGames \cup {None}]
  <2>1. \A i \in 1 .. Len(toServer) : toServer[i] \in ToServer
    BY ElementOfSeq DEF GameTabFlows
  <2> QED
    BY <2>1 DEF ToServer, Msg
<1>2. \A i \in 1 .. Len(toPage) : toPage[i] \in [kind : {"started", "finished", "cooldown"}, game : TabGames]
  <2>1. \A i \in 1 .. Len(toPage) : toPage[i] \in ToPage
    BY ElementOfSeq DEF GameTabFlows
  <2> QED
    BY <2>1 DEF ToPage, Msg
<1> QED
  BY <1>1, <1>2 DEF GameTabFlows, GameTabTypeOK, Views

LEMMA StartsAreDue ==
    StartIsDue <=> startsDue # <<>> \/ PlacesOf("start", toServer) # {} \/ PlacesOf("started", toPage) # {}
BY DEF StartIsDue, Pending, PlacesOf

LEMMA GameTabBegins == GameTabInit => GameTabInv
<1> SUFFICES ASSUME GameTabInit PROVE GameTabInv
  OBVIOUS
<1>1. /\ view = [active |-> None, board |-> None, over |-> FALSE, cool |-> {}]
      /\ toServer = <<>> /\ toPage = <<>> /\ live = None /\ cooling = {} /\ startsDue = <<>> /\ winsDue = {}
      /\ starts = 0 /\ tabLuck = {}
  BY DEF GameTabInit
<1>2. GameTabFlows
  <2>1. view \in Views
    BY <1>1 DEF Views
  <2>2. starts \in 0 .. MaxStarts
    BY <1>1, GameTabAssumption
  <2> QED
    BY <1>1, <2>1, <2>2, EmptySeq DEF GameTabFlows
<1>3. \A k : PlacesOf(k, toServer) = {} /\ PlacesOf(k, toPage) = {}
  BY <1>1, NothingQueued
<1>4. view.active = None /\ Len(startsDue) <= 1
  BY <1>1, EmptySeq
<1> QED
  BY <1>1, <1>2, <1>3, <1>4 DEF GameTabInv, OneStart, StartFits, LiveFits, BoardFits, ReportFits

LEMMA GameTabFacts ==
    ASSUME GameTabInv
    PROVE  /\ view \in Views /\ toServer \in Seq(ToServer) /\ toPage \in Seq(ToPage)
           /\ live \in TabGames \cup {None} /\ cooling \subseteq TabGames /\ winsDue \subseteq TabGames
           /\ startsDue \in Seq(TabGames)
           /\ starts \in 0 .. MaxStarts /\ tabLuck \subseteq {"crossed", "late", "offline", "failed"}
BY DEF GameTabInv, GameTabFlows

\* Cooldowns say nothing of what is shown and what is live.
LEMMA CoolingHolds ==
    ASSUME GameTabInv, view' \in Views, view'.active = view.active, view'.board = view.board, view'.over = view.over,
           cooling' \subseteq TabGames, UNCHANGED <<toServer, toPage, live, startsDue, winsDue, starts, tabLuck>>
    PROVE  GameTabInv'
<1>1. GameTabFlows'
  BY GameTabFacts DEF GameTabFlows
<1>2. ASSUME tabLuck' = {} PROVE OneStart' /\ StartFits' /\ LiveFits' /\ BoardFits' /\ ReportFits'
  <2>1. OneStart /\ StartFits /\ LiveFits /\ BoardFits /\ ReportFits
    BY <1>2 DEF GameTabInv
  <2>2. OneStart' /\ LiveFits'
    BY <2>1 DEF OneStart, LiveFits
  <2>3. StartFits'
    BY <2>1 DEF StartFits, StartIsOf
  <2>4. BoardFits' /\ ReportFits'
    BY <2>1 DEF BoardFits, ReportFits
  <2> QED
    BY <2>1, <2>2, <2>3, <2>4
<1> QED
  BY <1>1, <1>2 DEF GameTabInv

LEMMA PageCoolingHolds == ASSUME GameTabInv, PageCools \/ ServerCools PROVE GameTabInv'
<1>1. CASE PageCools
  <2>1. PICK g \in view.cool : view' = [view EXCEPT !.cool = view.cool \ {g}]
    BY <1>1 DEF PageCools
  <2>2. view' \in Views /\ view'.active = view.active /\ view'.board = view.board /\ view'.over = view.over
    BY <2>1, GameTabFacts DEF Views
  <2>3. cooling' \subseteq TabGames /\ UNCHANGED <<toServer, toPage, live, startsDue, winsDue, starts, tabLuck>>
    BY <1>1, GameTabFacts DEF PageCools
  <2> QED
    BY <2>2, <2>3, CoolingHolds
<1>2. CASE ServerCools
  <2>1. view' = view /\ cooling' \subseteq TabGames /\ UNCHANGED <<toServer, toPage, live, startsDue, winsDue, starts, tabLuck>>
    BY <1>2, GameTabFacts DEF ServerCools
  <2> QED
    BY <2>1, GameTabFacts, CoolingHolds
<1> QED
  BY <1>1, <1>2

LEMMA LeavingHolds == ASSUME GameTabInv, LeavesReport PROVE GameTabInv'
<1>1. /\ view' = [view EXCEPT !.active = None, !.board = None]
      /\ UNCHANGED <<toServer, toPage, live, cooling, startsDue, winsDue, starts, tabLuck>>
  BY DEF LeavesReport
<1>2. view' \in Views /\ view'.active = None /\ view'.board = None
  BY <1>1, GameTabFacts DEF Views
<1>3. GameTabFlows'
  BY <1>1, <1>2, GameTabFacts DEF GameTabFlows
<1>4. ASSUME tabLuck' = {} PROVE OneStart' /\ StartFits' /\ LiveFits' /\ BoardFits' /\ ReportFits'
  <2>1. OneStart /\ StartFits /\ LiveFits
    BY <1>1, <1>4 DEF GameTabInv
  <2>2. OneStart' /\ LiveFits' /\ BoardFits' /\ ReportFits'
    BY <1>1, <1>2, <2>1 DEF OneStart, LiveFits, BoardFits, ReportFits
  <2>3. \A g : StartIsOf(g) => StartIsOf(g)'
    BY <1>1, <1>2 DEF StartIsOf
  <2>4. StartFits'
    BY <1>1, <1>2, <2>1, <2>3 DEF StartFits
  <2> QED
    BY <2>2, <2>4
<1> QED
  BY <1>3, <1>4 DEF GameTabInv

\* What a message at the end of the queue to the server leaves in its place.
LEMMA Emitted ==
    ASSUME GameTabInv, NEW m \in ToServer, Emits(m)
    PROVE  /\ toServer' \in Seq(ToServer) /\ Len(toServer) \in Nat
           /\ \A i \in 1 .. Len(toServer) : toServer'[i] = toServer[i]
           /\ toServer'[Len(toServer) + 1] = m
           /\ \A k : k # m.kind => PlacesOf(k, toServer') = PlacesOf(k, toServer)
           /\ PlacesOf(m.kind, toServer') = PlacesOf(m.kind, toServer) \cup {Len(toServer) + 1}
           /\ \A k : \A i \in PlacesOf(k, toServer) : i \in 1 .. Len(toServer) /\ i < Len(toServer) + 1 /\ i \in Nat
BY GameTabFacts, QueueGrows DEF Emits

LEMMA ToldPage ==
    ASSUME GameTabInv, NEW m \in ToPage, Tells(m)
    PROVE  /\ toPage' \in Seq(ToPage) /\ Len(toPage) \in Nat
           /\ \A i \in 1 .. Len(toPage) : toPage'[i] = toPage[i]
           /\ toPage'[Len(toPage) + 1] = m
           /\ \A k : k # m.kind => PlacesOf(k, toPage') = PlacesOf(k, toPage)
           /\ PlacesOf(m.kind, toPage') = PlacesOf(m.kind, toPage) \cup {Len(toPage) + 1}
           /\ \A k : \A i \in PlacesOf(k, toPage) : i \in 1 .. Len(toPage) /\ i < Len(toPage) + 1 /\ i \in Nat
BY GameTabFacts, QueueGrows DEF Tells

LEMMA AbortingHolds == ASSUME GameTabInv, AbortsGame PROVE GameTabInv'
<1>1. /\ view' = [view EXCEPT !.active = None, !.board = None] /\ Emits(Msg("end", None))
      /\ UNCHANGED <<toPage, live, cooling, startsDue, winsDue, starts, tabLuck>>
  BY DEF AbortsGame, TellsServer
<1>2. view' \in Views /\ view'.active = None /\ view'.board = None
  BY <1>1, GameTabFacts DEF Views
<1>3. /\ toServer' \in Seq(ToServer) /\ PlacesOf("start", toServer') = PlacesOf("start", toServer)
      /\ \A i \in PlacesOf("start", toServer) : toServer'[i] = toServer[i]
  BY <1>1, Emitted, MsgKinds
<1>4. GameTabFlows'
  BY <1>1, <1>2, <1>3, GameTabFacts DEF GameTabFlows
<1>5. ASSUME tabLuck' = {} PROVE OneStart' /\ StartFits' /\ LiveFits' /\ BoardFits' /\ ReportFits'
  <2>1. OneStart /\ StartFits /\ LiveFits
    BY <1>1, <1>5 DEF GameTabInv
  <2>2. OneStart' /\ LiveFits' /\ BoardFits' /\ ReportFits'
    BY <1>1, <1>2, <1>3, <2>1 DEF OneStart, LiveFits, BoardFits, ReportFits
  <2>3. \A g : StartIsOf(g) => StartIsOf(g)'
    BY <1>1, <1>2 DEF StartIsOf
  <2>4. StartFits'
    BY <1>1, <1>2, <1>3, <2>1, <2>3 DEF StartFits
  <2> QED
    BY <2>2, <2>4
<1> QED
  BY <1>4, <1>5 DEF GameTabInv

LEMMA TimeHolds == ASSUME GameTabInv, TimeIsUp PROVE GameTabInv'
<1>1. /\ view.board # None /\ ~view.over /\ view' = [view EXCEPT !.over = TRUE] /\ Emits(Msg("end", None))
      /\ UNCHANGED <<toPage, live, cooling, startsDue, winsDue, starts, tabLuck>>
  BY DEF TimeIsUp, TellsServer
<1>2. view' \in Views /\ view'.over
  BY <1>1, GameTabFacts DEF Views
<1>3. /\ toServer' \in Seq(ToServer) /\ PlacesOf("start", toServer') = PlacesOf("start", toServer)
      /\ PlacesOf("end", toServer') # {}
  BY <1>1, Emitted, MsgKinds
<1>4. GameTabFlows'
  BY <1>1, <1>2, <1>3, GameTabFacts DEF GameTabFlows
<1>5. ASSUME tabLuck' = {} PROVE OneStart' /\ StartFits' /\ LiveFits' /\ BoardFits' /\ ReportFits'
  <2>1. OneStart /\ StartFits /\ LiveFits
    BY <1>1, <1>5 DEF GameTabInv
  <2>2. \A g : ~StartIsOf(g)
    BY <1>1 DEF StartIsOf
  <2>3. PlacesOf("start", toServer) = {} /\ startsDue = <<>> /\ PlacesOf("started", toPage) = {}
    BY <2>1, <2>2 DEF StartFits
  <2>4. OneStart' /\ LiveFits'
    BY <1>1, <1>3, <2>1 DEF OneStart, LiveFits
  <2>5. StartFits' /\ BoardFits' /\ ReportFits'
    BY <1>1, <1>2, <1>3, <2>3 DEF StartFits, BoardFits, ReportFits
  <2> QED
    BY <2>4, <2>5
<1> QED
  BY <1>4, <1>5 DEF GameTabInv

\* A start is sent: from the lobby, or for the game whose report is shown.
LEMMA SendingHolds ==
    ASSUME GameTabInv, NEW g \in TabGames, SendsStart(g), view' \in Views, view'.active = g,
           \/ view'.board = None /\ ~view'.over
           \/ view'.over /\ view' = view /\ view.active # None,
           UNCHANGED <<toPage, live, cooling, startsDue, winsDue>>
    PROVE  GameTabInv'
<1>1. /\ starts < MaxStarts /\ starts' = starts + 1 /\ Emits(Msg("start", g))
      /\ tabLuck' = tabLuck \cup (IF StartIsDue THEN {"crossed"} ELSE {})
                            \cup (IF winsDue # {} \/ Pending("finished", toPage) THEN {"late"} ELSE {})
  BY DEF SendsStart
<1>2. /\ tabLuck' \subseteq {"crossed", "late", "offline", "failed"}
      /\ tabLuck' = {} => tabLuck = {} /\ ~StartIsDue /\ winsDue = {}
  BY <1>1, GameTabFacts
<1>3. /\ toServer' \in Seq(ToServer) /\ Len(toServer) \in Nat
      /\ toServer'[Len(toServer) + 1].game = g
      /\ PlacesOf("start", toServer') = PlacesOf("start", toServer) \cup {Len(toServer) + 1}
      /\ PlacesOf("end", toServer') = PlacesOf("end", toServer)
      /\ \A i \in PlacesOf("end", toServer) : i < Len(toServer) + 1
  <2>1. Msg("start", g) \in ToServer /\ Msg("start", g).kind = "start" /\ Msg("start", g).game = g
    BY MsgKinds
  <2> QED
    BY <1>1, <2>1, Emitted
<1>4. GameTabFlows'
  <2>1. starts' \in 0 .. MaxStarts
    BY <1>1, GameTabFacts, GameTabAssumption
  <2> QED
    BY <1>2, <1>3, <2>1, GameTabFacts DEF GameTabFlows
<1>5. ASSUME tabLuck' = {} PROVE OneStart' /\ StartFits' /\ LiveFits' /\ BoardFits' /\ ReportFits'
  <2>1. OneStart /\ StartFits /\ LiveFits /\ ReportFits /\ winsDue = {}
    BY <1>2, <1>5 DEF GameTabInv
  <2>2. PlacesOf("start", toServer) = {} /\ startsDue = <<>> /\ PlacesOf("started", toPage) = {}
    BY <1>2, <1>5, StartsAreDue
  <2>3. PlacesOf("start", toServer') = {Len(toServer) + 1} /\ PlacesOf("started", toPage') = {} /\ startsDue' = <<>>
    BY <1>3, <2>2
  <2>4. OneStart'
    <3>1. Len(startsDue') <= 1
      BY <2>3, EmptySeq
    <3> QED
      BY <2>3, <3>1 DEF OneStart
  <2>5. StartFits'
    <3>1. StartIsOf(g)'
      BY <2>1 DEF StartIsOf
    <3>2. view'.over /\ live # None => \E j \in PlacesOf("end", toServer') : j < Len(toServer) + 1
      BY <1>3, <2>1, <2>2 DEF ReportFits
    <3> QED
      BY <1>3, <2>3, <3>1, <3>2 DEF StartFits
  <2>6. LiveFits' /\ BoardFits' /\ ReportFits'
    BY <2>1, <2>3 DEF LiveFits, BoardFits, ReportFits
  <2> QED
    BY <2>4, <2>5, <2>6
<1> QED
  BY <1>4, <1>5 DEF GameTabInv

LEMMA ClickingHolds == ASSUME GameTabInv, ClicksCard \/ RestartsGame PROVE GameTabInv'
<1>1. CASE ClicksCard
  <2>1. PICK g \in TabGames : view' = [view EXCEPT !.active = g, !.board = None, !.over = FALSE] /\ SendsStart(g)
    BY <1>1 DEF ClicksCard
  <2>2. view' \in Views /\ view'.active = g /\ view'.board = None /\ ~view'.over
    BY <2>1, GameTabFacts DEF Views
  <2>3. UNCHANGED <<toPage, live, cooling, startsDue, winsDue>>
    BY <1>1 DEF ClicksCard
  <2> QED
    BY <2>1, <2>2, <2>3, SendingHolds
<1>2. CASE RestartsGame
  <2>1. /\ view.active # None /\ view.over /\ SendsStart(view.active)
        /\ UNCHANGED <<view, toPage, live, cooling, startsDue, winsDue>>
    BY <1>2 DEF RestartsGame
  <2>2. view.active \in TabGames /\ view' \in Views /\ view' = view
    BY <2>1, GameTabFacts DEF Views
  <2> QED
    BY <2>1, <2>2, SendingHolds
<1> QED
  BY <1>1, <1>2

\* What taking a message off the front of a queue leaves in its place.
LEMMA TakenOff ==
    ASSUME GameTabInv, NEW kind, Takes(kind)
    PROVE  /\ toServer' \in Seq(ToServer) /\ Head(toServer) \in ToServer /\ Head(toServer) = toServer[1]
           /\ 1 \in PlacesOf(kind, toServer)
           /\ \A k : \A i \in PlacesOf(k, toServer') : i \in Nat /\ i + 1 \in PlacesOf(k, toServer) /\ toServer'[i] = toServer[i + 1]
           /\ \A k : \A i \in PlacesOf(k, toServer) :
                 i \in Nat /\ i >= 1 /\ (i # 1 => i - 1 \in PlacesOf(k, toServer') /\ toServer'[i - 1] = toServer[i])
           /\ \A k : 1 \in PlacesOf(k, toServer) <=> k = kind
<1>1. toServer # <<>> /\ Head(toServer).kind = kind /\ toServer' = Tail(toServer)
  BY DEF Takes
<1>2. toServer \in Seq(ToServer)
  BY GameTabFacts
<1>3. /\ Tail(toServer) \in Seq(ToServer) /\ Head(toServer) \in ToServer /\ Head(toServer) = toServer[1]
      /\ \A k : \A i \in PlacesOf(k, Tail(toServer)) : i \in Nat /\ i + 1 \in PlacesOf(k, toServer) /\ Tail(toServer)[i] = toServer[i + 1]
      /\ \A k : \A i \in PlacesOf(k, toServer) :
            i \in Nat /\ i >= 1 /\ (i # 1 => i - 1 \in PlacesOf(k, Tail(toServer)) /\ Tail(toServer)[i - 1] = toServer[i])
      /\ \A k : 1 \in PlacesOf(k, toServer) <=> Head(toServer).kind = k
  BY <1>1, <1>2, QueueShrinks
<1>4. PICK q : q = Tail(toServer)
  OBVIOUS
<1>5. toServer' = q
  BY <1>1, <1>4
<1> QED
  BY <1>1, <1>3, <1>4, <1>5, Zenon

LEMMA Heard ==
    ASSUME GameTabInv, NEW kind, Hears(kind)
    PROVE  /\ toPage' \in Seq(ToPage) /\ Head(toPage) \in ToPage /\ Head(toPage) = toPage[1]
           /\ 1 \in PlacesOf(kind, toPage)
           /\ \A k : \A i \in PlacesOf(k, toPage') : i \in Nat /\ i + 1 \in PlacesOf(k, toPage) /\ toPage'[i] = toPage[i + 1]
           /\ \A k : \A i \in PlacesOf(k, toPage) :
                 i \in Nat /\ i >= 1 /\ (i # 1 => i - 1 \in PlacesOf(k, toPage') /\ toPage'[i - 1] = toPage[i])
           /\ \A k : 1 \in PlacesOf(k, toPage) <=> k = kind
           /\ UNCHANGED <<toServer, live, cooling, startsDue, winsDue, starts, tabLuck>>
<1>1. /\ toPage # <<>> /\ Head(toPage).kind = kind /\ toPage' = Tail(toPage)
      /\ UNCHANGED <<toServer, live, cooling, startsDue, winsDue, starts, tabLuck>>
  BY DEF Hears
<1>2. toPage \in Seq(ToPage)
  BY GameTabFacts
<1>3. /\ Tail(toPage) \in Seq(ToPage) /\ Head(toPage) \in ToPage /\ Head(toPage) = toPage[1]
      /\ \A k : \A i \in PlacesOf(k, Tail(toPage)) : i \in Nat /\ i + 1 \in PlacesOf(k, toPage) /\ Tail(toPage)[i] = toPage[i + 1]
      /\ \A k : \A i \in PlacesOf(k, toPage) :
            i \in Nat /\ i >= 1 /\ (i # 1 => i - 1 \in PlacesOf(k, Tail(toPage)) /\ Tail(toPage)[i - 1] = toPage[i])
      /\ \A k : 1 \in PlacesOf(k, toPage) <=> Head(toPage).kind = k
  BY <1>1, <1>2, QueueShrinks
<1>4. PICK q : q = Tail(toPage)
  OBVIOUS
<1>5. toPage' = q
  BY <1>1, <1>4
<1> QED
  BY <1>1, <1>3, <1>4, <1>5, Zenon

LEMMA TakingStartHolds == ASSUME GameTabInv, TakesStart PROVE GameTabInv'
<1> DEFINE h == Head(toServer).game
<1>1. /\ Takes("start") /\ UNCHANGED <<view, live, cooling, winsDue, starts, tabLuck>>
      /\ \/ Tells(Msg("cooldown", h)) /\ UNCHANGED startsDue
         \/ startsDue' = Append(startsDue, h) /\ UNCHANGED toPage
  BY DEF TakesStart
<1>2. PICK g \in TabGames : g = h
  <2>1. Head(toServer) \in ToServer /\ Head(toServer).kind = "start"
    BY <1>1, TakenOff DEF Takes
  <2> QED
    BY <2>1, MsgKinds
<1> HIDE DEF h
<1>3. toPage' \in Seq(ToPage) /\ startsDue' \in Seq(TabGames)
  <2>1. Msg("cooldown", g) \in ToPage
    BY MsgKinds
  <2>2. Append(startsDue, g) \in Seq(TabGames)
    BY GameTabFacts, AppendProperties
  <2> QED
    BY <1>1, <1>2, <2>1, <2>2, ToldPage, GameTabFacts
<1>4. GameTabFlows'
  BY <1>1, <1>3, TakenOff, GameTabFacts DEF GameTabFlows
<1>5. ASSUME tabLuck' = {} PROVE OneStart' /\ StartFits' /\ LiveFits' /\ BoardFits' /\ ReportFits'
  <2>1. OneStart /\ StartFits /\ LiveFits
    BY <1>1, <1>5 DEF GameTabInv
  <2>2. 1 \in PlacesOf("start", toServer) /\ toServer[1].game = g
    BY <1>1, <1>2, TakenOff DEF h
  <2>3. startsDue = <<>> /\ PlacesOf("started", toPage) = {}
    BY <2>1, <2>2 DEF OneStart
  <2>4. PlacesOf("start", toServer') = {}
    <3> SUFFICES ASSUME NEW i \in PlacesOf("start", toServer') PROVE FALSE
      OBVIOUS
    <3>1. i \in Nat /\ i + 1 \in PlacesOf("start", toServer) /\ i >= 1
      <4>1. toServer' \in Seq(ToServer)
        BY <1>1, TakenOff
      <4>2. Len(toServer') \in Nat
        BY <4>1, LenProperties
      <4> QED
        BY <1>1, <4>2, TakenOff DEF PlacesOf
    <3> QED
      BY <2>1, <2>2, <3>1 DEF OneStart
  <2>5. StartIsOf(g) /\ (view.active # None => PlacesOf("end", toServer) = {})
    <3>1. ASSUME view.active # None, NEW j \in PlacesOf("end", toServer) PROVE FALSE
      BY <1>1, <2>1, <2>2, <3>1, TakenOff DEF StartFits
    <3> QED
      BY <2>1, <2>2, <3>1 DEF StartFits
  <2>6. view.active # None /\ view.over => live = None
    <3>1. ASSUME NEW j \in PlacesOf("end", toServer), j < 1 PROVE FALSE
      BY <1>1, <3>1, TakenOff
    <3> QED
      BY <2>1, <2>2, <3>1 DEF StartFits
  <2>7. PlacesOf("end", toServer) = {} => PlacesOf("end", toServer') = {}
    BY <1>1, TakenOff
  <2>8. PlacesOf("started", toPage') = {} /\ PlacesOf("finished", toPage') = PlacesOf("finished", toPage)
    <3>1. CASE Tells(Msg("cooldown", g))
      BY <2>3, <3>1, ToldPage, MsgKinds
    <3> QED
      BY <1>1, <1>2, <2>3, <3>1
  <2>9. /\ startsDue' \in {<<>>, Append(<<>>, g)} /\ Len(startsDue') <= 1
        /\ startsDue' # <<>> => startsDue'[1] = g
    <3>1. Append(<<>>, g) = <<g>> /\ Len(<<g>>) = 1 /\ <<g>>[1] = g /\ Len(<<>>) = 0
      OBVIOUS
    <3>2. startsDue' \in {<<>>, Append(<<>>, g)}
      BY <1>1, <1>2, <2>3
    <3> QED
      BY <3>1, <3>2
  <2>10. OneStart'
    BY <2>4, <2>8, <2>9 DEF OneStart
  <2>11. StartFits'
    BY <1>1, <2>4, <2>5, <2>7, <2>8, <2>9 DEF StartFits, StartIsOf
  <2>12. LiveFits'
    BY <1>1, <2>1, <2>3, <2>8 DEF LiveFits
  <2>13. BoardFits' /\ ReportFits'
    BY <1>1, <2>5, <2>6 DEF BoardFits, ReportFits, StartIsOf
  <2> QED
    BY <2>10, <2>11, <2>12, <2>13
<1> QED
  BY <1>4, <1>5 DEF GameTabInv

\* The queue of starts without one of them.
LEMMA OneTakenOut ==
    ASSUME NEW S, NEW s \in Seq(S), NEW i \in DOMAIN s
    PROVE  SeqExt!RemoveAt(s, i) \in Seq(S) /\ s[i] \in S /\ (Len(s) <= 1 => i = 1 /\ SeqExt!RemoveAt(s, i) = <<>>)
<1>1. Len(s) \in Nat /\ i \in 1 .. Len(s) /\ s[i] \in S
  BY LenProperties, ElementOfSeq
<1>2. SubSeq(s, 1, i - 1) \in Seq(S) /\ SubSeq(s, i + 1, Len(s)) \in Seq(S)
  BY <1>1, SubSeqProperties
<1>3. SubSeq(s, 1, i - 1) \o SubSeq(s, i + 1, Len(s)) \in Seq(S)
  BY <1>2, ConcatProperties
<1>4. ASSUME Len(s) <= 1 PROVE i = 1 /\ SubSeq(s, 1, i - 1) \o SubSeq(s, i + 1, Len(s)) = <<>>
  <2>1. i = 1 /\ Len(s) = 1
    <3>1. PICK n \in Nat : n = Len(s)
      BY <1>1
    <3>2. n <= 1 /\ i \in 1 .. n
      BY <1>1, <1>4, <3>1
    <3>3. i = 1 /\ n = 1
      BY <3>2
    <3> QED
      BY <3>1, <3>3
  <2>2. SubSeq(s, 1, 0) = <<>> /\ SubSeq(s, 2, 1) = <<>>
    BY <2>1, SubSeqEmpty
  <2>3. <<>> \o <<>> = <<>>
    OBVIOUS
  <2> QED
    BY <2>1, <2>2, <2>3
<1> QED
  BY <1>1, <1>3, <1>4 DEF SeqExt!RemoveAt

LEMMA StartingSessionHolds == ASSUME GameTabInv, StartsSession PROVE GameTabInv'
<1>1. PICK i \in DOMAIN startsDue :
        startsDue' = SeqExt!RemoveAt(startsDue, i) /\ live' = startsDue[i] /\ Tells(Msg("started", startsDue[i]))
  BY DEF StartsSession
<1>2. UNCHANGED <<view, toServer, cooling, winsDue, starts, tabLuck>>
  BY DEF StartsSession
<1>3. startsDue' \in Seq(TabGames) /\ startsDue[i] \in TabGames /\ (Len(startsDue) <= 1 => i = 1 /\ startsDue' = <<>>)
  BY <1>1, GameTabFacts, OneTakenOut
<1>4. PICK g \in TabGames : g = startsDue[i]
  BY <1>3
<1>5. /\ toPage' \in Seq(ToPage) /\ toPage'[Len(toPage) + 1].game = g
      /\ PlacesOf("finished", toPage') = PlacesOf("finished", toPage)
      /\ PlacesOf("started", toPage') = PlacesOf("started", toPage) \cup {Len(toPage) + 1}
      /\ \A j \in PlacesOf("finished", toPage) : j < Len(toPage) + 1
  <2>1. Msg("started", g) \in ToPage /\ Msg("started", g).kind = "started" /\ Msg("started", g).game = g
    BY MsgKinds
  <2> QED
    BY <1>1, <1>4, <2>1, ToldPage
<1>6. GameTabFlows'
  BY <1>1, <1>2, <1>3, <1>5, GameTabFacts DEF GameTabFlows
<1>7. ASSUME tabLuck' = {} PROVE OneStart' /\ StartFits' /\ LiveFits' /\ BoardFits' /\ ReportFits'
  <2>1. OneStart /\ StartFits
    BY <1>2, <1>7 DEF GameTabInv
  <2>2. i = 1 /\ startsDue' = <<>> /\ startsDue # <<>>
    <3>1. Len(startsDue) <= 1
      BY <2>1 DEF OneStart
    <3>2. startsDue # <<>>
      <4>1. DOMAIN <<>> = {}
        OBVIOUS
      <4> QED
        BY <4>1, <1>1
    <3> QED
      BY <1>3, <3>1, <3>2
  <2>3. PlacesOf("start", toServer) = {} /\ PlacesOf("started", toPage) = {}
    BY <2>1, <2>2 DEF OneStart
  <2>4. StartIsOf(g) /\ (view.active # None => PlacesOf("end", toServer) = {})
    BY <1>4, <2>1, <2>2 DEF StartFits
  <2>5. PlacesOf("started", toPage') = {Len(toPage) + 1}
    BY <1>5, <2>3
  <2>6. OneStart'
    <3>1. Len(startsDue') <= 1
      BY <2>2, EmptySeq
    <3> QED
      BY <1>2, <2>2, <2>3, <2>5, <3>1 DEF OneStart
  <2>7. StartFits'
    <3>1. StartIsOf(g)'
      BY <1>2, <2>4 DEF StartIsOf
    <3> QED
      BY <1>1, <1>2, <1>4, <1>5, <2>2, <2>3, <2>4, <2>5, <3>1 DEF StartFits
  <2>8. LiveFits'
    BY <1>2, <1>5, <2>4, <2>5 DEF LiveFits, StartIsOf
  <2>9. BoardFits' /\ ReportFits'
    BY <1>2, <2>4, <2>5 DEF BoardFits, ReportFits, StartIsOf
  <2> QED
    BY <2>6, <2>7, <2>8, <2>9
<1> QED
  BY <1>6, <1>7 DEF GameTabInv

LEMMA StartLosingHolds == ASSUME GameTabInv, StartIsLost PROVE GameTabInv'
<1>1. /\ \E i \in DOMAIN startsDue : startsDue' = SeqExt!RemoveAt(startsDue, i)
      /\ tabLuck' = tabLuck \cup {"failed"}
      /\ UNCHANGED <<view, toServer, toPage, live, cooling, winsDue, starts>>
  BY DEF StartIsLost
<1>2. startsDue' \in Seq(TabGames)
  BY <1>1, GameTabFacts, OneTakenOut
<1>3. GameTabFlows'
  BY <1>1, <1>2, GameTabFacts DEF GameTabFlows
<1> QED
  BY <1>1, <1>3 DEF GameTabInv

LEMMA ClosingHolds == ASSUME GameTabInv, SocketCloses PROVE GameTabInv'
<1>1. /\ live' = None /\ toServer' = <<>> /\ toPage' = <<>> /\ startsDue' = <<>> /\ winsDue' = {}
      /\ tabLuck' = tabLuck \cup {"offline"} /\ UNCHANGED <<view, cooling, starts>>
  BY DEF SocketCloses
<1>2. <<>> \in Seq(ToServer) /\ <<>> \in Seq(ToPage) /\ <<>> \in Seq(TabGames)
  BY EmptySeq
<1>3. GameTabFlows'
  BY <1>1, <1>2, GameTabFacts DEF GameTabFlows
<1> QED
  BY <1>1, <1>3 DEF GameTabInv

LEMMA WinningHolds == ASSUME GameTabInv, WinsGame PROVE GameTabInv'
<1>1. /\ live # None /\ cooling' = cooling \cup {live} /\ winsDue' = winsDue \cup {live} /\ live' = None
      /\ tabLuck' = tabLuck \cup IF StartIsDue THEN {"late"} ELSE {}
      /\ UNCHANGED <<view, toServer, toPage, startsDue, starts>>
  BY DEF WinsGame
<1>2. live \in TabGames
  BY <1>1, GameTabFacts
<1>3. tabLuck' \subseteq {"crossed", "late", "offline", "failed"} /\ (tabLuck' = {} => tabLuck = {} /\ ~StartIsDue)
  BY <1>1, GameTabFacts
<1>4. GameTabFlows'
  BY <1>1, <1>2, <1>3, GameTabFacts DEF GameTabFlows
<1>5. ASSUME tabLuck' = {} PROVE OneStart' /\ StartFits' /\ LiveFits' /\ BoardFits' /\ ReportFits'
  <2>1. OneStart /\ BoardFits
    BY <1>3, <1>5 DEF GameTabInv
  <2>2. PlacesOf("start", toServer) = {} /\ startsDue = <<>> /\ PlacesOf("started", toPage) = {}
    BY <1>3, <1>5, StartsAreDue
  <2>3. OneStart'
    BY <1>1, <2>1 DEF OneStart
  <2>4. StartFits'
    BY <1>1, <2>2 DEF StartFits
  <2>5. LiveFits' /\ ReportFits'
    BY <1>1 DEF LiveFits, ReportFits
  <2>6. BoardFits'
    BY <1>1, <2>1 DEF BoardFits
  <2> QED
    BY <2>3, <2>4, <2>5, <2>6
<1> QED
  BY <1>4, <1>5 DEF GameTabInv

LEMMA WinTellingHolds == ASSUME GameTabInv, WinIsTold PROVE GameTabInv'
<1>1. PICK g \in winsDue : winsDue' = winsDue \ {g} /\ Tells(Msg("finished", g))
  BY DEF WinIsTold
<1>2. UNCHANGED <<view, toServer, live, cooling, startsDue, starts, tabLuck>>
  BY DEF WinIsTold
<1>3. /\ toPage' \in Seq(ToPage) /\ PlacesOf("finished", toPage') # {}
      /\ PlacesOf("started", toPage') = PlacesOf("started", toPage)
  <2>1. g \in TabGames
    BY <1>1, GameTabFacts
  <2>2. Msg("finished", g) \in ToPage /\ Msg("finished", g).kind = "finished"
    BY <2>1, MsgKinds
  <2> QED
    BY <1>1, <2>2, ToldPage
<1>4. GameTabFlows'
  BY <1>1, <1>2, <1>3, GameTabFacts DEF GameTabFlows
<1>5. ASSUME tabLuck' = {} PROVE OneStart' /\ StartFits' /\ LiveFits' /\ BoardFits' /\ ReportFits'
  <2>1. OneStart /\ StartFits /\ LiveFits /\ BoardFits
    BY <1>2, <1>5 DEF GameTabInv
  <2>2. live = None
    BY <1>1, <2>1 DEF LiveFits
  <2>3. PlacesOf("start", toServer) = {} /\ startsDue = <<>> /\ PlacesOf("started", toPage) = {}
    BY <1>1, <2>1 DEF StartFits, StartIsOf
  <2>4. OneStart'
    BY <1>2, <1>3, <2>1 DEF OneStart
  <2>5. StartFits'
    BY <1>2, <1>3, <2>3 DEF StartFits
  <2>6. LiveFits' /\ ReportFits'
    BY <1>2, <2>2 DEF LiveFits, ReportFits
  <2>7. BoardFits'
    BY <1>2, <1>3, <2>1 DEF BoardFits
  <2> QED
    BY <2>4, <2>5, <2>6, <2>7
<1> QED
  BY <1>4, <1>5 DEF GameTabInv

\* The session is ended, and the page is told of one that was live.
LEMMA EndingHolds == ASSUME GameTabInv, TakesEnd PROVE GameTabInv'
<1>1. Takes("end") /\ UNCHANGED <<view, startsDue, winsDue, starts, tabLuck>> /\ live' = None
  BY DEF TakesEnd, EndsSession
<1>2. /\ toPage' \in Seq(ToPage) /\ cooling' \subseteq TabGames
      /\ PlacesOf("started", toPage') = PlacesOf("started", toPage)
      /\ \A i \in PlacesOf("started", toPage) : toPage'[i] = toPage[i]
  <2>1. CASE live = None
    <3>1. toPage' = toPage /\ cooling' = cooling
      BY <2>1 DEF TakesEnd
    <3> QED
      BY <3>1, GameTabFacts
  <2>2. CASE live # None
    <3>1. live \in TabGames /\ Tells(Msg("finished", live)) /\ cooling' = cooling \cup {live}
      BY <2>2, GameTabFacts DEF TakesEnd, EndsSession
    <3>2. Msg("finished", live) \in ToPage /\ Msg("finished", live).kind = "finished"
      BY <3>1, MsgKinds
    <3> QED
      BY <3>1, <3>2, ToldPage, GameTabFacts
  <2> QED
    BY <2>1, <2>2
<1>3. GameTabFlows'
  BY <1>1, <1>2, TakenOff, GameTabFacts DEF GameTabFlows
<1>4. ASSUME tabLuck' = {} PROVE OneStart' /\ StartFits' /\ LiveFits' /\ BoardFits' /\ ReportFits'
  <2>1. OneStart /\ StartFits /\ BoardFits
    BY <1>1, <1>4 DEF GameTabInv
  <2>2. 1 \in PlacesOf("end", toServer)
    BY <1>1, TakenOff
  <2>3. \A i \in PlacesOf("start", toServer') : i \in Nat /\ i + 1 \in PlacesOf("start", toServer) /\ toServer'[i] = toServer[i + 1]
    BY <1>1, TakenOff
  <2>4. OneStart'
    <3>1. ASSUME NEW i \in PlacesOf("start", toServer'), NEW j \in PlacesOf("start", toServer') PROVE i = j
      <4>1. i \in Nat /\ j \in Nat /\ i + 1 = j + 1
        BY <2>1, <2>3 DEF OneStart
      <4> QED
        BY <4>1
    <3>2. PlacesOf("start", toServer') # {} => PlacesOf("start", toServer) # {}
      BY <2>3
    <3> QED
      BY <1>1, <1>2, <2>1, <3>1, <3>2 DEF OneStart
  <2>5. StartFits'
    <3>1. ASSUME NEW i \in PlacesOf("start", toServer')
          PROVE  view'.active \in {None, toServer'[i].game} /\ winsDue' = {} /\ (view'.board = None \/ view'.over)
                 /\ (view.active # None => \A j \in PlacesOf("end", toServer') : j < i)
      <4>1. i + 1 \in PlacesOf("start", toServer) /\ toServer'[i] = toServer[i + 1] /\ i \in Nat
        BY <2>3
      <4>2. StartIsOf(toServer[i + 1].game) /\ (view.active # None => \A j \in PlacesOf("end", toServer) : j < i + 1)
        BY <2>1, <4>1 DEF StartFits
      <4>3. ASSUME view.active # None, NEW j \in PlacesOf("end", toServer') PROVE j < i
        <5>1. j \in Nat /\ j + 1 < i + 1
          BY <1>1, <4>2, <4>3, TakenOff
        <5> QED
          BY <4>1, <5>1
      <4> QED
        BY <1>1, <4>1, <4>2, <4>3 DEF StartIsOf
    <3>2. startsDue # <<>> => StartIsOf(startsDue[1]) /\ view.active = None
      BY <2>1, <2>2 DEF StartFits
    <3>3. \A i \in PlacesOf("started", toPage) : StartIsOf(toPage[i].game) /\ view.active = None
      BY <2>1, <2>2 DEF StartFits
    <3> QED
      BY <1>1, <1>2, <3>1, <3>2, <3>3 DEF StartFits, StartIsOf
  <2>6. LiveFits' /\ ReportFits'
    BY <1>1 DEF LiveFits, ReportFits
  <2>7. BoardFits'
    BY <1>1, <2>1, <2>2 DEF BoardFits
  <2> QED
    BY <2>4, <2>5, <2>6, <2>7
<1> QED
  BY <1>3, <1>4 DEF GameTabInv

LEMMA HearingStartedHolds == ASSUME GameTabInv, HearsStarted PROVE GameTabInv'
<1>1. Hears("started") /\ view' = [view EXCEPT !.board = Head(toPage).game, !.over = FALSE]
  BY DEF HearsStarted
<1>2. PICK g \in TabGames : g = Head(toPage).game
  BY <1>1, Heard, MsgKinds
<1>3. view' \in Views /\ view'.active = view.active /\ view'.board = g /\ ~view'.over
  BY <1>1, <1>2, GameTabFacts DEF Views
<1>4. UNCHANGED <<toServer, live, cooling, startsDue, winsDue, starts, tabLuck>> /\ toPage' \in Seq(ToPage)
  BY <1>1, Heard
<1>5. GameTabFlows'
  BY <1>3, <1>4, GameTabFacts DEF GameTabFlows
<1>6. ASSUME tabLuck' = {} PROVE OneStart' /\ StartFits' /\ LiveFits' /\ BoardFits' /\ ReportFits'
  <2>1. OneStart /\ StartFits /\ LiveFits
    BY <1>4, <1>6 DEF GameTabInv
  <2>2. 1 \in PlacesOf("started", toPage) /\ toPage[1].game = g
    BY <1>1, <1>2, Heard
  <2>3. PlacesOf("start", toServer) = {} /\ startsDue = <<>> /\ \A i \in PlacesOf("started", toPage) : i = 1
    BY <2>1, <2>2 DEF OneStart
  <2>4. \A k : \A i \in PlacesOf(k, toPage') : i \in Nat /\ i + 1 \in PlacesOf(k, toPage) /\ i + 1 # 1
    <3> SUFFICES ASSUME NEW k, NEW i \in PlacesOf(k, toPage') PROVE i \in Nat /\ i + 1 \in PlacesOf(k, toPage) /\ i + 1 # 1
      OBVIOUS
    <3>1. i \in Nat /\ i + 1 \in PlacesOf(k, toPage)
      BY <1>1, Heard
    <3>2. i # 0
      <4>1. Len(toPage') \in Nat
        BY <1>4, LenProperties
      <4> QED
        BY <4>1 DEF PlacesOf
    <3> QED
      BY <3>1, <3>2
  <2>5. PlacesOf("started", toPage') = {}
    BY <2>3, <2>4
  <2>6. live # None => PlacesOf("finished", toPage') = {}
    <3> SUFFICES ASSUME live # None, NEW i \in PlacesOf("finished", toPage') PROVE FALSE
      OBVIOUS
    <3>1. PICK j \in PlacesOf("started", toPage) : i + 1 < j
      BY <2>1, <2>4 DEF LiveFits
    <3> QED
      BY <2>3, <2>4, <3>1
  <2>7. StartIsOf(g) /\ (view.active # None => PlacesOf("end", toServer) = {} /\ live = g)
    BY <2>1, <2>2 DEF StartFits
  <2>8. OneStart'
    BY <1>4, <2>1, <2>3, <2>5 DEF OneStart
  <2>9. StartFits'
    BY <1>4, <2>3, <2>5 DEF StartFits
  <2>10. LiveFits'
    BY <1>4, <2>1, <2>6 DEF LiveFits
  <2>11. BoardFits' /\ ReportFits'
    BY <1>3, <1>4, <2>7 DEF BoardFits, ReportFits, StartIsOf
  <2> QED
    BY <2>8, <2>9, <2>10, <2>11
<1> QED
  BY <1>5, <1>6 DEF GameTabInv

\* The end of a game, or a refusal, is heard: the page cools down, and what
\* ends is over.
LEMMA HearingOtherHolds == ASSUME GameTabInv, HearsFinished \/ HearsCooldown PROVE GameTabInv'
<1>1. PICK kind \in {"finished", "cooldown"} :
        /\ Hears(kind)
        /\ kind = "finished" => view' = [view EXCEPT !.over = TRUE, !.cool = view.cool \cup {Head(toPage).game}]
        /\ kind = "cooldown" => view' = [view EXCEPT !.cool = view.cool \cup {Head(toPage).game}]
  BY DEF HearsFinished, HearsCooldown
<1>2. PICK g \in TabGames : g = Head(toPage).game
  BY <1>1, Heard, MsgKinds
<1>3. /\ view' \in Views /\ view'.active = view.active /\ view'.board = view.board
      /\ (kind = "finished" => view'.over) /\ (kind = "cooldown" => view'.over = view.over) /\ (view.over => view'.over)
  BY <1>1, <1>2, GameTabFacts DEF Views
<1>4. UNCHANGED <<toServer, live, cooling, startsDue, winsDue, starts, tabLuck>> /\ toPage' \in Seq(ToPage)
  BY <1>1, Heard
<1>5. GameTabFlows'
  BY <1>3, <1>4, GameTabFacts DEF GameTabFlows
<1>6. /\ \A k : \A i \in PlacesOf(k, toPage') : i \in Nat /\ i + 1 \in PlacesOf(k, toPage) /\ toPage'[i] = toPage[i + 1]
      /\ \A k : \A i \in PlacesOf(k, toPage) :
            i \in Nat /\ i >= 1 /\ (i # 1 => i - 1 \in PlacesOf(k, toPage') /\ toPage'[i - 1] = toPage[i])
      /\ \A k : 1 \in PlacesOf(k, toPage) <=> k = kind
  BY <1>1, Heard
<1>7. ASSUME tabLuck' = {} PROVE OneStart' /\ StartFits' /\ LiveFits' /\ BoardFits' /\ ReportFits'
  <2>1. OneStart /\ StartFits /\ LiveFits /\ BoardFits /\ ReportFits
    BY <1>4, <1>7 DEF GameTabInv
  <2>2. PlacesOf("started", toPage') = {} <=> PlacesOf("started", toPage) = {}
    BY <1>1, <1>6
  <2>3. kind = "finished" /\ live # None => PlacesOf("started", toPage) # {}
    BY <1>6, <2>1 DEF LiveFits
  <2>4. \A h : StartIsOf(h) => StartIsOf(h)'
    BY <1>3, <1>4 DEF StartIsOf
  <2>5. OneStart'
    <3>1. ASSUME NEW i \in PlacesOf("started", toPage'), NEW j \in PlacesOf("started", toPage') PROVE i = j
      <4>1. i \in Nat /\ j \in Nat /\ i + 1 = j + 1
        BY <1>6, <2>1 DEF OneStart
      <4> QED
        BY <4>1
    <3> QED
      BY <1>4, <2>1, <2>2, <3>1 DEF OneStart
  <2>6. StartFits'
    <3>1. ASSUME NEW i \in PlacesOf("start", toServer)
          PROVE  view'.active # None /\ view'.over /\ live # None => \E j \in PlacesOf("end", toServer) : j < i
      <4>1. CASE kind = "finished"
        BY <2>1, <2>3, <3>1, <4>1 DEF OneStart
      <4>2. CASE kind = "cooldown"
        BY <1>3, <2>1, <3>1, <4>2 DEF StartFits
      <4> QED
        BY <4>1, <4>2
    <3>2. \A i \in PlacesOf("start", toServer) :
            view'.active \in {None, toServer[i].game} /\ winsDue' = {} /\ (view'.board = None \/ view'.over)
            /\ (view'.active # None => \A j \in PlacesOf("end", toServer) : j < i)
      BY <1>3, <1>4, <2>1 DEF StartFits, StartIsOf
    <3>3. startsDue # <<>> => view'.active \in {None, startsDue[1]} /\ winsDue' = {} /\ (view'.board = None \/ view'.over)
            /\ (view'.active # None => PlacesOf("end", toServer) = {})
      BY <1>3, <1>4, <2>1 DEF StartFits, StartIsOf
    <3>4. \A i \in PlacesOf("started", toPage') :
            view'.active \in {None, toPage'[i].game} /\ winsDue' = {} /\ (view'.board = None \/ view'.over)
            /\ (view'.active # None => PlacesOf("end", toServer) = {} /\ live = toPage'[i].game)
      BY <1>3, <1>4, <1>6, <2>1 DEF StartFits, StartIsOf
    <3> QED
      BY <1>4, <3>1, <3>2, <3>3, <3>4 DEF StartFits, StartIsOf
  <2>7. LiveFits'
    <3>1. ASSUME live # None, NEW i \in PlacesOf("finished", toPage') PROVE \E j \in PlacesOf("started", toPage') : i < j
      <4>1. i \in Nat /\ i + 1 \in PlacesOf("finished", toPage)
        BY <1>6
      <4>2. PICK j \in PlacesOf("started", toPage) : i + 1 < j
        BY <2>1, <3>1, <4>1 DEF LiveFits
      <4>3. j \in Nat /\ j # 1 /\ j - 1 \in PlacesOf("started", toPage')
        BY <1>6, <4>1, <4>2
      <4>4. i < j - 1
        BY <4>1, <4>2, <4>3
      <4> QED
        BY <4>3, <4>4
    <3> QED
      BY <1>4, <2>1, <3>1 DEF LiveFits
  <2>8. BoardFits'
    <3>1. CASE kind = "finished"
      BY <1>3, <3>1 DEF BoardFits
    <3>2. CASE kind = "cooldown"
      <4>1. PlacesOf("finished", toPage) # {} => PlacesOf("finished", toPage') # {}
        BY <1>6, <3>2
      <4> QED
        BY <1>3, <1>4, <2>1, <3>2, <4>1 DEF BoardFits
    <3> QED
      BY <3>1, <3>2
  <2>9. ReportFits'
    <3>1. CASE kind = "finished"
      BY <1>4, <2>2, <2>3, <3>1 DEF ReportFits
    <3>2. CASE kind = "cooldown"
      BY <1>3, <1>4, <2>1, <2>2, <3>2 DEF ReportFits
    <3> QED
      BY <3>1, <3>2
  <2> QED
    BY <2>5, <2>6, <2>7, <2>8, <2>9
<1> QED
  BY <1>5, <1>7 DEF GameTabInv

LEMMA GameTabSteps == ASSUME GameTabInv, GameTabNext PROVE GameTabInv'
BY ClickingHolds, AbortingHolds, LeavingHolds, TimeHolds, PageCoolingHolds, TakingStartHolds, StartingSessionHolds,
   StartLosingHolds, WinningHolds, WinTellingHolds, EndingHolds, HearingStartedHolds, HearingOtherHolds, ClosingHolds
   DEF GameTabNext

LEMMA GameTabStays == ASSUME GameTabInv, UNCHANGED gameTabVars PROVE GameTabInv'
<1>1. UNCHANGED <<view, toServer, toPage, live, cooling, startsDue, winsDue, starts, tabLuck>>
  BY DEF gameTabVars
<1> QED
  BY <1>1, GameTabFacts, CoolingHolds

LEMMA GameTabHolds == GameTabInv => GameTabTypeOK /\ BoardIsLive /\ ReportIsFinal
<1> SUFFICES ASSUME GameTabInv PROVE BoardIsLive /\ ReportIsFinal
  BY GameTabTypes DEF GameTabInv
<1>1. BoardIsLive
  BY DEF GameTabInv, BoardFits, BoardIsLive, Pending, PlacesOf
<1>2. ReportIsFinal
  BY StartsAreDue DEF GameTabInv, ReportFits, ReportIsFinal, Pending, PlacesOf
<1> QED
  BY <1>1, <1>2

\* A board that is shown is of the game chosen and can be played, or its end
\* is on the way, and no game goes on behind a report; unless a start was
\* sent beside another, or beside a win that is written, or the socket was
\* closed or the database failed.
THEOREM GamesAreShown == GameTabSpec => [](GameTabTypeOK /\ BoardIsLive /\ ReportIsFinal)
<1>1. GameTabInit => GameTabInv
  BY GameTabBegins
<1>2. GameTabInv /\ [GameTabNext]_gameTabVars => GameTabInv'
  BY GameTabSteps, GameTabStays
<1> QED
  BY <1>1, <1>2, GameTabHolds, PTL DEF GameTabSpec

-----------------------------------------------------------------------------
(* The lists of machines and items.                                         *)

Dones == {Done[op] : op \in Ops}
Changing == {c \in Calls : rcall[c] \in Ops}

\* Each change of a list was asked for, and no answer is ahead of the server.
ServedInv ==
    /\ changes \in Versions
    /\ \A l \in Lists : served[l] + Cardinality(Changing) <= changes
    /\ \A l \in Lists, v \in Versions : answers[l][v] > 0 => v <= served[l]
    /\ \A l \in Lists : lists[l] <= served[l]

\* A list that is old is on its way, or about to be fetched.
OnItsWay(l) ==
    \/ lists[l] = served[l] \/ toFetch[l] > 0 \/ answers[l][served[l]] > 0 \/ updates > 0
    \/ \E c \in Calls : rcall[c] \in Dones /\ l \in FetchesAfter(rcall[c])

ListsInv == RackPageTypeOK /\ ServedInv /\ (rluck = {} => \A l \in Lists : OnItsWay(l))

LEMMA Outcomes ==
    /\ Done["install"] = "installed" /\ Done["move"] = "moved" /\ Done["remove"] = "removed" /\ Done["buy"] = "bought"
    /\ Dones = {"installed", "moved", "removed", "bought"}
    /\ FetchesAfter("moved") = {"machines"}
    /\ \A d \in Dones \ {"moved"} : FetchesAfter(d) = Lists
    /\ \A op \in Ops : Done[op] \in Dones /\ Done[op] \notin Ops
    /\ "idle" \notin Ops \cup Dones /\ "refused" \notin Ops \cup Dones /\ "unsold" \notin Ops \cup Dones
<1>1. Done["install"] = "installed" /\ Done["move"] = "moved" /\ Done["remove"] = "removed" /\ Done["buy"] = "bought"
  BY DEF Done, Ops
<1>2. Dones = {"installed", "moved", "removed", "bought"}
  BY <1>1 DEF Dones, Ops
<1> QED
  BY <1>1, <1>2 DEF FetchesAfter, Ops

LEMMA RackVersions ==
    /\ MaxChanges \in Nat /\ 0 \in Versions /\ \A v \in Versions : v \in Nat /\ v <= MaxChanges
    /\ \A n \in Nat : n <= MaxChanges => n \in Versions
BY RackPageAssumption DEF Versions

LEMMA RackPageBegins == RackPageInit => ListsInv
<1> SUFFICES ASSUME RackPageInit PROVE ListsInv
  OBVIOUS
<1>1. /\ served = [l \in Lists |-> 0] /\ lists = [l \in Lists |-> 0] /\ toFetch = [l \in Lists |-> 0]
      /\ answers = [l \in Lists |-> [v \in Versions |-> 0]] /\ rcall = [c \in Calls |-> "idle"]
      /\ updates = 0 /\ inRoom = TRUE /\ buying = FALSE /\ changes = 0 /\ rluck = {}
  BY DEF RackPageInit
<1>2. RackPageTypeOK
  <2>1. served \in [Lists -> Versions] /\ lists \in [Lists -> Versions] /\ changes \in Versions
    BY <1>1, RackVersions
  <2>2. toFetch \in [Lists -> Nat] /\ answers \in [Lists -> [Versions -> Nat]]
    BY <1>1
  <2>3. rcall \in [Calls -> {"idle", "refused", "unsold"} \cup Ops \cup {Done[op] : op \in Ops}]
    BY <1>1
  <2>4. updates \in Nat /\ inRoom \in BOOLEAN /\ buying \in BOOLEAN /\ rluck \subseteq {"crossed", "lost", "untold"}
    BY <1>1
  <2> QED
    BY <2>1, <2>2, <2>3, <2>4 DEF RackPageTypeOK
<1>3. ServedInv
  <2>1. Changing = {}
    BY <1>1, Outcomes DEF Changing
  <2>2. Cardinality(Changing) = 0
    BY <2>1, FS_EmptySet
  <2>3. \A l \in Lists : served[l] = 0 /\ lists[l] = 0 /\ \A v \in Versions : answers[l][v] = 0
    BY <1>1
  <2> QED
    BY <1>1, <2>2, <2>3, RackVersions DEF ServedInv
<1>4. \A l \in Lists : OnItsWay(l)
  BY <1>1 DEF OnItsWay
<1> QED
  BY <1>2, <1>3, <1>4 DEF ListsInv

\* What is so of the lists and the calls.
LEMMA RackFacts ==
    ASSUME ListsInv
    PROVE  /\ changes \in Nat /\ changes <= MaxChanges /\ MaxChanges \in Nat /\ updates \in Nat
           /\ Cardinality(Changing) \in Nat /\ Changing \in SUBSET Calls
           /\ \A l \in Lists : /\ served[l] \in Versions /\ served[l] \in Nat /\ lists[l] \in Nat /\ toFetch[l] \in Nat
                               /\ served[l] + Cardinality(Changing) <= changes /\ lists[l] <= served[l]
                               /\ \A v \in Versions : answers[l][v] \in Nat /\ (answers[l][v] > 0 => v <= served[l])
           /\ rcall \in [Calls -> {"idle", "refused", "unsold"} \cup Ops \cup Dones]
<1>1. Changing \in SUBSET Calls
  BY DEF Changing
<1>2. Cardinality(Changing) \in Nat
  BY <1>1, CallsAreCounted
<1> QED
  BY <1>1, <1>2, RackVersions DEF ListsInv, RackPageTypeOK, ServedInv, Dones

\* A call that is not changing ends or goes on without changing; the lists
\* served, shown and answered are as they were.
LEMMA ChangingStays ==
    ASSUME ListsInv, NEW c \in Calls, NEW r, r \notin Ops, rcall[c] \notin Ops, rcall' = [rcall EXCEPT ![c] = r]
    PROVE  Changing' = Changing
BY RackFacts DEF Changing

LEMMA ClickChanges == ASSUME ListsInv, NEW c \in Calls, ClicksChange(c) PROVE ListsInv'
<1>1. PICK op \in Ops :
        /\ rcall[c] = "idle" /\ changes < MaxChanges /\ changes' = changes + 1
        /\ rcall' = [rcall EXCEPT ![c] = op] /\ buying' = (buying \/ op = "buy")
        /\ UNCHANGED <<served, lists, toFetch, answers, updates, inRoom, rluck>>
  BY DEF ClicksChange
<1>2. c \notin Changing /\ Changing' = Changing \cup {c}
  BY <1>1, RackFacts, Outcomes DEF Changing
<1>3. Cardinality(Changing') = Cardinality(Changing) + 1
  <2>1. IsFiniteSet(Changing)
    BY RackFacts, CallsAreCounted
  <2> QED
    BY <1>2, <2>1, FS_AddElement
<1>4. RackPageTypeOK'
  <2>1. changes' \in Versions
    BY <1>1, RackFacts, RackVersions
  <2>2. rcall' \in [Calls -> {"idle", "refused", "unsold"} \cup Ops \cup {Done[o] : o \in Ops}]
    BY <1>1 DEF ListsInv, RackPageTypeOK
  <2>3. buying' \in BOOLEAN
    BY <1>1
  <2> QED
    BY <1>1, <2>1, <2>2, <2>3 DEF ListsInv, RackPageTypeOK
<1>5. ServedInv'
  <2>1. \A l \in Lists : served[l] + Cardinality(Changing') <= changes'
    BY <1>1, <1>3, RackFacts
  <2> QED
    BY <1>1, <1>4, <2>1 DEF ListsInv, ServedInv, RackPageTypeOK
<1>6. rluck' = {} => \A l \in Lists : OnItsWay(l)'
  BY <1>1, Outcomes, RackFacts DEF ListsInv, OnItsWay
<1> QED
  BY <1>4, <1>5, <1>6 DEF ListsInv

LEMMA ServingHolds == ASSUME ListsInv, NEW c \in Calls, ServerChanges(c) PROVE ListsInv'
<1>1. PICK b \in [Lists -> {0, 1}], r \in {"refused", "unsold"} \cup Dones :
        /\ rcall[c] \in Ops /\ rcall' = [rcall EXCEPT ![c] = r]
        /\ served' \in [Lists -> Int] /\ \A l \in Lists : served'[l] = served[l] + b[l]
        /\ updates' \in Nat /\ updates' >= updates /\ rluck \subseteq rluck' /\ rluck' \subseteq rluck \cup {"untold"}
        /\ UNCHANGED <<lists, toFetch, answers, inRoom, buying, changes>>
        /\ rluck' = {} => \A l \in Lists : b[l] = 1 => updates' > 0 \/ (r \in Dones /\ l \in FetchesAfter(r))
  <2> DEFINE op == rcall[c]
  <2>1. op \in Ops /\ UNCHANGED <<lists, toFetch, answers, inRoom, buying, changes>>
    BY DEF ServerChanges
  <2>2. CASE /\ rcall' = [rcall EXCEPT ![c] = IF op = "buy" THEN "unsold" ELSE "refused"]
             /\ UNCHANGED <<served, updates, rluck>>
    <3> DEFINE b == [l \in Lists |-> 0]
               r == IF op = "buy" THEN "unsold" ELSE "refused"
    <3>1. b \in [Lists -> {0, 1}] /\ r \in {"refused", "unsold"} \cup Dones /\ \A l \in Lists : b[l] = 0
      OBVIOUS
    <3>2. served' \in [Lists -> Int] /\ (\A l \in Lists : served'[l] = served[l] + b[l]) /\ updates' \in Nat /\ updates' >= updates
      BY <2>2, <3>1, RackFacts, RackVersions DEF ListsInv, RackPageTypeOK
    <3> HIDE DEF b, r
    <3>3. rcall' = [rcall EXCEPT ![c] = r]
      BY <2>2 DEF r
    <3>4. rluck' = {} => \A l \in Lists : b[l] = 1 => updates' > 0 \/ (r \in Dones /\ l \in FetchesAfter(r))
      BY <3>1
    <3>5. rluck \subseteq rluck' /\ rluck' \subseteq rluck \cup {"untold"}
      BY <2>2
    <3> QED
      BY <2>1, <3>1, <3>2, <3>3, <3>4, <3>5
  <2>3. ASSUME NEW ls \in Changes(op), served' = Plus(served, Bump(ls)),
               \/ /\ rcall' = [rcall EXCEPT ![c] = Done[op]]
                  /\ updates' = updates + (IF op # "buy" /\ inRoom THEN 1 ELSE 0)
                  /\ rluck' = rluck \cup IF op = "move" /\ ~inRoom THEN {"untold"} ELSE {}
               \/ /\ rcall' = [rcall EXCEPT ![c] = "refused"]
                  /\ rluck' = rluck \cup {"untold"}
                  /\ UNCHANGED updates
        PROVE  \E b \in [Lists -> {0, 1}], r \in {"refused", "unsold"} \cup Dones :
                 /\ rcall[c] \in Ops /\ rcall' = [rcall EXCEPT ![c] = r]
                 /\ served' \in [Lists -> Int] /\ \A l \in Lists : served'[l] = served[l] + b[l]
                 /\ updates' \in Nat /\ updates' >= updates /\ rluck \subseteq rluck' /\ rluck' \subseteq rluck \cup {"untold"}
                 /\ UNCHANGED <<lists, toFetch, answers, inRoom, buying, changes>>
                 /\ rluck' = {} => \A l \in Lists : b[l] = 1 => updates' > 0 \/ (r \in Dones /\ l \in FetchesAfter(r))
    <3>1. Bump(ls) \in [Lists -> {0, 1}] /\ \A l \in Lists : Bump(ls)[l] = 1 <=> l \in ls
      BY DEF Bump
    <3>2. PICK b \in [Lists -> {0, 1}] : b = Bump(ls)
      BY <3>1
    <3>3. served' \in [Lists -> Int] /\ \A l \in Lists : served'[l] = served[l] + b[l]
      BY <2>3, <3>2, RackFacts DEF Plus
    <3>4. updates' \in Nat /\ updates' >= updates /\ rluck \subseteq rluck' /\ rluck' \subseteq rluck \cup {"untold"}
      BY <2>3, RackFacts
    <3>5. CASE rcall' = [rcall EXCEPT ![c] = "refused"] /\ rluck' = rluck \cup {"untold"}
      BY <2>1, <3>3, <3>4, <3>5
    <3>6. CASE /\ rcall' = [rcall EXCEPT ![c] = Done[op]]
               /\ updates' = updates + (IF op # "buy" /\ inRoom THEN 1 ELSE 0)
               /\ rluck' = rluck \cup IF op = "move" /\ ~inRoom THEN {"untold"} ELSE {}
      <4>1. PICK r \in Dones : r = Done[op]
        BY <2>1, Outcomes
      <4>2. ASSUME rluck' = {}, NEW l \in Lists, b[l] = 1 PROVE updates' > 0 \/ l \in FetchesAfter(r)
        <5>1. CASE op = "move"
          BY <3>6, <4>2, <5>1, RackFacts
        <5>2. CASE op # "move"
          <6>1. r # "moved"
            BY <2>1, <4>1, <5>2, Outcomes DEF Ops
          <6> QED
            BY <6>1, <4>1, Outcomes
        <5> QED
          BY <5>1, <5>2
      <4> QED
        BY <2>1, <3>3, <3>4, <3>6, <4>1, <4>2
    <3> QED
      BY <2>3, <3>5, <3>6
  <2> QED
    BY <2>1, <2>2, <2>3 DEF ServerChanges
<1>2. c \in Changing /\ Changing' = Changing \ {c} /\ r \notin Ops
  <2>1. r \notin Ops
    BY Outcomes DEF Ops
  <2> QED
    BY <1>1, <2>1, RackFacts DEF Changing
<1>3. Cardinality(Changing') = Cardinality(Changing) - 1 /\ Cardinality(Changing') \in Nat
  BY <1>2, RackFacts, OneFewer
<1>4. \A l \in Lists : /\ served'[l] \in Nat /\ served'[l] + Cardinality(Changing') <= changes
                       /\ served[l] <= served'[l] /\ served'[l] \in Versions
                       /\ b[l] = 0 => served'[l] = served[l]
                       /\ b[l] \in {0, 1}
  BY <1>1, <1>3, RackFacts, RackVersions
<1>5. RackPageTypeOK'
  <2>1. served' \in [Lists -> Versions]
    BY <1>1, <1>4
  <2>2. rcall' \in [Calls -> {"idle", "refused", "unsold"} \cup Ops \cup {Done[o] : o \in Ops}]
    BY <1>1 DEF ListsInv, RackPageTypeOK, Dones
  <2>3. rluck' \subseteq {"crossed", "lost", "untold"}
    BY <1>1 DEF ListsInv, RackPageTypeOK
  <2> QED
    BY <1>1, <2>1, <2>2, <2>3 DEF ListsInv, RackPageTypeOK
<1>6. ServedInv'
  <2>1. \A l \in Lists, v \in Versions : answers[l][v] > 0 => v <= served'[l]
    BY <1>4, RackFacts, RackVersions
  <2>2. \A l \in Lists : lists[l] <= served'[l]
    BY <1>4, RackFacts
  <2> QED
    BY <1>1, <1>4, <2>1, <2>2 DEF ListsInv, ServedInv
<1>7. rluck' = {} => \A l \in Lists : OnItsWay(l)'
  <2> SUFFICES ASSUME rluck' = {}, NEW l \in Lists
               PROVE  \/ lists[l] = served'[l] \/ toFetch[l] > 0 \/ answers[l][served'[l]] > 0 \/ updates' > 0
                      \/ \E d \in Calls : rcall'[d] \in Dones /\ l \in FetchesAfter(rcall'[d])
    BY <1>1 DEF OnItsWay
  <2>1. rcall'[c] = r /\ \A d \in Calls : d # c => rcall'[d] = rcall[d]
    BY <1>1, RackFacts
  <2>2. CASE b[l] = 1
    BY <1>1, <2>1, <2>2
  <2>3. CASE b[l] = 0
    <3>1. OnItsWay(l) /\ served'[l] = served[l]
      BY <1>1, <1>4, <2>3 DEF ListsInv
    <3>2. updates > 0 => updates' > 0
      BY <1>1, RackFacts
    <3>3. ASSUME NEW d \in Calls, rcall[d] \in Dones, l \in FetchesAfter(rcall[d]) PROVE d # c
      BY <1>1, <3>3, Outcomes DEF Ops
    <3> QED
      BY <2>1, <3>1, <3>2, <3>3 DEF OnItsWay
  <2> QED
    BY <1>4, <2>2, <2>3
<1> QED
  BY <1>5, <1>6, <1>7 DEF ListsInv

\* What a step that serves and numbers nothing keeps.
LEMMA ServedStays ==
    ASSUME ListsInv, Changing' = Changing, UNCHANGED <<served, lists, answers, changes>>
    PROVE  ServedInv'
BY DEF ListsInv, ServedInv

LEMMA AnsweringHolds == ASSUME ListsInv, NEW c \in Calls, ChangeAnswered(c) PROVE ListsInv'
<1>1. /\ rcall[c] \in Dones /\ rcall' = [rcall EXCEPT ![c] = "idle"]
      /\ toFetch' = Plus(toFetch, Bump(FetchesAfter(rcall[c])))
      /\ buying' = (buying /\ rcall[c] # "bought")
      /\ UNCHANGED <<served, lists, answers, updates, inRoom, changes, rluck>>
  BY DEF ChangeAnswered, Asks, Dones
<1>2. /\ toFetch' \in [Lists -> Nat] /\ \A l \in Lists : toFetch'[l] >= toFetch[l]
      /\ \A l \in FetchesAfter(rcall[c]) : l \in Lists => toFetch'[l] > 0
  BY <1>1, RackFacts DEF Plus, Bump
<1>3. RackPageTypeOK'
  <2>1. rcall' \in [Calls -> {"idle", "refused", "unsold"} \cup Ops \cup {Done[op] : op \in Ops}]
    BY <1>1 DEF ListsInv, RackPageTypeOK
  <2>2. buying' \in BOOLEAN
    BY <1>1
  <2> QED
    BY <1>1, <1>2, <2>1, <2>2 DEF ListsInv, RackPageTypeOK
<1>4. ServedInv'
  <2>1. Changing' = Changing
    <3>1. rcall[c] \notin Ops /\ "idle" \notin Ops
      BY <1>1, Outcomes DEF Ops
    <3> QED
      BY <1>1, <3>1, ChangingStays
  <2> QED
    BY <1>1, <2>1, ServedStays
<1>5. rluck' = {} => \A l \in Lists : OnItsWay(l)'
  <2> SUFFICES ASSUME rluck' = {}, NEW l \in Lists PROVE OnItsWay(l)'
    OBVIOUS
  <2>1. OnItsWay(l)
    BY <1>1 DEF ListsInv
  <2>2. rcall'[c] = "idle" /\ \A d \in Calls : d # c => rcall'[d] = rcall[d]
    BY <1>1, RackFacts
  <2>3. toFetch[l] > 0 => toFetch'[l] > 0
    BY <1>2, RackFacts
  <2> QED
    BY <1>1, <1>2, <2>1, <2>2, <2>3 DEF OnItsWay
<1> QED
  BY <1>3, <1>4, <1>5 DEF ListsInv

LEMMA RefusingHolds == ASSUME ListsInv, NEW c \in Calls, RefusalAnswered(c) PROVE ListsInv'
<1>1. /\ rcall[c] \in {"refused", "unsold"} /\ rcall' = [rcall EXCEPT ![c] = "idle"]
      /\ buying' = (buying /\ rcall[c] # "unsold")
      /\ UNCHANGED <<served, lists, toFetch, answers, updates, inRoom, changes, rluck>>
  BY DEF RefusalAnswered
<1>2. RackPageTypeOK'
  <2>1. rcall' \in [Calls -> {"idle", "refused", "unsold"} \cup Ops \cup {Done[op] : op \in Ops}]
    BY <1>1 DEF ListsInv, RackPageTypeOK
  <2>2. buying' \in BOOLEAN
    BY <1>1
  <2> QED
    BY <1>1, <2>1, <2>2 DEF ListsInv, RackPageTypeOK
<1>3. ServedInv'
  <2>1. Changing' = Changing
    BY <1>1, ChangingStays, Outcomes
  <2> QED
    BY <1>1, <2>1, ServedStays
<1>4. rluck' = {} => \A l \in Lists : OnItsWay(l)'
  <2> SUFFICES ASSUME rluck' = {}, NEW l \in Lists PROVE OnItsWay(l)'
    OBVIOUS
  <2>1. OnItsWay(l)
    BY <1>1 DEF ListsInv
  <2>2. rcall[c] \notin Dones /\ \A d \in Calls : d # c => rcall'[d] = rcall[d]
    BY <1>1, RackFacts, Outcomes
  <2> QED
    BY <1>1, <2>1, <2>2 DEF OnItsWay
<1> QED
  BY <1>2, <1>3, <1>4 DEF ListsInv

LEMMA HearingHolds == ASSUME ListsInv, HearsUpdate PROVE ListsInv'
<1>1. /\ updates > 0 /\ updates' = updates - 1 /\ toFetch' = Plus(toFetch, Bump(Lists))
      /\ UNCHANGED <<served, lists, answers, rcall, inRoom, buying, changes, rluck>>
  BY DEF HearsUpdate, Asks
<1>2. /\ toFetch' \in [Lists -> Nat] /\ \A l \in Lists : toFetch'[l] > 0
      /\ updates' \in Nat
  BY <1>1, RackFacts DEF Plus, Bump
<1>3. RackPageTypeOK'
  BY <1>1, <1>2 DEF ListsInv, RackPageTypeOK
<1>4. ServedInv'
  BY <1>1, ServedStays DEF Changing
<1> QED
  BY <1>2, <1>3, <1>4 DEF ListsInv, OnItsWay

LEMMA SocketHolds == ASSUME ListsInv, SocketDrops \/ SocketJoins PROVE ListsInv'
<1>1. /\ inRoom' \in BOOLEAN /\ updates' \in Nat /\ rluck' \subseteq {"crossed", "lost", "untold"}
      /\ rluck' = {} => rluck = {} /\ (updates > 0 => updates' > 0)
      /\ UNCHANGED <<served, lists, toFetch, answers, rcall, buying, changes>>
  <2>1. updates \in Nat /\ rluck \subseteq {"crossed", "lost", "untold"}
    BY DEF ListsInv, RackPageTypeOK
  <2>2. CASE SocketDrops
    <3>1. updates' = 0 /\ inRoom' = FALSE /\ rluck' = rluck \cup IF updates > 0 THEN {"untold"} ELSE {}
      BY <2>2 DEF SocketDrops
    <3>2. UNCHANGED <<served, lists, toFetch, answers, rcall, buying, changes>>
      BY <2>2 DEF SocketDrops
    <3>3. CASE updates > 0
      <4>1. rluck' = rluck \cup {"untold"}
        BY <3>1, <3>3
      <4> QED
        BY <2>1, <3>1, <3>2, <4>1
    <3>4. CASE ~(updates > 0)
      <4>1. rluck' = rluck
        BY <3>1, <3>4
      <4> QED
        BY <2>1, <3>1, <3>2, <3>4, <4>1
    <3> QED
      BY <3>3, <3>4
  <2>3. CASE SocketJoins
    BY <2>1, <2>3 DEF SocketJoins
  <2> QED
    BY <2>2, <2>3
<1>2. RackPageTypeOK'
  BY <1>1 DEF ListsInv, RackPageTypeOK
<1>3. ServedInv'
  BY <1>1, ServedStays DEF Changing
<1>4. rluck' = {} => \A l \in Lists : OnItsWay(l)'
  BY <1>1 DEF ListsInv, OnItsWay
<1> QED
  BY <1>2, <1>3, <1>4 DEF ListsInv

LEMMA ReadingHolds == ASSUME ListsInv, NEW l \in Lists, ReadsList(l) PROVE ListsInv'
<1>1. /\ toFetch[l] > 0 /\ toFetch' = [toFetch EXCEPT ![l] = toFetch[l] - 1]
      /\ answers' = [answers EXCEPT ![l] = [answers[l] EXCEPT ![served[l]] = answers[l][served[l]] + 1]]
      /\ UNCHANGED <<served, lists, rcall, updates, inRoom, buying, changes, rluck>>
  BY DEF ReadsList
<1>2. toFetch' \in [Lists -> Nat] /\ \A k \in Lists : k # l => toFetch'[k] = toFetch[k]
  BY <1>1, RackFacts DEF ListsInv, RackPageTypeOK
<1>3. answers \in [Lists -> [Versions -> Nat]] /\ answers[l] \in [Versions -> Nat] /\ served[l] \in Versions
  BY DEF ListsInv, RackPageTypeOK
<1>4. /\ answers'[l] \in [Versions -> Nat] /\ answers'[l][served[l]] = answers[l][served[l]] + 1
      /\ \A v \in Versions : v # served[l] => answers'[l][v] = answers[l][v]
      /\ \A k \in Lists : k # l => answers'[k] = answers[k]
  <2>1. PICK f \in [Versions -> Nat] : f = answers[l]
    BY <1>3
  <2>2. answers'[l] = [f EXCEPT ![served[l]] = f[served[l]] + 1]
    BY <1>1, <1>3, <2>1
  <2>3. f[served[l]] + 1 \in Nat
    BY <1>3
  <2> QED
    BY <1>1, <1>3, <2>1, <2>2, <2>3
<1>5. answers' \in [Lists -> [Versions -> Nat]]
  BY <1>1, <1>3, <1>4
<1>6. RackPageTypeOK'
  BY <1>1, <1>2, <1>5 DEF ListsInv, RackPageTypeOK
<1>7. ServedInv'
  <2>1. Changing' = Changing
    BY <1>1 DEF Changing
  <2>2. ASSUME NEW k \in Lists, NEW v \in Versions, answers'[k][v] > 0 PROVE v <= served[k]
    <3>1. CASE k = l /\ v = served[l]
      BY <3>1, RackFacts
    <3>2. CASE ~(k = l /\ v = served[l])
      BY <1>4, <2>2, <3>2, RackFacts
    <3> QED
      BY <3>1, <3>2
  <2> QED
    BY <1>1, <2>1, <2>2 DEF ListsInv, ServedInv
<1>8. rluck' = {} => \A k \in Lists : OnItsWay(k)'
  <2> SUFFICES ASSUME rluck' = {}, NEW k \in Lists PROVE OnItsWay(k)'
    OBVIOUS
  <2>1. CASE k = l
    <3>1. answers'[l][served[l]] > 0
      BY <1>3, <1>4, RackFacts
    <3> QED
      BY <1>1, <2>1, <3>1 DEF OnItsWay
  <2>2. CASE k # l
    BY <1>1, <1>2, <1>4, <2>2 DEF ListsInv, OnItsWay
  <2> QED
    BY <2>1, <2>2
<1> QED
  BY <1>6, <1>7, <1>8 DEF ListsInv

LEMMA ShowingHolds == ASSUME ListsInv, NEW l \in Lists, ListShown(l) PROVE ListsInv'
<1>1. PICK v \in Versions :
        /\ answers[l][v] > 0 /\ lists' = [lists EXCEPT ![l] = v]
        /\ answers' = [answers EXCEPT ![l] = [answers[l] EXCEPT ![v] = answers[l][v] - 1]]
        /\ rluck' = rluck \cup IF v < lists[l] THEN {"crossed"} ELSE {}
        /\ UNCHANGED <<served, toFetch, rcall, updates, inRoom, buying, changes>>
  BY DEF ListShown
<1>2. /\ answers \in [Lists -> [Versions -> Nat]] /\ answers[l] \in [Versions -> Nat] /\ served[l] \in Versions
      /\ lists \in [Lists -> Versions] /\ answers[l][v] \in Nat
  BY DEF ListsInv, RackPageTypeOK
<1>3. /\ answers'[l] \in [Versions -> Nat] /\ answers'[l][v] = answers[l][v] - 1
      /\ \A w \in Versions : w # v => answers'[l][w] = answers[l][w]
      /\ \A k \in Lists : k # l => answers'[k] = answers[k]
  <2>1. PICK f \in [Versions -> Nat] : f = answers[l]
    BY <1>2
  <2>2. answers'[l] = [f EXCEPT ![v] = f[v] - 1]
    BY <1>1, <1>2, <2>1
  <2>3. f[v] - 1 \in Nat
    BY <1>1, <2>1
  <2> QED
    BY <1>1, <1>2, <2>1, <2>2, <2>3
<1>4. lists' \in [Lists -> Versions] /\ lists'[l] = v /\ \A k \in Lists : k # l => lists'[k] = lists[k]
  BY <1>1, <1>2
<1>5. RackPageTypeOK'
  <2>1. answers' \in [Lists -> [Versions -> Nat]]
    BY <1>1, <1>2, <1>3
  <2>2. rluck' \subseteq {"crossed", "lost", "untold"}
    BY <1>1 DEF ListsInv, RackPageTypeOK
  <2> QED
    BY <1>1, <1>4, <2>1, <2>2 DEF ListsInv, RackPageTypeOK
<1>6. ServedInv'
  <2>1. Changing' = Changing
    BY <1>1 DEF Changing
  <2>2. v <= served[l]
    BY <1>1, RackFacts
  <2>3. \A k \in Lists : lists'[k] <= served[k]
    BY <1>4, <2>2, RackFacts
  <2>4. ASSUME NEW k \in Lists, NEW w \in Versions, answers'[k][w] > 0 PROVE answers[k][w] > 0
    BY <1>1, <1>3, <2>4, RackFacts
  <2>5. \A k \in Lists, w \in Versions : answers'[k][w] > 0 => w <= served[k]
    BY <2>4, RackFacts
  <2> QED
    BY <1>1, <2>1, <2>3, <2>5 DEF ListsInv, ServedInv
<1>7. rluck' = {} => \A k \in Lists : OnItsWay(k)'
  <2> SUFFICES ASSUME rluck' = {}, NEW k \in Lists PROVE OnItsWay(k)'
    OBVIOUS
  <2>1. OnItsWay(k) /\ ~(v < lists[l])
    BY <1>1 DEF ListsInv
  <2>2. CASE k # l
    BY <1>1, <1>3, <1>4, <2>1, <2>2 DEF OnItsWay
  <2>3. CASE k = l /\ v = served[l]
    BY <1>1, <1>4, <2>3 DEF OnItsWay
  <2>4. CASE k = l /\ v # served[l]
    <3>1. lists[l] # served[l]
      BY <1>1, <2>1, <2>4, RackFacts, RackVersions
    <3>2. answers'[l][served[l]] = answers[l][served[l]]
      BY <1>2, <1>3, <2>4
    <3> QED
      BY <1>1, <2>1, <2>4, <3>1, <3>2 DEF OnItsWay
  <2> QED
    BY <2>2, <2>3, <2>4
<1> QED
  BY <1>5, <1>6, <1>7 DEF ListsInv

LEMMA LosingHolds == ASSUME ListsInv, NEW l \in Lists, ListLost(l) PROVE ListsInv'
<1>1. /\ toFetch[l] > 0 /\ toFetch' = [toFetch EXCEPT ![l] = toFetch[l] - 1] /\ rluck' = rluck \cup {"lost"}
      /\ UNCHANGED <<served, lists, answers, rcall, updates, inRoom, buying, changes>>
  BY DEF ListLost
<1>2. toFetch' \in [Lists -> Nat] /\ rluck' \subseteq {"crossed", "lost", "untold"} /\ rluck' # {}
  BY <1>1, RackFacts DEF ListsInv, RackPageTypeOK
<1>3. RackPageTypeOK'
  BY <1>1, <1>2 DEF ListsInv, RackPageTypeOK
<1>4. ServedInv'
  BY <1>1, ServedStays DEF Changing
<1> QED
  BY <1>2, <1>3, <1>4 DEF ListsInv

LEMMA RackOpeningHolds == ASSUME ListsInv, OpensPage PROVE ListsInv'
<1>1. /\ toFetch' = Plus(toFetch, Bump(Lists)) /\ rluck' = {}
      /\ UNCHANGED <<served, lists, answers, rcall, updates, inRoom, buying, changes>>
  BY DEF OpensPage, Asks
<1>2. toFetch' \in [Lists -> Nat] /\ \A l \in Lists : toFetch'[l] > 0
  BY <1>1, RackFacts DEF Plus, Bump
<1>3. RackPageTypeOK'
  BY <1>1, <1>2 DEF ListsInv, RackPageTypeOK
<1>4. ServedInv'
  BY <1>1, ServedStays DEF Changing
<1> QED
  BY <1>2, <1>3, <1>4 DEF ListsInv, OnItsWay

LEMMA RackPageSteps == ASSUME ListsInv, RackPageNext PROVE ListsInv'
BY ClickChanges, ServingHolds, AnsweringHolds, RefusingHolds, HearingHolds, SocketHolds, ReadingHolds,
   ShowingHolds, LosingHolds, RackOpeningHolds DEF RackPageNext

LEMMA RackPageHolds == ListsInv => RackPageTypeOK /\ ListsCatchUp
<1> SUFFICES ASSUME ListsInv, rluck = {} /\ updates = 0 /\ \A c \in Calls : rcall[c] = "idle",
                    \A l \in Lists : toFetch[l] = 0 /\ \A v \in Versions : answers[l][v] = 0
             PROVE  lists = served
  BY DEF ListsInv, ListsCatchUp
<1>1. ASSUME NEW l \in Lists PROVE lists[l] = served[l]
  BY RackFacts, Outcomes DEF ListsInv, OnItsWay
<1> QED
  BY <1>1 DEF ListsInv, RackPageTypeOK

\* The store's lists of machines and of items are the server's once nothing
\* is under way, unless a list crossed a newer one, was lost, or a change was
\* neither answered nor told.
THEOREM RacksCatchUp == RackPageSpec => [](RackPageTypeOK /\ ListsCatchUp)
<1>1. RackPageInit => ListsInv
  BY RackPageBegins
<1>2. ListsInv /\ [RackPageNext]_rackVars => ListsInv'
  <2> SUFFICES ASSUME ListsInv, UNCHANGED rackVars PROVE ListsInv'
    BY RackPageSteps
  <2>1. UNCHANGED <<served, lists, toFetch, answers, rcall, updates, inRoom, buying, changes, rluck>>
    BY DEF rackVars
  <2>2. RackPageTypeOK' /\ Changing' = Changing
    BY <2>1 DEF ListsInv, RackPageTypeOK, Changing
  <2> QED
    BY <2>1, <2>2, ServedStays DEF ListsInv, OnItsWay
<1> QED
  BY <1>1, <1>2, RackPageHolds, PTL DEF RackPageSpec

-----------------------------------------------------------------------------
(* What the wallet page shows.                                              *)

AddressFields == {None, "typed", "saved", "account"}
WalletLoads == [pc : {"idle", "sent", "answered"}, over : BOOLEAN, began : AddressFields, upTo : Nat,
                older : SUBSET Calls, overtaken : BOOLEAN]

\* A closure takes the field for empty only if it is.
LoadsTyped ==
    /\ loads \in [Calls -> WalletLoads]
    /\ \A c \in Calls : /\ loads[c].upTo \in 0 .. done
                        /\ loads[c].older \subseteq Loads \ {c}
                        /\ loads[c].over => loads[c].began = None

\* A fetch that will show, or has, every action that has been carried out; one
\* that will not, and that no later one's answer has overtaken.
FreshLoad(c) == loads[c].pc = "sent" \/ (loads[c].pc = "answered" /\ loads[c].upTo = done)
StaleLoad(c) == loads[c].pc = "answered" /\ loads[c].upTo # done /\ ~loads[c].overtaken

\* Every action is shown and no stale answer will be; or a fetch will show all,
\* and was sent after every one that is stale.
LoadsCover ==
    \/ shown = done /\ \A d \in Calls : ~StaleLoad(d)
    \/ \E c \in Calls : FreshLoad(c) /\ \A d \in Calls : StaleLoad(d) => d \in loads[c].older

WalletInv ==
    /\ done \in 0 .. MaxDone /\ shown \in 0 .. done
    /\ answerDue \in BOOLEAN /\ saved \in BOOLEAN /\ connected \in BOOLEAN
    /\ field \in AddressFields /\ amiss \subseteq {"shown"}
    /\ LoadsTyped
    /\ "shown" \notin amiss /\ ~answerDue => LoadsCover

LEMMA SentParts ==
    \A f \in AddressFields, older \in SUBSET Calls :
        \E q \in WalletLoads : /\ q = Load("sent", Closure(f), f, 0, older, FALSE)
                               /\ q.pc = "sent" /\ (q.over => f = None) /\ q.began = f /\ q.upTo = 0
                               /\ q.older = older
<1> SUFFICES ASSUME NEW f \in AddressFields, NEW older \in SUBSET Calls
             PROVE  \E q \in WalletLoads : /\ q = Load("sent", Closure(f), f, 0, older, FALSE)
                               /\ q.pc = "sent" /\ (q.over => f = None) /\ q.began = f /\ q.upTo = 0
                               /\ q.older = older
  OBVIOUS
<1>1. PICK q : q = Load("sent", Closure(f), f, 0, older, FALSE)
  OBVIOUS
<1>2. q \in WalletLoads
  BY <1>1 DEF Load, Closure, WalletLoads
<1>3. q.pc = "sent" /\ q.began = f /\ q.upTo = 0 /\ q.older = older
  BY <1>1 DEF Load
<1>4. q.over => f = None
  BY <1>1 DEF Load, Closure
<1> QED
  BY <1>1, <1>2, <1>3, <1>4

LEMMA NoLoadParts ==
    /\ NoLoad \in WalletLoads /\ NoLoad.pc = "idle" /\ ~NoLoad.over /\ NoLoad.upTo = 0
    /\ NoLoad.older = {} /\ ~NoLoad.overtaken
<1>1. None \in AddressFields /\ {} \in SUBSET Calls
  BY DEF AddressFields
<1>2. NoLoad \in WalletLoads
  BY <1>1 DEF NoLoad, Load, WalletLoads
<1>3. NoLoad.pc = "idle" /\ NoLoad.upTo = 0 /\ NoLoad.older = {}
  BY DEF NoLoad, Load
<1>4. ~NoLoad.over /\ ~NoLoad.overtaken
  BY DEF NoLoad, Load
<1> QED
  BY <1>2, <1>3, <1>4

LEMMA LoadFacts ==
    ASSUME LoadsTyped
    PROVE  /\ loads \in [Calls -> WalletLoads] /\ Loads \subseteq Calls
           /\ \A c \in Calls : /\ loads[c] \in WalletLoads /\ loads[c].pc \in {"idle", "sent", "answered"}
                               /\ loads[c].over \in BOOLEAN /\ loads[c].overtaken \in BOOLEAN
                               /\ loads[c].began \in AddressFields /\ loads[c].upTo \in 0 .. done
                               /\ loads[c].older \subseteq Calls /\ loads[c].older \subseteq Loads \ {c}
                               /\ loads[c].over => loads[c].began = None
<1>1. loads \in [Calls -> WalletLoads] /\ Loads \subseteq Calls
  BY DEF LoadsTyped, Loads
<1>2. \A c \in Calls : /\ loads[c] \in WalletLoads /\ loads[c].pc \in {"idle", "sent", "answered"}
                       /\ loads[c].over \in BOOLEAN /\ loads[c].overtaken \in BOOLEAN
                       /\ loads[c].began \in AddressFields /\ loads[c].older \subseteq Calls
  BY <1>1 DEF WalletLoads
<1> QED
  BY <1>1, <1>2 DEF LoadsTyped

LEMMA WalletFacts ==
    ASSUME WalletInv
    PROVE  /\ done \in 0 .. MaxDone /\ done \in Nat /\ shown \in 0 .. done /\ MaxDone \in Nat
           /\ answerDue \in BOOLEAN /\ saved \in BOOLEAN /\ connected \in BOOLEAN
           /\ field \in AddressFields /\ amiss \subseteq {"shown"}
           /\ LoadsTyped /\ ("shown" \notin amiss /\ ~answerDue => LoadsCover)
BY WalletAssumption DEF WalletInv

\* A fetch that is begun covers the page: it was sent after all the others.
LEMMA FetchCovers ==
    ASSUME WalletInv, NEW c \in Calls, NEW f \in AddressFields, done' = done, NEW rest \in SUBSET Calls,
           NEW q \in WalletLoads, q.pc = "sent", q.began = f, q.over => f = None, q.upTo = 0, q.older = rest,
           loads'[c] = q, loads' \in [Calls -> WalletLoads], c \notin rest,
           \A d \in rest : loads'[d].pc # "idle",
           \A d \in Calls \ {c} : loads'[d].pc # "idle" => d \in rest,
           \A d \in Calls \ {c} : loads'[d].older \subseteq (rest \cup {c}) \ {d},
           \A d \in Calls \ {c} : loads'[d].upTo \in 0 .. done,
           \A d \in Calls \ {c} : loads'[d].over => loads'[d].began = None
    PROVE  LoadsTyped' /\ LoadsCover'
<1>4. \A d \in Calls : d \in Loads' <=> loads'[d].pc # "idle"
  BY DEF Loads
<1>5. rest \cup {c} = Loads'
  BY <1>4 DEF Loads
<1>6. LoadsTyped'
  <2>1. \A d \in Calls : loads'[d].older \subseteq Loads' \ {d}
    BY <1>5
  <2>2. \A d \in Calls : loads'[d].upTo \in 0 .. done'
    <3>1. 0 \in 0 .. done
      BY WalletFacts
    <3> QED
      BY <3>1
  <2>3. \A d \in Calls : loads'[d].over => loads'[d].began = None
    OBVIOUS
  <2> QED
    BY <2>1, <2>2, <2>3 DEF LoadsTyped
<1>7. \A d \in Calls : StaleLoad(d)' => d \in rest
  BY DEF StaleLoad
<1> QED
  BY <1>6, <1>7 DEF LoadsCover, FreshLoad

LEMMA FetchKeeps ==
    ASSUME WalletInv, NEW f \in AddressFields, fetchWalletData(f), done' = done
    PROVE  LoadsTyped' /\ LoadsCover'
<1>1. PICK c \in Calls \ Loads : loads' = [loads EXCEPT ![c] = Load("sent", Closure(f), f, 0, Loads, FALSE)]
  BY DEF fetchWalletData
<1>2. PICK rest \in SUBSET Calls : rest = Loads
  BY WalletFacts, LoadFacts
<1>4. PICK q \in WalletLoads : /\ q = Load("sent", Closure(f), f, 0, rest, FALSE)
                               /\ q.pc = "sent" /\ (q.over => f = None) /\ q.began = f /\ q.upTo = 0 /\ q.older = rest
  BY SentParts
<1>5. /\ loads' \in [Calls -> WalletLoads] /\ loads'[c] = q
      /\ \A d \in Calls : d # c => loads'[d] = loads[d]
  BY <1>1, <1>2, <1>4, WalletFacts, LoadFacts
<1>6. c \notin rest /\ \A d \in rest : d # c /\ loads'[d].pc # "idle"
  BY <1>1, <1>2, <1>5 DEF Loads
<1>7. \A d \in Calls \ {c} : /\ loads'[d].pc # "idle" => d \in rest
                             /\ loads'[d].older \subseteq (rest \cup {c}) \ {d}
                             /\ loads'[d].upTo \in 0 .. done
                             /\ loads'[d].over => loads'[d].began = None
  BY <1>1, <1>2, <1>5, WalletFacts, LoadFacts DEF Loads
<1>21. \A d \in Calls \ {c} : loads'[d].pc # "idle" => d \in rest
  BY <1>7
<1>22. \A d \in Calls \ {c} : loads'[d].older \subseteq (rest \cup {c}) \ {d}
  BY <1>7
<1>23. \A d \in Calls \ {c} : loads'[d].upTo \in 0 .. done
  BY <1>7
<1>24. \A d \in Calls \ {c} : loads'[d].over => loads'[d].began = None
  BY <1>7
<1>25. c \in Calls /\ q.pc = "sent" /\ q.began = f /\ (q.over => f = None) /\ q.upTo = 0 /\ q.older = rest
  BY <1>4
<1>26. loads'[c] = q /\ loads' \in [Calls -> WalletLoads] /\ c \notin rest
  BY <1>5, <1>6
<1>27. \A d \in rest : loads'[d].pc # "idle"
  BY <1>6
<1> QED
  BY <1>21, <1>22, <1>23, <1>24, <1>25, <1>26, <1>27, FetchCovers

\* The fetches without one.
LEMMA WithoutParts ==
    ASSUME LoadsTyped, NEW c \in Calls, NEW a \in BOOLEAN
    PROVE  /\ Without(c, a) \in [Calls -> WalletLoads] /\ Without(c, a)[c] = NoLoad
           /\ \A d \in Calls \ {c} :
                 /\ Without(c, a)[d].pc = loads[d].pc /\ Without(c, a)[d].upTo = loads[d].upTo
                 /\ (Without(c, a)[d].over <=> loads[d].over) /\ Without(c, a)[d].began = loads[d].began
                 /\ Without(c, a)[d].older = loads[d].older \ {c}
                 /\ (Without(c, a)[d].overtaken <=> (loads[d].overtaken \/ (a /\ d \in loads[c].older)))
<1>1. Without(c, a)[c] = NoLoad
  BY DEF Without
<1>2. ASSUME NEW d \in Calls \ {c}
      PROVE  /\ Without(c, a)[d] \in WalletLoads
             /\ Without(c, a)[d].pc = loads[d].pc /\ Without(c, a)[d].upTo = loads[d].upTo
             /\ (Without(c, a)[d].over <=> loads[d].over) /\ Without(c, a)[d].began = loads[d].began
             /\ Without(c, a)[d].older = loads[d].older \ {c}
             /\ (Without(c, a)[d].overtaken <=> (loads[d].overtaken \/ (a /\ d \in loads[c].older)))
  <2>1. PICK r \in WalletLoads, older \in SUBSET Calls, over \in BOOLEAN :
            r = loads[d] /\ older = r.older \ {c} /\ (over <=> (r.overtaken \/ (a /\ d \in loads[c].older)))
    <3>1. loads[d] \in WalletLoads /\ loads[d].older \ {c} \in SUBSET Calls
      BY LoadFacts
    <3> QED
      BY <3>1
  <2>2. Without(c, a)[d] = [r EXCEPT !.older = r.older \ {c}, !.overtaken = r.overtaken \/ (a /\ d \in loads[c].older)]
    BY <2>1 DEF Without
  <2>3. (r.overtaken \/ (a /\ d \in loads[c].older)) = over
    BY <2>1 DEF WalletLoads
  <2>4. Without(c, a)[d] = [r EXCEPT !.older = older, !.overtaken = over]
    BY <2>1, <2>2, <2>3
  <2>5. [r EXCEPT !.older = older, !.overtaken = over] \in WalletLoads
    BY DEF WalletLoads
  <2>6. LET s == [r EXCEPT !.older = older, !.overtaken = over]
        IN  s.pc = r.pc /\ s.upTo = r.upTo /\ (s.over <=> r.over) /\ s.began = r.began /\ s.older = older
            /\ (s.overtaken <=> over)
    BY DEF WalletLoads
  <2> QED
    BY <2>1, <2>4, <2>5, <2>6
<1>3. Without(c, a) \in [Calls -> WalletLoads]
  <2>1. \A d \in Calls : Without(c, a)[d] \in WalletLoads
    BY <1>1, <1>2, NoLoadParts
  <2>2. Without(c, a) = [d \in Calls |-> Without(c, a)[d]]
    BY DEF Without
  <2> QED
    BY <2>1, <2>2
<1> QED
  BY <1>1, <1>2, <1>3

LEMMA WithoutKeeps ==
    ASSUME WalletInv, NEW c \in Calls, NEW a \in BOOLEAN, loads' = Without(c, a), done' = done
    PROVE  LoadsTyped'
<1>1. PICK w : w = Without(c, a)
  OBVIOUS
<1>2. /\ w \in [Calls -> WalletLoads] /\ w[c] = NoLoad
      /\ \A d \in Calls \ {c} : /\ w[d].pc = loads[d].pc /\ w[d].upTo = loads[d].upTo
                                /\ (w[d].over <=> loads[d].over) /\ w[d].began = loads[d].began
                                /\ w[d].older = loads[d].older \ {c}
  BY <1>1, WalletFacts, WithoutParts
<1>3. loads' = w
  BY <1>1
<1>4. \A d \in Calls : d \in Loads' <=> d \in Loads /\ d # c
  BY <1>2, <1>3, NoLoadParts DEF Loads
<1>5. \A d \in Calls : loads'[d].older \subseteq Loads' \ {d}
  BY <1>2, <1>3, <1>4, NoLoadParts, WalletFacts, LoadFacts
<1>6. \A d \in Calls : loads'[d].upTo \in 0 .. done'
  BY <1>2, <1>3, NoLoadParts, WalletFacts, LoadFacts
<1>7. \A d \in Calls : loads'[d].over => loads'[d].began = None
  BY <1>2, <1>3, NoLoadParts, WalletFacts, LoadFacts
<1> QED
  BY <1>2, <1>3, <1>5, <1>6, <1>7 DEF LoadsTyped

LEMMA WalletBegins == WalletInit => WalletInv
<1> SUFFICES ASSUME WalletInit PROVE WalletInv
  OBVIOUS
<1>1. /\ done = 0 /\ shown = 0 /\ answerDue = FALSE /\ saved = FALSE /\ connected = FALSE
      /\ field = None /\ loads = [c \in Calls |-> NoLoad] /\ amiss = {}
  BY DEF WalletInit
<1>2. LoadsTyped
  BY <1>1, NoLoadParts DEF LoadsTyped
<1>3. LoadsCover
  BY <1>1, NoLoadParts DEF LoadsCover, StaleLoad
<1>4. done \in 0 .. MaxDone /\ shown \in 0 .. done
  BY <1>1, WalletAssumption
<1> QED
  BY <1>1, <1>2, <1>3, <1>4 DEF WalletInv, AddressFields

LEMMA WalletFetchHolds ==
    ASSUME WalletInv, Refreshes \/ TypesAddress \/ AccountFills \/ ActAnswered PROVE WalletInv'
<1>1. UNCHANGED <<done, shown, saved, connected>> /\ amiss' \subseteq {"shown"} /\ answerDue' \in BOOLEAN
  BY WalletFacts DEF Refreshes, TypesAddress, AccountFills, ActAnswered
<1>2. CASE \E f \in AddressFields : fetchWalletData(f) /\ field' = f
  <2>1. LoadsTyped' /\ LoadsCover' /\ field' \in AddressFields
    BY <1>1, <1>2, FetchKeeps
  <2> QED
    BY <1>1, <2>1, WalletFacts DEF WalletInv
<1>3. CASE amiss' = amiss \cup {"shown"} /\ UNCHANGED <<loads, field>>
  <2>1. LoadsTyped'
    BY <1>1, <1>3, WalletFacts DEF LoadsTyped, Loads
  <2> QED
    BY <1>1, <1>3, <2>1, WalletFacts DEF WalletInv
<1>4. (\E f \in AddressFields : fetchWalletData(f) /\ field' = f) \/ (amiss' = amiss \cup {"shown"} /\ UNCHANGED <<loads, field>>)
  BY WalletFacts DEF Refreshes, TypesAddress, AccountFills, ActAnswered, AddressFields
<1> QED
  BY <1>2, <1>3, <1>4

LEMMA ConnectHolds == ASSUME WalletInv, WalletConnects PROVE WalletInv'
<1>1. /\ connected' = TRUE /\ saved' \in {saved, TRUE}
      /\ UNCHANGED <<done, shown, answerDue, field, loads, amiss>>
  BY DEF WalletConnects
<1>2. LoadsTyped' /\ (LoadsCover' <=> LoadsCover)
  BY <1>1, WalletFacts DEF LoadsTyped, Loads, LoadsCover, FreshLoad, StaleLoad
<1> QED
  BY <1>1, <1>2, WalletFacts DEF WalletInv

LEMMA ServerActHolds == ASSUME WalletInv, ServerActs PROVE WalletInv'
<1>1. /\ done < MaxDone /\ done' = done + 1 /\ answerDue' = TRUE
      /\ UNCHANGED <<shown, saved, connected, field, loads, amiss>>
  BY DEF ServerActs
<1>2. done' \in 0 .. MaxDone /\ shown' \in 0 .. done'
  BY <1>1, WalletFacts
<1>3. \A c \in Calls : loads[c].upTo \in 0 .. done'
  BY <1>1, WalletFacts, LoadFacts
<1>4. LoadsTyped'
  BY <1>1, <1>3, WalletFacts DEF LoadsTyped, Loads
<1> QED
  BY <1>1, <1>2, <1>4, WalletFacts DEF WalletInv

LEMMA ServerLoadHolds == ASSUME WalletInv, NEW c \in Calls, ServerLoads(c) PROVE WalletInv'
<1>1. /\ loads[c].pc = "sent" /\ loads' = [loads EXCEPT ![c].pc = "answered", ![c].upTo = done]
      /\ UNCHANGED <<done, shown, answerDue, saved, connected, field, amiss>>
  BY DEF ServerLoads
<1>2. PICK r \in WalletLoads, n \in Nat : r = loads[c] /\ n = done
  BY WalletFacts, LoadFacts
<1>3. PICK q : q = [r EXCEPT !.pc = "answered", !.upTo = n]
  OBVIOUS
<1>4. /\ q \in WalletLoads /\ q.pc = "answered" /\ q.upTo = n /\ (q.over <=> r.over) /\ q.began = r.began
      /\ q.older = r.older
  BY <1>3 DEF WalletLoads
<1>5. loads' = [loads EXCEPT ![c] = q]
  BY <1>1, <1>2, <1>3, WalletFacts, LoadFacts
<1>6. /\ loads' \in [Calls -> WalletLoads] /\ loads'[c] = q
      /\ \A d \in Calls : d # c => loads'[d] = loads[d]
  BY <1>4, <1>5, WalletFacts, LoadFacts
<1>7. Loads' = Loads
  BY <1>1, <1>4, <1>6 DEF Loads
<1>8. LoadsTyped'
  <2>1. \A d \in Calls : loads'[d].older = loads[d].older /\ (loads'[d].over <=> loads[d].over) /\ loads'[d].began = loads[d].began
    BY <1>2, <1>4, <1>6
  <2>2. \A d \in Calls : loads'[d].upTo \in 0 .. done'
    BY <1>1, <1>2, <1>4, <1>6, WalletFacts, LoadFacts
  <2> QED
    BY <1>6, <1>7, <2>1, <2>2, WalletFacts, LoadFacts DEF LoadsTyped
<1>9. ASSUME LoadsCover PROVE LoadsCover'
  <2>1. \A d \in Calls : /\ StaleLoad(d)' => StaleLoad(d)
                         /\ FreshLoad(d) => FreshLoad(d)'
                         /\ loads'[d].older = loads[d].older
    BY <1>1, <1>2, <1>4, <1>6 DEF StaleLoad, FreshLoad
  <2> QED
    BY <1>1, <1>9, <2>1 DEF LoadsCover
<1> QED
  BY <1>1, <1>8, <1>9, WalletFacts DEF WalletInv

LEMMA LoadFailHolds == ASSUME WalletInv, NEW c \in Calls, LoadFails(c) PROVE WalletInv'
<1>1. loads' = Without(c, FALSE) /\ amiss' = amiss \cup {"shown"} /\ UNCHANGED <<done, shown, answerDue, saved, connected, field>>
  BY DEF LoadFails
<1>2. LoadsTyped'
  BY <1>1, WithoutKeeps
<1> QED
  BY <1>1, <1>2, WalletFacts DEF WalletInv

\* An answer is shown and fills nothing.
LEMMA AnswerCovers ==
    ASSUME WalletInv, NEW c \in Calls, loads[c].pc = "answered", ~loads[c].overtaken, LoadsCover,
           shown' = loads[c].upTo, done' = done, loads' = Without(c, TRUE)
    PROVE  LoadsCover'
<1>1. PICK w : w = Without(c, TRUE)
  OBVIOUS
<1>0. PICK a \in BOOLEAN : a = TRUE
  OBVIOUS
<1>9. w = Without(c, a)
  BY <1>0, <1>1
<1>8. /\ w[c] = NoLoad
      /\ \A d \in Calls \ {c} : /\ w[d].pc = loads[d].pc /\ w[d].upTo = loads[d].upTo
                                /\ w[d].older = loads[d].older \ {c}
                                /\ (w[d].overtaken <=> (loads[d].overtaken \/ (a /\ d \in loads[c].older)))
  BY <1>9, WalletFacts, WithoutParts
<1>2. /\ w[c] = NoLoad
      /\ \A d \in Calls \ {c} : /\ w[d].pc = loads[d].pc /\ w[d].upTo = loads[d].upTo
                                /\ w[d].older = loads[d].older \ {c}
                                /\ (w[d].overtaken <=> (loads[d].overtaken \/ d \in loads[c].older))
  BY <1>0, <1>8
<1>3. loads' = w
  BY <1>1
<1>4. \A d \in Calls : StaleLoad(d)' => d # c /\ StaleLoad(d) /\ d \notin loads[c].older
  BY <1>2, <1>3, NoLoadParts DEF StaleLoad
<1>5. \A d \in Calls : FreshLoad(d) /\ d # c => FreshLoad(d)' /\ loads'[d].older = loads[d].older \ {c}
  BY <1>2, <1>3 DEF FreshLoad
<1>6. CASE shown = done /\ \A d \in Calls : ~StaleLoad(d)
  <2>1. loads[c].upTo = done
    BY <1>6 DEF StaleLoad
  <2> QED
    BY <1>4, <1>6, <2>1 DEF LoadsCover
<1>7. ASSUME NEW k \in Calls, FreshLoad(k), \A d \in Calls : StaleLoad(d) => d \in loads[k].older
      PROVE  LoadsCover'
  <2>1. CASE k = c
    <3>1. loads[c].upTo = done
      BY <1>7, <2>1 DEF FreshLoad
    <3>2. \A d \in Calls : ~StaleLoad(d)'
      BY <1>4, <1>7, <2>1
    <3> QED
      BY <3>1, <3>2 DEF LoadsCover
  <2>2. CASE k # c
    BY <1>4, <1>5, <1>7, <2>2 DEF LoadsCover
  <2> QED
    BY <2>1, <2>2
<1> QED
  BY <1>6, <1>7 DEF LoadsCover

LEMMA LoadAnswerHolds == ASSUME WalletInv, NEW c \in Calls, LoadAnswered(c) PROVE WalletInv'
<1>1. PICK fills \in BOOLEAN : fills <=> (loads[c].over /\ saved /\ field # "saved")
  OBVIOUS
<1>2. /\ loads[c].pc = "answered" /\ shown' = loads[c].upTo /\ field' = (IF fills THEN "saved" ELSE field)
      /\ loads' = (IF fills THEN [Without(c, TRUE) EXCEPT ![c] = Load("sent", Closure("saved"), "saved", 0, Loads \ {c}, FALSE)]
                   ELSE Without(c, TRUE))
      /\ amiss' = amiss \cup (IF loads[c].overtaken THEN {"shown"} ELSE {})
                        \cup (IF fills /\ field = "typed" /\ loads[c].began = "typed" THEN {"field"} ELSE {})
      /\ UNCHANGED <<done, answerDue, saved, connected>>
  BY <1>1 DEF LoadAnswered
<1>3. fills => loads[c].began # "typed"
  BY <1>1, WalletFacts, LoadFacts, WalletAssumption
<1>4. /\ amiss' \subseteq {"shown"} /\ amiss \subseteq amiss' /\ (loads[c].overtaken => "shown" \in amiss')
      /\ field' \in AddressFields
  BY <1>2, <1>3, WalletFacts DEF AddressFields
<1>5. shown' \in 0 .. done'
  BY <1>2, WalletFacts, LoadFacts
<1>6. CASE ~fills
  <2>1. LoadsTyped'
    BY <1>2, <1>6, WithoutKeeps
  <2>2. "shown" \notin amiss' /\ ~answerDue' => LoadsCover'
    BY <1>2, <1>4, <1>6, WalletFacts, AnswerCovers
  <2> QED
    BY <1>2, <1>4, <1>5, <2>1, <2>2, WalletFacts DEF WalletInv
<1>7. CASE fills
  <2>1. PICK w : w = Without(c, TRUE)
    OBVIOUS
  <2>2. /\ w \in [Calls -> WalletLoads]
        /\ \A d \in Calls \ {c} : /\ w[d].pc = loads[d].pc /\ w[d].upTo = loads[d].upTo
                                  /\ (w[d].over <=> loads[d].over) /\ w[d].began = loads[d].began
                                  /\ w[d].older = loads[d].older \ {c}
    BY <2>1, WalletFacts, WithoutParts
  <2>3. PICK rest \in SUBSET Calls : rest = Loads \ {c}
    BY WalletFacts, LoadFacts
  <2>4. PICK f \in AddressFields : f = "saved"
    BY DEF AddressFields
  <2>6. PICK q \in WalletLoads : /\ q = Load("sent", Closure(f), f, 0, rest, FALSE)
                               /\ q.pc = "sent" /\ (q.over => f = None) /\ q.began = f /\ q.upTo = 0 /\ q.older = rest
    BY SentParts
  <2>7. loads' = [w EXCEPT ![c] = q]
    BY <1>2, <1>7, <2>1, <2>3, <2>4, <2>6
  <2>8. /\ loads' \in [Calls -> WalletLoads] /\ loads'[c] = q
        /\ \A d \in Calls : d # c => loads'[d] = w[d]
    BY <2>2, <2>7
  <2>9. c \notin rest /\ \A d \in rest : loads'[d].pc # "idle"
    BY <2>2, <2>3, <2>8 DEF Loads
  <2>10. \A d \in Calls \ {c} : /\ loads'[d].pc # "idle" => d \in rest
                                /\ loads'[d].older \subseteq (rest \cup {c}) \ {d}
                                /\ loads'[d].upTo \in 0 .. done
                                /\ loads'[d].over => loads'[d].began = None
    BY <2>2, <2>3, <2>8, WalletFacts, LoadFacts DEF Loads
  <2>21. \A d \in Calls \ {c} : loads'[d].pc # "idle" => d \in rest
    BY <2>10
  <2>22. \A d \in Calls \ {c} : loads'[d].older \subseteq (rest \cup {c}) \ {d}
    BY <2>10
  <2>23. \A d \in Calls \ {c} : loads'[d].upTo \in 0 .. done
    BY <2>10
  <2>24. \A d \in Calls \ {c} : loads'[d].over => loads'[d].began = None
    BY <2>10
  <2>25. done' = done /\ q.pc = "sent" /\ q.began = f /\ (q.over => f = None) /\ q.upTo = 0 /\ q.older = rest
    BY <1>2, <2>6
  <2>26. loads'[c] = q /\ loads' \in [Calls -> WalletLoads] /\ c \notin rest
    BY <2>8, <2>9
  <2>27. \A d \in rest : loads'[d].pc # "idle"
    BY <2>9
  <2>11. LoadsTyped' /\ LoadsCover'
    BY <2>21, <2>22, <2>23, <2>24, <2>25, <2>26, <2>27, FetchCovers
  <2> QED
    BY <1>2, <1>4, <1>5, <2>11, WalletFacts DEF WalletInv
<1> QED
  BY <1>6, <1>7

\* The page shows every action that has been answered, and what the user types
\* is not replaced by what was fetched with it there.
THEOREM WalletShows == WalletSpec => [](WalletTypeOK /\ ActionsAreShown /\ TypedIsKept)
<1>1. ASSUME WalletInv, [WalletNext]_walletVars PROVE WalletInv'
  <2>1. CASE UNCHANGED walletVars
    <3>1. UNCHANGED <<done, shown, answerDue, saved, connected, field, loads, amiss>>
      BY <2>1 DEF walletVars
    <3>2. LoadsTyped' /\ (LoadsCover' <=> LoadsCover)
      BY <1>1, <3>1, WalletFacts DEF LoadsTyped, Loads, LoadsCover, FreshLoad, StaleLoad
    <3> QED
      BY <1>1, <3>1, <3>2, WalletFacts DEF WalletInv
  <2> QED
    BY <1>1, <2>1, WalletFetchHolds, ConnectHolds, ServerActHolds, ServerLoadHolds, LoadAnswerHolds, LoadFailHolds
    DEF WalletNext
<1>2. ASSUME WalletInv PROVE WalletTypeOK /\ ActionsAreShown /\ TypedIsKept
  <2>1. WalletTypeOK
    BY <1>2, WalletFacts, LoadFacts DEF WalletTypeOK, AddressFields
  <2>2. ActionsAreShown
    <3>1. SUFFICES ASSUME Loads = {}, ~answerDue, "shown" \notin amiss PROVE shown = done
      BY DEF ActionsAreShown
    <3>2. \A c \in Calls : loads[c].pc = "idle"
      BY <3>1 DEF Loads
    <3> QED
      BY <1>2, <3>1, <3>2, WalletFacts DEF LoadsCover, FreshLoad
  <2> QED
    BY <1>2, <2>1, <2>2, WalletFacts DEF TypedIsKept
<1> QED
  BY WalletBegins, <1>1, <1>2, PTL DEF WalletSpec

-----------------------------------------------------------------------------
(* The wallet page's actions.                                               *)

WalletActs == [pc : {"idle", "wallet", "posted"}, op : {"none", "withdraw", "auto", "manual", "resync"},
               of : Hashes \cup {None}]
TicketForms == [hashes : SUBSET Hashes, sending : SUBSET Hashes, busy : BOOLEAN]

ActFits(q) == /\ q.pc = "wallet" => q.op = "auto"
              /\ q.of \in (IF q.op = "manual" THEN Hashes ELSE {None})

FormTyped ==
    /\ acts \in [Calls -> WalletActs] /\ \A c \in Calls : ActFits(acts[c])
    /\ wallet \in {"off", "elsewhere", "ready"}
    /\ hash \in Hashes \cup {None} /\ ticket \in TicketForms
    /\ failed \subseteq Hashes /\ wiped \subseteq Hashes /\ isActionLoading \in BOOLEAN

\* One action at a time, under the busy flag, and a transfer is of that action.
OneActs ==
    /\ \A c, d \in Calls : acts[c] # NoAct /\ acts[d] # NoAct => c = d
    /\ FlagFollowsActions
    /\ transfers \subseteq {c \in Calls : acts[c].pc = "posted"}

FormInv == FormTyped /\ OneActs /\ FailedIsInTicket

LEMMA ActParts ==
    /\ NoAct \in WalletActs /\ ActFits(NoAct) /\ NoAct.pc = "idle" /\ NoAct.op = "none" /\ NoAct.of = None
    /\ \A op \in {"withdraw", "auto", "manual", "resync"}, of \in Hashes \cup {None} :
          of \in (IF op = "manual" THEN Hashes ELSE {None}) =>
             \E q \in WalletActs : q = Act("posted", op, of) /\ q # NoAct /\ ActFits(q)
    /\ \E q \in WalletActs : q = Act("wallet", "auto", None) /\ q # NoAct /\ ActFits(q)
<1>1. NoAct \in WalletActs /\ ActFits(NoAct) /\ NoAct.pc = "idle" /\ NoAct.op = "none" /\ NoAct.of = None
  BY DEF NoAct, Act, WalletActs, ActFits
<1>2. ASSUME NEW op \in {"withdraw", "auto", "manual", "resync"}, NEW of \in Hashes \cup {None},
             of \in (IF op = "manual" THEN Hashes ELSE {None})
      PROVE  \E q \in WalletActs : q = Act("posted", op, of) /\ q # NoAct /\ ActFits(q)
  <2>1. Act("posted", op, of) \in WalletActs /\ ActFits(Act("posted", op, of)) /\ Act("posted", op, of).pc = "posted"
    BY <1>2 DEF Act, WalletActs, ActFits
  <2> QED
    BY <1>1, <2>1
<1>3. \E q \in WalletActs : q = Act("wallet", "auto", None) /\ q # NoAct /\ ActFits(q)
  <2>1. /\ Act("wallet", "auto", None) \in WalletActs /\ ActFits(Act("wallet", "auto", None))
        /\ Act("wallet", "auto", None).pc = "wallet"
    BY DEF Act, WalletActs, ActFits
  <2> QED
    BY <1>1, <2>1
<1> QED
  BY <1>1, <1>2, <1>3

LEMMA FormFacts ==
    ASSUME FormInv
    PROVE  /\ acts \in [Calls -> WalletActs] /\ transfers \subseteq Calls
           /\ \A c \in Calls : acts[c] \in WalletActs /\ ActFits(acts[c]) /\ acts[c].of \in Hashes \cup {None}
           /\ wallet \in {"off", "elsewhere", "ready"}
           /\ hash \in Hashes \cup {None} /\ ticket \in TicketForms
           /\ ticket.hashes \subseteq Hashes /\ ticket.sending \subseteq Hashes /\ ticket.busy \in BOOLEAN
           /\ failed \subseteq Hashes /\ wiped \subseteq Hashes /\ isActionLoading \in BOOLEAN
           /\ OneActs /\ failed \subseteq ticket.hashes \cup wiped
BY DEF FormInv, FormTyped, OneActs, FailedIsInTicket, WalletActs, TicketForms

\* One action begins, goes on or ends.
LEMMA ActStep ==
    ASSUME FormInv, NEW c \in Calls, NEW q \in WalletActs, ActFits(q), acts' = [acts EXCEPT ![c] = q],
           acts[c] # NoAct \/ \A d \in Calls : acts[d] = NoAct,
           isActionLoading' <=> q # NoAct, isActionLoading' \in BOOLEAN,
           transfers' \subseteq transfers \cup {c}, q.pc # "posted" => c \notin transfers'
    PROVE  /\ acts' \in [Calls -> WalletActs] /\ \A d \in Calls : ActFits(acts'[d])
           /\ OneActs'
<1>1. acts' \in [Calls -> WalletActs] /\ acts'[c] = q /\ \A d \in Calls : d # c => acts'[d] = acts[d]
  BY FormFacts
<1>2. \A d \in Calls : d # c => acts[d] = NoAct
  BY FormFacts DEF OneActs
<1>3. \A d \in Calls : acts'[d] # NoAct => d = c
  BY <1>1, <1>2
<1>4. FlagFollowsActions'
  BY <1>1, <1>3 DEF FlagFollowsActions
<1>5. transfers' \subseteq {d \in Calls : acts'[d].pc = "posted"}
  <2>1. transfers \subseteq {c}
    BY <1>2, ActParts, FormFacts DEF OneActs
  <2> QED
    BY <1>1, <2>1
<1>6. \A d \in Calls : ActFits(acts'[d])
  BY <1>1, FormFacts
<1> QED
  BY <1>1, <1>3, <1>4, <1>5, <1>6 DEF OneActs

LEMMA FormBegins == FormInit => FormInv
<1> SUFFICES ASSUME FormInit PROVE FormInv
  OBVIOUS
<1>1. /\ isActionLoading = FALSE /\ acts = [c \in Calls |-> NoAct] /\ wallet = "off" /\ transfers = {}
      /\ hash = None /\ ticket = NotSending /\ failed = {} /\ wiped = {}
  BY DEF FormInit
<1>2. NotSending \in TicketForms
  BY DEF NotSending, TicketForms
<1>3. FormTyped
  BY <1>1, <1>2, ActParts DEF FormTyped
<1>4. OneActs
  BY <1>1 DEF OneActs, FlagFollowsActions
<1> QED
  BY <1>1, <1>3, <1>4 DEF FormInv, FailedIsInTicket

LEMMA PressHolds == ASSUME FormInv, NEW c \in Calls, Presses(c) PROVE FormInv'
<1>1. PICK op \in {"withdraw", "auto", "manual", "resync"} :
          /\ acts[c] = NoAct /\ ~isActionLoading /\ (op = "manual" => hash # None) /\ isActionLoading' = TRUE
          /\ acts' = [acts EXCEPT ![c] = IF op = "auto" THEN Act("wallet", op, None)
                                         ELSE Act("posted", op, IF op = "manual" THEN hash ELSE None)]
          /\ UNCHANGED <<wallet, transfers, hash, ticket, failed, wiped>>
  BY DEF Presses, ButtonsAreFree
<1>2. PICK of \in Hashes \cup {None} : /\ of = (IF op = "manual" THEN hash ELSE None)
                                         /\ of \in (IF op = "manual" THEN Hashes ELSE {None})
  BY <1>1, FormFacts
<1>3. PICK q \in WalletActs :
          /\ q = (IF op = "auto" THEN Act("wallet", op, None) ELSE Act("posted", op, of))
          /\ q # NoAct /\ ActFits(q)
  BY <1>2, ActParts
<1>4. acts' = [acts EXCEPT ![c] = q]
  BY <1>1, <1>2, <1>3
<1>5. \A d \in Calls : acts[d] = NoAct
  BY <1>1, FormFacts DEF OneActs, FlagFollowsActions
<1>6. acts' \in [Calls -> WalletActs] /\ (\A d \in Calls : ActFits(acts'[d])) /\ OneActs'
  <2>1. isActionLoading' <=> q # NoAct
    BY <1>1, <1>3
  <2>2. transfers' \subseteq transfers \cup {c} /\ c \notin transfers'
    BY <1>1, ActParts, FormFacts DEF OneActs
  <2> QED
    BY <1>1, <1>3, <1>4, <1>5, <2>1, <2>2, ActStep
<1> QED
  BY <1>1, <1>6, FormFacts DEF FormInv, FormTyped, FailedIsInTicket

\* The end of an action, whatever it leaves in the form and the ticket.
LEMMA ActEnds ==
    ASSUME FormInv, NEW c \in Calls, acts[c] # NoAct, EndsAct(c), transfers' \subseteq transfers \ {c}
    PROVE  acts' \in [Calls -> WalletActs] /\ (\A d \in Calls : ActFits(acts'[d])) /\ OneActs'
           /\ isActionLoading' \in BOOLEAN
<1>1. acts' = [acts EXCEPT ![c] = NoAct] /\ isActionLoading' = FALSE
  BY DEF EndsAct
<1> QED
  BY <1>1, ActParts, ActStep

LEMMA AskWalletHolds == ASSUME FormInv, NEW c \in Calls, AsksWallet(c) PROVE FormInv'
<1>1. acts[c].pc = "wallet" /\ acts[c] # NoAct /\ UNCHANGED <<hash, ticket, failed, wiped>>
  BY ActParts DEF AsksWallet
<1>2. c \notin transfers
  BY <1>1, FormFacts DEF OneActs
<1>3. /\ acts' \in [Calls -> WalletActs] /\ (\A d \in Calls : ActFits(acts'[d])) /\ OneActs'
      /\ isActionLoading' \in BOOLEAN /\ wallet' \in {"off", "elsewhere", "ready"}
  <2>1. CASE /\ EndsAct(c) /\ UNCHANGED transfers
             /\ wallet' \in (IF wallet = "off" THEN {"elsewhere", "ready"} ELSE {"ready"})
    BY <1>1, <1>2, <2>1, ActEnds
  <2>2. CASE /\ wallet = "ready" /\ acts' = [acts EXCEPT ![c].pc = "posted"]
             /\ transfers' = transfers \cup {c} /\ UNCHANGED <<isActionLoading, wallet>>
    <3>1. PICK r \in WalletActs : r = acts[c] /\ ActFits(r) /\ r.op = "auto"
      BY <1>1, FormFacts DEF ActFits
    <3>2. PICK q : q = [r EXCEPT !.pc = "posted"]
      OBVIOUS
    <3>3. q \in WalletActs /\ q.pc = "posted" /\ q.op = "auto" /\ q.of = r.of
      BY <3>1, <3>2 DEF WalletActs
    <3>4. ActFits(q) /\ q # NoAct
      BY <3>1, <3>3, ActParts DEF ActFits
    <3>5. acts' = [acts EXCEPT ![c] = q]
      BY <2>2, <3>1, <3>2, FormFacts
    <3>6. isActionLoading' /\ isActionLoading' \in BOOLEAN
      BY <1>1, <2>2, FormFacts DEF OneActs, FlagFollowsActions
    <3> QED
      BY <1>1, <2>2, <3>3, <3>4, <3>5, <3>6, ActStep
  <2> QED
    BY <2>1, <2>2 DEF AsksWallet
<1> QED
  BY <1>1, <1>3, FormFacts DEF FormInv, FormTyped, FailedIsInTicket

LEMMA SucceedHolds == ASSUME FormInv, NEW c \in Calls, Succeeds(c) PROVE FormInv'
<1>1. /\ acts[c].pc = "posted" /\ acts[c] # NoAct /\ EndsAct(c) /\ transfers' = transfers \ {c}
      /\ hash' = (IF acts[c].op \in {"auto", "manual"} THEN None ELSE hash)
      /\ failed' = failed \ {acts[c].of} /\ UNCHANGED <<wallet, ticket, wiped>>
  BY ActParts DEF Succeeds
<1>2. /\ acts' \in [Calls -> WalletActs] /\ (\A d \in Calls : ActFits(acts'[d])) /\ OneActs'
      /\ isActionLoading' \in BOOLEAN
  BY <1>1, ActEnds
<1> QED
  BY <1>1, <1>2, FormFacts DEF FormInv, FormTyped, FailedIsInTicket

LEMMA FailHolds == ASSUME FormInv, NEW c \in Calls, Fails(c) PROVE FormInv'
<1>1. /\ acts[c] # NoAct /\ EndsAct(c) /\ transfers' = transfers \ {c} /\ wiped' = wiped \ {acts[c].of}
      /\ ticket' = (IF acts[c].op = "manual" THEN PutInTicket(acts[c].of) ELSE ticket)
      /\ failed' = (IF acts[c].op = "manual" THEN failed \cup {acts[c].of} ELSE failed) /\ UNCHANGED <<wallet, hash>>
  BY DEF Fails
<1>2. /\ acts' \in [Calls -> WalletActs] /\ (\A d \in Calls : ActFits(acts'[d])) /\ OneActs'
      /\ isActionLoading' \in BOOLEAN
  BY <1>1, ActEnds
<1>3. CASE acts[c].op = "manual"
  <2>1. PICK h \in Hashes : h = acts[c].of
    BY <1>3, FormFacts DEF ActFits
  <2>2. ticket' \in TicketForms /\ ticket'.hashes = ticket.hashes \cup {h}
    <3>1. ticket' = [ticket EXCEPT !.hashes = ticket.hashes \cup {h}]
      BY <1>1, <1>3, <2>1 DEF PutInTicket
    <3> QED
      BY <3>1, FormFacts DEF TicketForms
  <2>3. failed' \subseteq ticket'.hashes \cup wiped'
    BY <1>1, <1>3, <2>1, <2>2, FormFacts
  <2> QED
    BY <1>1, <1>2, <1>3, <2>1, <2>2, <2>3, FormFacts DEF FormInv, FormTyped, FailedIsInTicket
<1>4. CASE acts[c].op # "manual"
  <2>1. ticket' = ticket /\ failed' = failed
    BY <1>1, <1>4
  <2>2. acts[c].of = None /\ wiped' = wiped
    BY <1>1, <1>4, DepositFormAssumption, FormFacts DEF ActFits
  <2> QED
    BY <1>1, <1>2, <2>1, <2>2, FormFacts DEF FormInv, FormTyped, FailedIsInTicket
<1> QED
  BY <1>3, <1>4

LEMMA TicketHolds == ASSUME FormInv, SendsTicket \/ TicketAnswered PROVE FormInv'
<1>1. UNCHANGED <<isActionLoading, acts, wallet, transfers, hash>>
  BY DEF SendsTicket, TicketAnswered
<1>2. OneActs'
  BY <1>1, FormFacts DEF OneActs, FlagFollowsActions
<1>3. /\ ticket' \in TicketForms /\ failed' \subseteq Hashes /\ wiped' \subseteq Hashes
      /\ failed' \subseteq ticket'.hashes \cup wiped'
  <2>1. CASE SendsTicket
    <3>1. ticket' = [ticket EXCEPT !.sending = ticket.hashes, !.busy = TRUE] /\ UNCHANGED <<failed, wiped>>
      BY <2>1 DEF SendsTicket
    <3> QED
      BY <3>1, FormFacts DEF TicketForms
  <2>2. CASE /\ ticket' = NotSending /\ failed' = failed \ ticket.sending
             /\ wiped' = (wiped \ ticket.sending) \cup (ticket.hashes \ ticket.sending)
    <3>1. ticket' \in TicketForms /\ ticket'.hashes = {}
      BY <2>2 DEF NotSending, TicketForms
    <3> QED
      BY <2>2, <3>1, FormFacts
  <2>3. CASE ticket' = [ticket EXCEPT !.sending = {}, !.busy = FALSE] /\ UNCHANGED <<failed, wiped>>
    <3>1. ticket' \in TicketForms /\ ticket'.hashes = ticket.hashes
      BY <2>3, FormFacts DEF TicketForms
    <3> QED
      BY <2>3, <3>1, FormFacts
  <2> QED
    BY <2>1, <2>2, <2>3 DEF TicketAnswered
<1> QED
  BY <1>1, <1>2, <1>3, FormFacts DEF FormInv, FormTyped, FailedIsInTicket

\* The wallet is asked for one transfer at a time, the buttons come back, and
\* the hash of a claim that failed is not lost from the ticket.
THEOREM ActionsAreApart == FormSpec => [](FormTypeOK /\ OneTransferAtATime /\ FlagFollowsActions /\ FailedIsInTicket)
<1>1. ASSUME FormInv, [FormNext]_formVars PROVE FormInv'
  <2>1. CASE UNCHANGED formVars
    <3>1. UNCHANGED <<isActionLoading, acts, wallet, transfers, hash, ticket, failed, wiped>>
      BY <2>1 DEF formVars
    <3> QED
      BY <1>1, <3>1 DEF FormInv, FormTyped, OneActs, FlagFollowsActions, FailedIsInTicket
  <2>2. CASE WalletChanges
    <3>1. /\ wallet' \in {"off", "elsewhere", "ready"}
          /\ UNCHANGED <<isActionLoading, acts, transfers, hash, ticket, failed, wiped>>
      BY <2>2 DEF WalletChanges
    <3> QED
      BY <1>1, <3>1 DEF FormInv, FormTyped, OneActs, FlagFollowsActions, FailedIsInTicket
  <2>3. CASE TypesHash
    <3>1. hash' \in Hashes /\ UNCHANGED <<isActionLoading, acts, wallet, transfers, ticket, failed, wiped>>
      BY <2>3 DEF TypesHash
    <3> QED
      BY <1>1, <3>1 DEF FormInv, FormTyped, OneActs, FlagFollowsActions, FailedIsInTicket
  <2> QED
    BY <1>1, <2>1, <2>2, <2>3, PressHolds, AskWalletHolds, SucceedHolds, FailHolds, TicketHolds DEF FormNext
<1>2. ASSUME FormInv PROVE FormTypeOK /\ OneTransferAtATime /\ FlagFollowsActions /\ FailedIsInTicket
  <2>1. FormTypeOK
    BY <1>2, FormFacts DEF FormTypeOK
  <2>2. OneTransferAtATime
    <3>1. \A c, d \in transfers : c = d
      BY <1>2, ActParts, FormFacts DEF OneActs
    <3>2. transfers = {} \/ \E c \in transfers : transfers = {c}
      BY <3>1
    <3>3. CASE transfers = {}
      <4>1. Cardinality(transfers) = 0
        BY <3>3, FS_EmptySet
      <4> QED
        BY <4>1 DEF OneTransferAtATime
    <3>4. ASSUME NEW c \in transfers, transfers = {c} PROVE OneTransferAtATime
      <4>1. Cardinality(transfers) = 1
        BY <3>4, FS_Singleton
      <4> QED
        BY <4>1 DEF OneTransferAtATime
    <3> QED
      BY <3>2, <3>3, <3>4
  <2> QED
    BY <1>2, <2>1, <2>2 DEF FormInv, OneActs
<1> QED
  BY FormBegins, <1>1, <1>2, PTL DEF FormSpec

-----------------------------------------------------------------------------
(* The administrator's support page.                                        *)

Acting == {"reply", "credit", "link"}
Awaited == {"sent", "answered", "refetch", "refetched"}

AdminCallFits(q) ==
    /\ q = MCall(q.pc, q.op, q.ticket, q.was)
    /\ q.pc \in {"idle", "panel"} \cup Awaited /\ q.was \subseteq Tickets
    /\ q.pc = "idle" => q = MIdle
    /\ q.pc = "panel" => q.op \in Kinds /\ q.ticket \in Tickets
    /\ q.pc \in {"sent", "answered"} => q.op \in Acting \cup {"select", "list"}
    /\ q.pc \in {"refetch", "refetched"} => q.op \in Acting
    /\ q.op \in Acting \cup {"select"} => q.ticket \in Tickets

AdminTyped ==
    /\ read \subseteq Tickets /\ list \subseteq Tickets
    /\ selected \in Tickets \cup {None} /\ typed \in Tickets \cup {None}
    /\ panel \in [Kinds -> Tickets \cup {None}]
    /\ spinner \in BOOLEAN /\ both \in BOOLEAN
    /\ DOMAIN mcall = Calls /\ \A c \in Calls : AdminCallFits(mcall[c])

\* No list that is shown, or that a request may show, is ahead of the rows.
ListsAreBehind ==
    /\ list \subseteq read
    /\ \A c \in Calls : /\ mcall[c].was \subseteq read
                        /\ mcall[c].pc = "answered" /\ mcall[c].op = "select" => mcall[c].ticket \in read

LoadsWallet(q) == q.pc = "panel" /\ q.op = "wallet"

\* The one request of an administrator who waits: while a ticket is opened
\* there is nothing typed, every other request is about the selected one, and
\* only the wallet's panel may still be another's, until it is loaded.
AdminWaits ==
    /\ \A c, d \in Calls : mcall[c].pc # "idle" /\ mcall[d].pc # "idle" => c = d
    /\ typed \in {None, selected}
    /\ \A c \in Calls :
          /\ mcall[c].pc \in {"sent", "answered"} /\ mcall[c].op = "select" => spinner /\ typed = None
          /\ mcall[c].pc \in Awaited /\ mcall[c].op \in Acting => mcall[c].ticket = selected
          /\ mcall[c].pc = "panel" => mcall[c].ticket = selected
    /\ \A k \in Kinds : panel[k] \in {None, selected} \/ (k = "wallet" /\ \E c \in Calls : LoadsWallet(mcall[c]))

AdminInv == AdminTyped /\ ListsAreBehind /\ (~both => AdminWaits)

LEMMA AdminFacts ==
    ASSUME AdminInv
    PROVE  /\ None \notin Tickets /\ Panels \in [Tickets -> SUBSET Kinds] /\ Kinds = {"password", "wallet"}
           /\ read \subseteq Tickets /\ list \subseteq Tickets
           /\ selected \in Tickets \cup {None} /\ typed \in Tickets \cup {None}
           /\ panel \in [Kinds -> Tickets \cup {None}] /\ spinner \in BOOLEAN /\ both \in BOOLEAN
           /\ DOMAIN mcall = Calls /\ (\A c \in Calls : AdminCallFits(mcall[c]))
           /\ ListsAreBehind /\ (~both => AdminWaits)
BY AdminPageAssumption DEF AdminInv, AdminTyped, Kinds

LEMMA AdminCallParts ==
    /\ MIdle.pc = "idle" /\ AdminCallFits(MIdle) /\ MIdle.was = {}
    /\ \A pc, op, t, w : /\ MCall(pc, op, t, w).pc = pc /\ MCall(pc, op, t, w).op = op
                         /\ MCall(pc, op, t, w).ticket = t /\ MCall(pc, op, t, w).was = w
BY DEF MIdle, MCall, AdminCallFits, Awaited, Acting, Kinds

LEMMA AdminCallKept ==
    ASSUME NEW p, AdminCallFits(p), NEW pc
    PROVE  \E q : /\ q = [p EXCEPT !.pc = pc] /\ q = MCall(q.pc, q.op, q.ticket, q.was)
                  /\ q.pc = pc /\ q.op = p.op /\ q.ticket = p.ticket /\ q.was = p.was
<1>1. PICK old, op, t, w : p = [pc |-> old, op |-> op, ticket |-> t, was |-> w]
  BY DEF AdminCallFits, MCall
<1>2. [p EXCEPT !.pc = pc] = [pc |-> pc, op |-> op, ticket |-> t, was |-> w]
  BY <1>1
<1>3. p.op = op /\ p.ticket = t /\ p.was = w
  BY <1>1
<1> QED
  BY <1>2, <1>3 DEF MCall

LEMMA AdminCallSet ==
    ASSUME AdminInv, NEW c \in Calls, NEW q, mcall' = [mcall EXCEPT ![c] = q]
    PROVE  DOMAIN mcall' = Calls /\ mcall'[c] = q /\ \A d \in Calls : d # c => mcall'[d] = mcall[d]
BY AdminFacts

\* With nothing else typed or lost, a step is judged by the call it moves.
LEMMA AdminTypedStep ==
    ASSUME AdminInv, NEW c \in Calls, NEW q, mcall' = [mcall EXCEPT ![c] = q], AdminCallFits(q),
           read' \subseteq Tickets, list' \subseteq Tickets, selected' \in Tickets \cup {None},
           typed' \in Tickets \cup {None}, panel' \in [Kinds -> Tickets \cup {None}],
           spinner' \in BOOLEAN, both' \in BOOLEAN
    PROVE  AdminTyped'
<1>1. DOMAIN mcall' = Calls /\ mcall'[c] = q /\ \A d \in Calls : d # c => mcall'[d] = mcall[d]
  BY AdminCallSet
<1>2. \A d \in Calls : AdminCallFits(mcall'[d])
  BY <1>1, AdminFacts
<1> QED
  BY <1>1, <1>2 DEF AdminTyped

LEMMA ListsStayBehind ==
    ASSUME AdminInv, NEW c \in Calls, NEW q, mcall' = [mcall EXCEPT ![c] = q], read \subseteq read',
           q.was \subseteq read', q.pc = "answered" /\ q.op = "select" => q.ticket \in read',
           list' \subseteq read'
    PROVE  ListsAreBehind'
<1>1. mcall'[c] = q /\ \A d \in Calls : d # c => mcall'[d] = mcall[d]
  BY AdminCallSet
<1>2. ListsAreBehind
  BY AdminFacts
<1>3. \A d \in Calls : /\ mcall'[d].was \subseteq read'
                       /\ mcall'[d].pc = "answered" /\ mcall'[d].op = "select" => mcall'[d].ticket \in read'
  BY <1>1, <1>2 DEF ListsAreBehind
<1> QED
  BY <1>3 DEF ListsAreBehind

\* While the administrator waits the other calls are idle.
LEMMA OthersAreIdle ==
    ASSUME AdminInv, ~both, NEW c \in Calls, NEW q, mcall' = [mcall EXCEPT ![c] = q],
           mcall[c].pc # "idle" \/ ~AdminInFlight
    PROVE  /\ \A d \in Calls : d # c => mcall'[d].pc = "idle" /\ mcall'[d] = mcall[d]
           /\ mcall'[c] = q
           /\ \A d, e \in Calls : mcall'[d].pc # "idle" /\ mcall'[e].pc # "idle" => d = e
<1>1. mcall'[c] = q /\ \A d \in Calls : d # c => mcall'[d] = mcall[d]
  BY AdminCallSet
<1>2. \A d \in Calls : d # c => mcall[d].pc = "idle"
  BY AdminFacts DEF AdminWaits, AdminInFlight
<1> QED
  BY <1>1, <1>2

LEMMA AdminBegins == AdminInit => AdminInv
<1> SUFFICES ASSUME AdminInit PROVE AdminInv
  OBVIOUS
<1>1. /\ read = {} /\ list = {} /\ selected = None /\ spinner = FALSE /\ typed = None
      /\ panel = [k \in Kinds |-> None] /\ mcall = [c \in Calls |-> MIdle] /\ both = FALSE
  BY DEF AdminInit
<1>2. \A c \in Calls : mcall[c] = MIdle
  BY <1>1
<1>3. AdminTyped
  BY <1>1, <1>2, AdminCallParts DEF AdminTyped
<1>4. ListsAreBehind
  BY <1>1, <1>2, AdminCallParts DEF ListsAreBehind
<1>5. AdminWaits
  BY <1>1, <1>2, AdminCallParts DEF AdminWaits, Awaited
<1> QED
  BY <1>3, <1>4, <1>5 DEF AdminInv

LEMMA AdminTypesHolds == ASSUME AdminInv, Types PROVE AdminInv'
<1>1. /\ selected # None /\ ~spinner /\ typed' = selected
      /\ UNCHANGED <<read, list, selected, spinner, panel, mcall, both>>
  BY DEF Types
<1>2. AdminTyped'
  BY <1>1, AdminFacts DEF AdminTyped
<1>3. ListsAreBehind'
  BY <1>1, AdminFacts DEF ListsAreBehind
<1>4. ASSUME ~both' PROVE AdminWaits'
  <2>1. AdminWaits
    BY <1>1, <1>4, AdminFacts
  <2> QED
    BY <1>1, <2>1 DEF AdminWaits
<1> QED
  BY <1>2, <1>3, <1>4 DEF AdminInv

\* A request is sent.
LEMMA AdminSendHolds ==
    ASSUME AdminInv, NEW c \in Calls, NEW op, NEW t, Sent(c, op, t),
           op = "list" \/ (op \in Acting \cup {"select"} /\ t \in Tickets),
           op \in Acting => t = selected,
           op = "select" => spinner' = TRUE /\ typed' = None,
           op # "select" => spinner' = spinner /\ typed' = typed,
           UNCHANGED <<read, list, selected, panel>>
    PROVE  AdminInv'
<1>1. PICK q : q = MCall("sent", op, t, list) /\ q.pc = "sent" /\ q.op = op /\ q.ticket = t /\ q.was = list
  BY AdminCallParts
<1>2. mcall' = [mcall EXCEPT ![c] = q] /\ mcall[c].pc = "idle" /\ both' = (both \/ AdminInFlight)
  BY <1>1 DEF Sent, Turns
<1>3. AdminCallFits(q)
  BY <1>1, AdminFacts DEF AdminCallFits, Awaited, Acting
<1>4. AdminTyped'
  <2>1. spinner' \in BOOLEAN /\ typed' \in Tickets \cup {None} /\ both' \in BOOLEAN
    <3>1. spinner' \in BOOLEAN
      BY AdminFacts
    <3>2. typed' \in Tickets \cup {None}
      BY AdminFacts
    <3>3. both' \in BOOLEAN
      BY <1>2, AdminFacts DEF AdminInFlight
    <3> QED
      BY <3>1, <3>2, <3>3
  <2> QED
    BY <1>2, <1>3, <2>1, AdminTypedStep, AdminFacts
<1>5. ListsAreBehind'
  <2>1. list \subseteq read
    BY AdminFacts DEF ListsAreBehind
  <2> QED
    BY <1>1, <1>2, <2>1, ListsStayBehind
<1>6. ASSUME ~both' PROVE AdminWaits'
  <2>1. ~both /\ ~AdminInFlight /\ AdminWaits
    BY <1>2, <1>6, AdminFacts
  <2>2. /\ \A d \in Calls : d # c => mcall'[d].pc = "idle"
        /\ mcall'[c] = q
        /\ \A d, e \in Calls : mcall'[d].pc # "idle" /\ mcall'[e].pc # "idle" => d = e
    BY <1>2, <2>1, OthersAreIdle
  <2>3. \A k \in Kinds : panel[k] \in {None, selected}
    BY <2>1 DEF AdminWaits, LoadsWallet, AdminInFlight
  <2>4. typed' \in {None, selected}
    BY <2>1 DEF AdminWaits
  <2>5. \A d \in Calls :
          /\ mcall'[d].pc \in {"sent", "answered"} /\ mcall'[d].op = "select" => spinner' /\ typed' = None
          /\ mcall'[d].pc \in Awaited /\ mcall'[d].op \in Acting => mcall'[d].ticket = selected
          /\ mcall'[d].pc = "panel" => mcall'[d].ticket = selected
    BY <1>1, <2>2 DEF Awaited
  <2> QED
    BY <2>2, <2>3, <2>4, <2>5 DEF AdminWaits
<1> QED
  BY <1>4, <1>5, <1>6 DEF AdminInv

LEMMA AdminSelectHolds == ASSUME AdminInv, NEW c \in Calls, selectMessage(c) PROVE AdminInv'
<1>1. PICK t \in Tickets : /\ Sent(c, "select", t) /\ spinner' = TRUE /\ typed' = None
                           /\ UNCHANGED <<read, list, selected, panel>>
  BY DEF selectMessage, SelectsTicket
<1>2. "select" \notin Acting
  BY DEF Acting
<1> QED
  BY <1>1, <1>2, AdminSendHolds

LEMMA AdminActHolds == ASSUME AdminInv, NEW c \in Calls, ActsOnTicket(c) PROVE AdminInv'
<1>1. PICK op \in {"reply", "credit", "link"} : Sent(c, op, selected)
  BY DEF ActsOnTicket
<1>2. selected # None /\ UNCHANGED <<read, list, selected, spinner, typed, panel>>
  BY DEF ActsOnTicket
<1>3. selected \in Tickets /\ op \in Acting /\ op # "select"
  BY <1>2, AdminFacts DEF Acting
<1> QED
  BY <1>1, <1>2, <1>3, AdminSendHolds

LEMMA AdminFetchHolds == ASSUME AdminInv, NEW c \in Calls, fetchMessages(c) PROVE AdminInv'
<1>1. Sent(c, "list", None) /\ UNCHANGED <<read, list, selected, spinner, typed, panel>>
  BY DEF fetchMessages
<1>2. "list" \notin Acting
  BY DEF Acting
<1> QED
  BY <1>1, <1>2, AdminSendHolds

\* A call goes on, and the page stays.
LEMMA AdminGoesOn ==
    ASSUME AdminInv, NEW c \in Calls, NEW q, mcall' = [mcall EXCEPT ![c] = q], AdminCallFits(q),
           mcall[c].pc \in Awaited, q.pc \in Awaited, q.op = mcall[c].op, q.op # "list" => q.ticket = mcall[c].ticket,
           read \subseteq read', read' \subseteq Tickets, q.was \subseteq read',
           q.pc = "answered" /\ q.op = "select" => q.ticket \in read',
           q.op = "select" => mcall[c].pc \in {"sent", "answered"},
           panel' \in [Kinds -> Tickets \cup {None}],
           \A k \in Kinds : panel'[k] = panel[k] \/ (q.op = "credit" /\ panel'[k] = q.ticket),
           UNCHANGED <<list, selected, spinner, typed, both>>
    PROVE  AdminInv'
<1>1. q.op = "credit" => q.ticket \in Tickets /\ q.op \in Acting
  BY DEF AdminCallFits, Acting
<1>2. AdminTyped'
  <2>1. panel' \in [Kinds -> Tickets \cup {None}]
    BY <1>1, AdminFacts
  <2> QED
    BY <2>1, AdminTypedStep, AdminFacts
<1>3. ListsAreBehind'
  <2>1. list \subseteq read
    BY AdminFacts DEF ListsAreBehind
  <2> QED
    BY <2>1, ListsStayBehind
<1>4. ASSUME ~both' PROVE AdminWaits'
  <2>1. ~both /\ AdminWaits /\ mcall[c].pc # "idle"
    BY <1>4, AdminFacts DEF Awaited
  <2>2. /\ \A d \in Calls : d # c => mcall'[d].pc = "idle" /\ mcall'[d] = mcall[d]
        /\ mcall'[c] = q
        /\ \A d, e \in Calls : mcall'[d].pc # "idle" /\ mcall'[e].pc # "idle" => d = e
    BY <2>1, OthersAreIdle
  <2>3. \A k \in Kinds : panel[k] \in {None, selected}
    BY <2>1, <2>2 DEF AdminWaits, LoadsWallet, Awaited
  <2>4. q.op \in Acting => q.ticket = selected
    BY <2>1 DEF AdminWaits, Acting
  <2>5. \A k \in Kinds : panel'[k] \in {None, selected}
    BY <1>1, <2>3, <2>4, AdminFacts
  <2>6. \A d \in Calls :
          /\ mcall'[d].pc \in {"sent", "answered"} /\ mcall'[d].op = "select" => spinner' /\ typed' = None
          /\ mcall'[d].pc \in Awaited /\ mcall'[d].op \in Acting => mcall'[d].ticket = selected
          /\ mcall'[d].pc = "panel" => mcall'[d].ticket = selected
    BY <2>1, <2>2, <2>4 DEF AdminWaits, Awaited
  <2> QED
    BY <2>1, <2>2, <2>5, <2>6 DEF AdminWaits
<1> QED
  BY <1>2, <1>3, <1>4 DEF AdminInv

LEMMA AdminHandleHolds == ASSUME AdminInv, NEW c \in Calls, ServerHandles(c) PROVE AdminInv'
<1>1. /\ mcall[c].pc \in {"sent", "refetch"}
      /\ read' = IF mcall[c].pc = "refetch" \/ mcall[c].op \in {"select", "link"} THEN read \cup {mcall[c].ticket} ELSE read
      /\ UNCHANGED <<list, selected, spinner, typed, panel, both>>
  BY DEF ServerHandles
<1>2. PICK q : /\ mcall' = [mcall EXCEPT ![c] = q]
               /\ q.op = mcall[c].op /\ (q.op # "list" => q.ticket = mcall[c].ticket /\ q.was = mcall[c].was)
               /\ mcall[c].pc = "sent" => q.pc = "answered"
               /\ mcall[c].pc = "refetch" => q.pc = "refetched"
               /\ q.op = "list" => q.was = read
               /\ q = MCall(q.pc, q.op, q.ticket, q.was)
  <2>1. CASE mcall[c].op = "list"
    <3>1. PICK q : /\ q = MCall("answered", "list", None, read) /\ q.pc = "answered" /\ q.op = "list" /\ q.was = read
                   /\ q = MCall(q.pc, q.op, q.ticket, q.was)
      BY AdminCallParts
    <3>2. mcall' = [mcall EXCEPT ![c] = q]
      BY <2>1, <3>1 DEF ServerHandles, Turns
    <3>3. mcall[c].pc # "refetch"
      BY <2>1, AdminFacts DEF AdminCallFits, Acting
    <3> QED
      BY <1>1, <2>1, <3>1, <3>2, <3>3
  <2>2. CASE mcall[c].op # "list"
    <3>1. PICK pc : pc = IF mcall[c].pc = "sent" THEN "answered" ELSE "refetched"
      OBVIOUS
    <3>2. PICK q : /\ q = [mcall[c] EXCEPT !.pc = pc] /\ q = MCall(q.pc, q.op, q.ticket, q.was)
                   /\ q.pc = pc /\ q.op = mcall[c].op /\ q.ticket = mcall[c].ticket /\ q.was = mcall[c].was
      BY AdminFacts, AdminCallKept
    <3>3. mcall' = [mcall EXCEPT ![c] = q]
      BY <2>2, <3>1, <3>2 DEF ServerHandles, Turns
    <3> QED
      BY <1>1, <2>2, <3>1, <3>2, <3>3
  <2> QED
    BY <2>1, <2>2
<1>3. /\ AdminCallFits(mcall[c]) /\ mcall[c].was \subseteq read
      /\ q.op = "list" => mcall[c].pc = "sent"
      /\ q.op = "select" => mcall[c].pc = "sent"
      /\ mcall[c].pc = "refetch" => q.op \in Acting
      /\ q.op \in Acting \cup {"select", "list"}
  BY <1>1, <1>2, AdminFacts DEF AdminCallFits, ListsAreBehind, Acting
<1>4. q.op # "list" => q.ticket \in Tickets
  BY <1>2, <1>3 DEF AdminCallFits
<1>5. read \subseteq read' /\ read' \subseteq Tickets
  <2>1. mcall[c].pc = "refetch" \/ mcall[c].op \in {"select", "link"} => mcall[c].ticket \in Tickets
    BY <1>2, <1>3, <1>4 DEF Acting
  <2> QED
    BY <1>1, <2>1, AdminFacts
<1>6. q.was \subseteq read' /\ q.was \subseteq Tickets
  BY <1>2, <1>3, <1>5, AdminFacts DEF AdminCallFits
<1>7. AdminCallFits(q)
  BY <1>1, <1>2, <1>3, <1>4, <1>6 DEF AdminCallFits, Awaited, Acting
<1>8. q.pc = "answered" /\ q.op = "select" => q.ticket \in read'
  BY <1>1, <1>2
<1>9. mcall[c].pc \in Awaited /\ q.pc \in Awaited
  BY <1>1, <1>2 DEF Awaited
<1>10. q.op = mcall[c].op /\ (q.op # "list" => q.ticket = mcall[c].ticket) /\ mcall' = [mcall EXCEPT ![c] = q]
  BY <1>2
<1>11. q.op = "select" => mcall[c].pc \in {"sent", "answered"}
  BY <1>3
<1>12. /\ panel' \in [Kinds -> Tickets \cup {None}] /\ \A k \in Kinds : panel'[k] = panel[k]
       /\ UNCHANGED <<list, selected, spinner, typed, both>>
  BY <1>1, AdminFacts
<1> QED
  BY <1>5, <1>6, <1>7, <1>8, <1>9, <1>10, <1>11, <1>12, AdminGoesOn

LEMMA AdminActedHolds == ASSUME AdminInv, NEW c \in Calls, AdminActAnswered(c) PROVE AdminInv'
<1>1. /\ mcall[c].pc = "answered" /\ mcall[c].op \in Acting
      /\ panel' \in [Kinds -> Tickets \cup {None}]
      /\ \A k \in Kinds : panel'[k] = panel[k] \/ (mcall[c].op = "credit" /\ panel'[k] = mcall[c].ticket)
      /\ UNCHANGED <<read, list, selected, spinner, typed, both>>
  <2>1. mcall[c].pc = "answered" /\ mcall[c].op \in Acting /\ UNCHANGED <<read, list, selected, spinner, typed, both>>
    BY DEF AdminActAnswered, Acting
  <2>2. CASE panel' = panel
    BY <2>1, <2>2, AdminFacts
  <2>3. CASE mcall[c].op = "credit" /\ panel' = [panel EXCEPT !["wallet"] = mcall[c].ticket]
    <3>1. mcall[c].ticket \in Tickets
      BY <2>1, AdminFacts DEF AdminCallFits
    <3> QED
      BY <2>1, <2>3, <3>1, AdminFacts
  <2>4. \/ mcall[c].op = "credit" /\ panel' = [panel EXCEPT !["wallet"] = mcall[c].ticket]
        \/ panel' = panel
    BY DEF AdminActAnswered
  <2> QED
    BY <2>2, <2>3, <2>4
<1>2. AdminCallFits(mcall[c]) /\ mcall[c].was \subseteq read
  BY AdminFacts DEF ListsAreBehind
<1>3. PICK q : /\ q = [mcall[c] EXCEPT !.pc = "refetch"] /\ q = MCall(q.pc, q.op, q.ticket, q.was)
               /\ q.pc = "refetch" /\ q.op = mcall[c].op /\ q.ticket = mcall[c].ticket /\ q.was = mcall[c].was
  BY <1>2, AdminCallKept
<1>4. mcall' = [mcall EXCEPT ![c] = q]
  BY <1>3 DEF AdminActAnswered, Turns
<1>5. AdminCallFits(q)
  BY <1>1, <1>2, <1>3 DEF AdminCallFits, Awaited, Acting
<1>6. mcall[c].pc \in Awaited /\ q.pc \in Awaited /\ q.op # "select"
  BY <1>1, <1>3 DEF Awaited, Acting
<1> QED
  BY <1>1, <1>2, <1>3, <1>4, <1>5, <1>6, AdminFacts, AdminGoesOn

\* What a call goes on with once details have been shown.
LEMMA AdminLoadParts ==
    ASSUME NEW t \in Tickets, NEW kinds \in SUBSET Kinds
    PROVE  /\ AdminCallFits(AdminLoads(t, kinds)) /\ AdminLoads(t, kinds).was = {}
           /\ kinds = {} => AdminLoads(t, kinds).pc = "idle"
           /\ kinds # {} => AdminLoads(t, kinds).pc = "panel" /\ AdminLoads(t, kinds).ticket = t
           /\ "wallet" \in kinds => LoadsWallet(AdminLoads(t, kinds))
           /\ AdminLoads(t, kinds).pc \in {"idle", "panel"}
<1>1. CASE kinds = {}
  <2>1. AdminLoads(t, kinds) = MIdle
    BY <1>1 DEF AdminLoads
  <2> QED
    BY <1>1, <2>1, AdminCallParts
<1>2. CASE kinds # {}
  <2>1. \E k \in kinds : \A j \in kinds : j = "wallet" => k = "wallet"
    BY <1>2
  <2>2. PICK k \in kinds : /\ \A j \in kinds : j = "wallet" => k = "wallet"
                           /\ k = CHOOSE i \in kinds : \A j \in kinds : j = "wallet" => i = "wallet"
    BY <2>1
  <2>3. PICK q : /\ q = MCall("panel", k, t, {})
                 /\ q.pc = "panel" /\ q.op = k /\ q.ticket = t /\ q.was = {}
    BY AdminCallParts
  <2>4. AdminLoads(t, kinds) = q
    BY <1>2, <2>2, <2>3 DEF AdminLoads
  <2>5. AdminCallFits(q)
    BY <2>3 DEF AdminCallFits, Awaited, Acting, Kinds
  <2> QED
    BY <1>2, <2>2, <2>3, <2>4, <2>5 DEF LoadsWallet
<1> QED
  BY <1>1, <1>2

\* Details are shown: the selection changes, or it does not.
LEMMA AdminShowHolds ==
    ASSUME AdminInv, NEW c \in Calls, NEW t \in Tickets, NEW kinds \in SUBSET Kinds,
           Turns(c, AdminLoads(t, kinds)), Selects(t),
           mcall[c].pc \in Awaited, mcall[c].ticket = t, mcall[c].op \in Acting \cup {"select"},
           mcall[c].op = "select" => mcall[c].pc \in {"sent", "answered"},
           t # selected => kinds = Panels[t],
           typed' \in {typed, None}, spinner' \in BOOLEAN,
           list' \subseteq read, UNCHANGED <<read, both>>
    PROVE  AdminInv'
<1>1. PICK q : /\ q = AdminLoads(t, kinds) /\ AdminCallFits(q) /\ q.was = {}
               /\ kinds = {} => q.pc = "idle"
               /\ kinds # {} => q.pc = "panel" /\ q.ticket = t
               /\ "wallet" \in kinds => LoadsWallet(q)
               /\ q.pc \in {"idle", "panel"}
  BY AdminLoadParts
<1>2. mcall' = [mcall EXCEPT ![c] = q] /\ selected' = t
  BY <1>1 DEF Turns, Selects
<1>3. /\ panel' = [k \in Kinds |-> IF t = selected THEN panel[k]
                                   ELSE IF k = "password" \/ k \notin Panels[t] THEN None ELSE panel[k]]
  BY DEF Selects, ShowsPanels
<1>4. AdminTyped'
  <2>1. panel' \in [Kinds -> Tickets \cup {None}]
    BY <1>3, AdminFacts
  <2>2. typed' \in Tickets \cup {None} /\ list' \subseteq Tickets
    BY AdminFacts
  <2>3. both' \in BOOLEAN
    BY AdminFacts
  <2> QED
    BY <1>1, <1>2, <2>1, <2>2, <2>3, AdminTypedStep, AdminFacts
<1>5. ListsAreBehind'
  BY <1>1, <1>2, ListsStayBehind
<1>6. ASSUME ~both' PROVE AdminWaits'
  <2>1. ~both /\ AdminWaits /\ mcall[c].pc # "idle"
    BY <1>6, AdminFacts DEF Awaited
  <2>2. /\ \A d \in Calls : d # c => mcall'[d].pc = "idle" /\ mcall'[d] = mcall[d]
        /\ mcall'[c] = q
        /\ \A d, e \in Calls : mcall'[d].pc # "idle" /\ mcall'[e].pc # "idle" => d = e
    BY <1>2, <2>1, OthersAreIdle
  <2>3. \A k \in Kinds : panel[k] \in {None, selected}
    BY <2>1, <2>2 DEF AdminWaits, LoadsWallet, Awaited
  <2>4. typed' \in {None, selected'}
    <3>1. CASE mcall[c].op = "select"
      BY <2>1, <3>1 DEF AdminWaits
    <3>2. CASE mcall[c].op \in Acting
      BY <1>2, <2>1, <3>2 DEF AdminWaits
    <3> QED
      BY <3>1, <3>2
  <2>5. \A k \in Kinds : panel'[k] \in {None, selected'} \/ (k = "wallet" /\ LoadsWallet(mcall'[c]))
    <3>1. CASE t = selected
      BY <1>2, <1>3, <2>3, <3>1
    <3>2. CASE t # selected
      <4>1. ASSUME NEW k \in Kinds PROVE panel'[k] = None \/ (k = "wallet" /\ "wallet" \in kinds)
        BY <1>3, <3>2, AdminFacts
      <4> QED
        BY <1>1, <2>2, <4>1
    <3> QED
      BY <3>1, <3>2
  <2>6. \A d \in Calls :
          /\ mcall'[d].pc \in {"sent", "answered"} /\ mcall'[d].op = "select" => spinner' /\ typed' = None
          /\ mcall'[d].pc \in Awaited /\ mcall'[d].op \in Acting => mcall'[d].ticket = selected'
          /\ mcall'[d].pc = "panel" => mcall'[d].ticket = selected'
    BY <1>1, <1>2, <2>2 DEF Awaited
  <2> QED
    BY <2>2, <2>4, <2>5, <2>6 DEF AdminWaits
<1> QED
  BY <1>4, <1>5, <1>6 DEF AdminInv

LEMMA AdminSelectedHolds == ASSUME AdminInv, NEW c \in Calls, SelectAnswered(c) PROVE AdminInv'
<1>1. /\ mcall[c].pc = "answered" /\ mcall[c].op = "select" /\ Selects(mcall[c].ticket)
      /\ spinner' = FALSE /\ UNCHANGED <<read, typed, both>>
      /\ list' = IF mcall[c].ticket \in mcall[c].was THEN list ELSE mcall[c].was \cup {mcall[c].ticket}
  BY DEF SelectAnswered
<1>2. PICK t \in Tickets : t = mcall[c].ticket
  BY <1>1, AdminFacts DEF AdminCallFits
<1>3. PICK kinds \in SUBSET Kinds : kinds = IF t = selected THEN {} ELSE Panels[t]
  BY AdminFacts
<1>4. Turns(c, AdminLoads(t, kinds))
  BY <1>2, <1>3 DEF SelectAnswered
<1>5. list' \subseteq read
  BY <1>1, AdminFacts DEF ListsAreBehind
<1>6. mcall[c].pc \in Awaited
  BY <1>1 DEF Awaited
<1> QED
  BY <1>1, <1>2, <1>3, <1>4, <1>5, <1>6, AdminShowHolds

LEMMA AdminDetailedHolds == ASSUME AdminInv, NEW c \in Calls, DetailsAnswered(c) PROVE AdminInv'
<1>1. /\ mcall[c].pc = "refetched" /\ Selects(mcall[c].ticket) /\ UNCHANGED <<read, spinner, both>>
      /\ typed' = IF mcall[c].op = "link" THEN typed ELSE None
      /\ list' = IF mcall[c].op = "reply" THEN mcall[c].was ELSE list
  BY DEF DetailsAnswered
<1>2. mcall[c].op \in Acting /\ mcall[c].ticket \in Tickets /\ mcall[c].op # "select"
  BY <1>1, AdminFacts DEF AdminCallFits, Acting
<1>3. PICK t \in Tickets : t = mcall[c].ticket
  BY <1>2
<1>4. PICK kinds \in SUBSET Kinds : kinds = IF t # selected THEN Panels[t]
                                            ELSE IF mcall[c].op = "link" THEN {"password"} ELSE {}
  BY AdminFacts
<1>5. Turns(c, AdminLoads(t, kinds))
  BY <1>3, <1>4 DEF DetailsAnswered
<1>6. list' \subseteq read
  BY <1>1, AdminFacts DEF ListsAreBehind
<1>7. mcall[c].pc \in Awaited /\ spinner' \in BOOLEAN
  BY <1>1, AdminFacts DEF Awaited
<1> QED
  BY <1>1, <1>2, <1>3, <1>4, <1>5, <1>6, <1>7, AdminShowHolds

\* A call is over.
LEMMA AdminEndHolds ==
    ASSUME AdminInv, NEW c \in Calls, mcall' = [mcall EXCEPT ![c] = MIdle], mcall[c].pc \in Awaited,
           list' \subseteq read, spinner' \in BOOLEAN,
           UNCHANGED <<read, selected, typed, panel, both>>
    PROVE  AdminInv'
<1>1. AdminTyped'
  <2>1. list' \subseteq Tickets /\ AdminCallFits(MIdle)
    BY AdminFacts, AdminCallParts
  <2>2. both' \in BOOLEAN
    BY AdminFacts
  <2> QED
    BY <2>1, <2>2, AdminTypedStep, AdminFacts
<1>2. ListsAreBehind'
  BY AdminCallParts, ListsStayBehind
<1>3. ASSUME ~both' PROVE AdminWaits'
  <2>1. ~both /\ AdminWaits /\ mcall[c].pc # "idle"
    BY <1>3, AdminFacts DEF Awaited
  <2>2. /\ \A d \in Calls : d # c => mcall'[d].pc = "idle" /\ mcall'[d] = mcall[d]
        /\ mcall'[c] = MIdle
        /\ \A d, e \in Calls : mcall'[d].pc # "idle" /\ mcall'[e].pc # "idle" => d = e
    BY <2>1, OthersAreIdle
  <2>3. \A k \in Kinds : panel[k] \in {None, selected}
    BY <2>1, <2>2 DEF AdminWaits, LoadsWallet, Awaited
  <2>4. \A d \in Calls : mcall'[d].pc = "idle"
    BY <2>2, AdminCallParts
  <2> QED
    BY <2>1, <2>3, <2>4 DEF AdminWaits, Awaited
<1> QED
  BY <1>1, <1>2, <1>3 DEF AdminInv

LEMMA AdminListedHolds == ASSUME AdminInv, NEW c \in Calls, ListAnswered(c) PROVE AdminInv'
<1>1. /\ mcall[c].pc = "answered" /\ list' = mcall[c].was /\ mcall' = [mcall EXCEPT ![c] = MIdle]
      /\ UNCHANGED <<read, selected, spinner, typed, panel, both>>
  BY DEF ListAnswered, Turns
<1>2. list' \subseteq read /\ mcall[c].pc \in Awaited /\ spinner' \in BOOLEAN
  BY <1>1, AdminFacts DEF ListsAreBehind, Awaited
<1> QED
  BY <1>1, <1>2, AdminEndHolds

LEMMA AdminLostHolds == ASSUME AdminInv, NEW c \in Calls, RequestLost(c) PROVE AdminInv'
<1>1. /\ mcall[c].pc \notin {"idle", "panel"} /\ mcall' = [mcall EXCEPT ![c] = MIdle]
      /\ spinner' = (spinner /\ mcall[c].op # "select")
      /\ UNCHANGED <<read, list, selected, typed, panel, both>>
  BY DEF RequestLost, Turns
<1>2. mcall[c].pc \in Awaited
  BY <1>1, AdminFacts DEF AdminCallFits, Awaited
<1>3. spinner' \in BOOLEAN
  BY <1>1, AdminFacts
<1>4. list' \subseteq read
  BY <1>1, AdminFacts DEF ListsAreBehind
<1> QED
  BY <1>1, <1>2, <1>3, <1>4, AdminEndHolds

LEMMA AdminPanelHolds == ASSUME AdminInv, NEW c \in Calls, PanelAnswered(c) PROVE AdminInv'
<1>1. mcall[c].pc = "panel" /\ UNCHANGED <<read, list, selected, spinner, typed, both>>
  BY DEF PanelAnswered
<1>2. PICK t \in Tickets, k \in Kinds : t = mcall[c].ticket /\ k = mcall[c].op
  BY <1>1, AdminFacts DEF AdminCallFits
<1>3. PICK goneTo \in {t, None} : panel' = [panel EXCEPT ![k] = goneTo]
  BY <1>2 DEF PanelAnswered
<1>4. PICK kinds \in SUBSET Kinds : kinds = IF k = "wallet" THEN Panels[t] \ {"wallet"} ELSE {}
  BY AdminFacts
<1>5. PICK q : /\ q = AdminLoads(t, kinds) /\ AdminCallFits(q) /\ q.was = {} /\ q.pc \in {"idle", "panel"}
               /\ kinds = {} => q.pc = "idle"
               /\ kinds # {} => q.pc = "panel" /\ q.ticket = t
  BY AdminLoadParts
<1>6. mcall' = [mcall EXCEPT ![c] = q]
  BY <1>2, <1>4, <1>5 DEF PanelAnswered, Turns
<1>7. AdminTyped'
  <2>1. panel' \in [Kinds -> Tickets \cup {None}]
    BY <1>2, <1>3, AdminFacts
  <2>2. both' \in BOOLEAN /\ spinner' \in BOOLEAN
    BY <1>1, AdminFacts
  <2> QED
    BY <1>1, <1>5, <1>6, <2>1, <2>2, AdminTypedStep, AdminFacts
<1>8. ListsAreBehind'
  <2>1. list \subseteq read
    BY AdminFacts DEF ListsAreBehind
  <2> QED
    BY <1>1, <1>5, <1>6, <2>1, ListsStayBehind
<1>9. ASSUME ~both' PROVE AdminWaits'
  <2>1. ~both /\ AdminWaits /\ mcall[c].pc # "idle" /\ t = selected
    BY <1>1, <1>2, <1>9, AdminFacts DEF AdminWaits
  <2>2. /\ \A d \in Calls : d # c => mcall'[d].pc = "idle" /\ mcall'[d] = mcall[d]
        /\ mcall'[c] = q
        /\ \A d, e \in Calls : mcall'[d].pc # "idle" /\ mcall'[e].pc # "idle" => d = e
    BY <1>6, <2>1, OthersAreIdle
  <2>3. \A j \in Kinds : j # k => panel[j] \in {None, selected}
    <3>1. \A j \in Kinds : panel[j] \in {None, selected} \/ (j = "wallet" /\ LoadsWallet(mcall[c]))
      BY <2>1, <2>2 DEF AdminWaits, LoadsWallet
    <3> QED
      BY <1>2, <3>1 DEF LoadsWallet
  <2>4. \A j \in Kinds : panel'[j] \in {None, selected}
    BY <1>3, <2>1, <2>3, AdminFacts
  <2>5. \A d \in Calls :
          /\ mcall'[d].pc \in {"sent", "answered"} /\ mcall'[d].op = "select" => spinner' /\ typed' = None
          /\ mcall'[d].pc \in Awaited /\ mcall'[d].op \in Acting => mcall'[d].ticket = selected
          /\ mcall'[d].pc = "panel" => mcall'[d].ticket = selected
    BY <1>5, <2>1, <2>2 DEF Awaited
  <2> QED
    BY <1>1, <2>1, <2>2, <2>4, <2>5 DEF AdminWaits
<1> QED
  BY <1>7, <1>8, <1>9 DEF AdminInv

\* The support page is about the ticket it shows, and hides no unread one.
THEOREM TicketsAreShown ==
    AdminSpec => [](AdminTypeOK /\ TypedForShown /\ PanelsOfShown /\ ListIsNotAhead)
<1>1. ASSUME AdminInv, [AdminNext]_adminVars PROVE AdminInv'
  <2>1. CASE UNCHANGED adminVars
    <3>1. UNCHANGED <<read, list, selected, spinner, typed, panel, mcall, both>>
      BY <2>1 DEF adminVars
    <3> QED
      BY <1>1, <3>1 DEF AdminInv, AdminTyped, ListsAreBehind, AdminWaits
  <2> QED
    BY <1>1, <2>1, AdminTypesHolds, AdminSelectHolds, AdminActHolds, AdminFetchHolds, AdminHandleHolds,
       AdminSelectedHolds, AdminActedHolds, AdminDetailedHolds, AdminListedHolds, AdminPanelHolds, AdminLostHolds
    DEF AdminNext
<1>2. ASSUME AdminInv PROVE AdminTypeOK /\ TypedForShown /\ PanelsOfShown /\ ListIsNotAhead
  <2>1. AdminTypeOK
    <3>1. {selected, typed} \cup {panel[k] : k \in Kinds} \subseteq Tickets \cup {None}
      BY <1>2, AdminFacts
    <3> QED
      BY <1>2, <3>1 DEF AdminInv, AdminTyped, AdminTypeOK
  <2>2. TypedForShown
    BY <1>2, AdminFacts DEF TypedForShown, AdminWaits
  <2>3. PanelsOfShown
    BY <1>2, AdminFacts DEF PanelsOfShown, AdminWaits, AdminInFlight, LoadsWallet
  <2>4. ListIsNotAhead
    BY <1>2, AdminFacts DEF ListIsNotAhead, ListsAreBehind
  <2> QED
    BY <2>1, <2>2, <2>3, <2>4
<1> QED
  BY AdminBegins, <1>1, <1>2, PTL DEF AdminSpec

-----------------------------------------------------------------------------
(* The administrator's page of users.                                       *)

AskFits(q) ==
    /\ q.op \in {"list", "details", "credit", "ban"} /\ q.n \in Nat \ {0}
    /\ q.op = "list" => q.arg \in 1 .. LastPage
    /\ q.op = "details" => q.arg \in Customers
    /\ q.op = "credit" => q.arg[1] \in Customers /\ q.arg[2] \in 1 .. LastPage
    /\ q.op = "ban" => q.arg[1] \in Customers /\ q.arg[2] \in Customers \cup {None} /\ q.arg[3] \in 1 .. LastPage

UserPanelTyped ==
    /\ pageNo \in 1 .. LastPage /\ pageAsks \in 1 .. MaxAsks
    /\ listOf \in (0 .. LastPage) \X (0 .. MaxAsks) /\ detailsOf \in 0 .. MaxAsks
    /\ selectedUser \in Customers \cup {None} /\ draftFor \in Customers \cup {None}
    /\ submitting \in BOOLEAN /\ \A q \in asks : AskFits(q) /\ q.n <= pageAsks
    /\ pluck \subseteq {"overtaken", "moved", "hasty", "lost"}

\* The n-th request was the last for a list, and for the page number's: it is
\* due, or it is the one shown.
LastListIs(n) ==
    /\ \A q \in Due("list") : q.n <= n /\ (q.n = n => q.arg = pageNo)
    /\ listOf[2] <= n /\ (listOf[2] = n => listOf[1] = pageNo)
    /\ listOf[2] = n \/ \E q \in Due("list") : q.n = n

PageFollows == \E n \in 1 .. pageAsks : LastListIs(n)

\* The users that the details, the form or a request are about.
IsAbout(q, u) ==
    \/ q.op = "details" /\ q.arg = u
    \/ q.op = "credit" /\ q.arg[1] = u
    \/ q.op = "ban" /\ q.arg[1] = u /\ q.arg[2] = u

Concerned(u) == selectedUser = u \/ draftFor = u \/ \E q \in asks : IsAbout(q, u)

OneIsConcerned == \A u, v \in Customers : Concerned(u) /\ Concerned(v) => u = v

Misled == {"overtaken", "moved", "lost"}

UserPanelInv ==
    /\ UserPanelTyped /\ FormComesBack
    /\ pluck \cap Misled = {} => PageFollows
    /\ pluck = {} => OneIsConcerned

LEMMA AskParts == \A op, arg, n : \E q : q = Ask(op, arg, n) /\ q.op = op /\ q.arg = arg /\ q.n = n
<1> TAKE op, arg, n
<1>1. Ask(op, arg, n).op = op /\ Ask(op, arg, n).arg = arg /\ Ask(op, arg, n).n = n
  BY DEF Ask
<1> QED
  BY <1>1

LEMMA UserPanelFacts ==
    ASSUME UserPanelInv
    PROVE  /\ LastPage \in Nat \ {0} /\ MaxAsks \in Nat \ {0} /\ None \notin Customers
           /\ pageNo \in 1 .. LastPage /\ pageAsks \in 1 .. MaxAsks /\ pageAsks \in Nat
           /\ listOf \in (0 .. LastPage) \X (0 .. MaxAsks) /\ listOf[2] \in Nat /\ detailsOf \in 0 .. MaxAsks
           /\ selectedUser \in Customers \cup {None} /\ draftFor \in Customers \cup {None}
           /\ submitting \in BOOLEAN /\ (\A q \in asks : AskFits(q) /\ q.n \in Nat /\ q.n <= pageAsks)
           /\ pluck \subseteq {"overtaken", "moved", "hasty", "lost"} /\ FormComesBack
           /\ (pluck \cap Misled = {} => PageFollows) /\ (pluck = {} => OneIsConcerned)
<1>1. \A q \in asks : AskFits(q) /\ q.n \in Nat /\ q.n <= pageAsks
  BY DEF UserPanelInv, UserPanelTyped, AskFits
<1> QED
  BY <1>1, UserPanelAssumption DEF UserPanelInv, UserPanelTyped

LEMMA UserPanelBegins == UserPanelInit => UserPanelInv
<1> SUFFICES ASSUME UserPanelInit PROVE UserPanelInv
  OBVIOUS
<1>1. /\ pageNo = 1 /\ listOf = <<0, 0>> /\ selectedUser = None /\ detailsOf = 0 /\ draftFor = None
      /\ submitting = FALSE /\ pageAsks = 1 /\ pluck = {}
  BY DEF UserPanelInit
<1>2. PICK q : asks = {q} /\ q.op = "list" /\ q.arg = 1 /\ q.n = 1
  BY AskParts DEF UserPanelInit
<1>3. LastPage \in Nat \ {0} /\ MaxAsks \in Nat \ {0} /\ None \notin Customers
  BY UserPanelAssumption
<1>4. UserPanelTyped
  <2>1. AskFits(q) /\ q.n <= pageAsks
    BY <1>1, <1>2, <1>3 DEF AskFits
  <2>2. pageNo \in 1 .. LastPage /\ pageAsks \in 1 .. MaxAsks /\ detailsOf \in 0 .. MaxAsks
    BY <1>1, <1>3
  <2>3. listOf \in (0 .. LastPage) \X (0 .. MaxAsks)
    BY <1>1, <1>3
  <2> QED
    BY <1>1, <1>2, <2>1, <2>2, <2>3 DEF UserPanelTyped
<1>5. PageFollows
  <2>1. Due("list") = {q}
    BY <1>2 DEF Due
  <2>2. LastListIs(1)
    BY <1>1, <1>2, <2>1 DEF LastListIs
  <2> QED
    BY <1>1, <2>2 DEF PageFollows
<1>6. OneIsConcerned
  <2>1. \A u \in Customers : ~Concerned(u)
    BY <1>1, <1>2, <1>3 DEF Concerned, IsAbout
  <2> QED
    BY <2>1 DEF OneIsConcerned
<1> QED
  BY <1>1, <1>4, <1>5, <1>6 DEF UserPanelInv, FormComesBack

\* What every step does to the requests: some are answered, some are sent.
LEMMA AsksStay ==
    ASSUME UserPanelInv, NEW gone, NEW sent, asks' = (asks \ gone) \cup sent,
           pageAsks' \in pageAsks .. MaxAsks,
           \A q \in sent : AskFits(q) /\ q.n <= pageAsks'
    PROVE  /\ pageAsks' \in 1 .. MaxAsks /\ \A q \in asks' : AskFits(q) /\ q.n <= pageAsks'
<1>1. ASSUME NEW q \in asks PROVE AskFits(q) /\ q.n <= pageAsks'
  BY UserPanelFacts
<1> QED
  BY <1>1, UserPanelFacts

\* The last request for a list is one that has just been sent.
LEMMA NewListIsLast ==
    ASSUME UserPanelInv, listOf' = listOf, pageAsks' \in Nat,
           NEW p \in asks', p.op = "list", p.arg = pageNo', p.n \in Nat, pageAsks < p.n, p.n <= pageAsks',
           \A q \in asks' : q.op = "list" => q \in asks \/ q = p \/ (q.n \in Nat /\ q.n < p.n),
           pluck \cap Misled = {}
    PROVE  PageFollows'
<1>1. PICK n \in 1 .. pageAsks : LastListIs(n)
  BY UserPanelFacts DEF PageFollows
<1>2. listOf[2] \in Nat /\ listOf[2] < p.n
  BY <1>1, UserPanelFacts DEF LastListIs
<1>3. \A q \in asks : q.n \in Nat /\ q.n < p.n
  BY UserPanelFacts
<1>4. \A q \in asks' : q.op = "list" => q.n <= p.n /\ (q.n = p.n => q = p)
  BY <1>3
<1>5. p \in Due("list")'
  BY DEF Due
<1>6. LastListIs(p.n)'
  BY <1>2, <1>4, <1>5 DEF LastListIs, Due
<1>7. p.n \in 1 .. pageAsks'
  BY UserPanelFacts
<1> QED
  BY <1>6, <1>7 DEF PageFollows

\* No list is asked for or answered.
LEMMA ListsStay ==
    ASSUME UserPanelInv, UNCHANGED <<listOf, pageNo>>, pageAsks' \in pageAsks .. MaxAsks,
           \A q \in asks \cup asks' : q.op = "list" => (q \in asks' <=> q \in asks),
           pluck \cap Misled = {}
    PROVE  PageFollows'
<1>1. PICK n \in 1 .. pageAsks : LastListIs(n)
  BY UserPanelFacts DEF PageFollows
<1>2. Due("list")' = Due("list")
  BY DEF Due
<1>3. LastListIs(n)' /\ n \in 1 .. pageAsks'
  <2>1. LastListIs(n)'
    BY <1>1, <1>2 DEF LastListIs
  <2> QED
    BY <2>1, UserPanelFacts
<1> QED
  BY <1>3 DEF PageFollows

\* No other user is concerned than before.
LEMMA ConcernStays ==
    ASSUME UserPanelInv, pluck = {},
           \A u \in Customers : Concerned(u)' => Concerned(u)
    PROVE  OneIsConcerned'
<1>1. OneIsConcerned
  BY UserPanelFacts
<1> QED
  BY <1>1 DEF OneIsConcerned

\* The credit that is due stays so.
LEMMA CreditStays ==
    ASSUME UserPanelInv, submitting' = submitting, \A q \in asks : q.op = "credit" => q \in asks'
    PROVE  FormComesBack'
<1>1. FormComesBack
  BY UserPanelFacts
<1> QED
  BY <1>1 DEF FormComesBack, Due

LEMMA PageSetHolds == ASSUME UserPanelInv, setPage PROVE UserPanelInv'
<1>1. PICK p \in (1 .. LastPage) \ {pageNo} : Asks1("list", p) /\ pageNo' = p
  BY DEF setPage
<1>2. UNCHANGED <<listOf, selectedUser, detailsOf, draftFor, submitting, pluck>>
  BY DEF setPage
<1>3. PICK q : /\ q.op = "list" /\ q.arg = p /\ q.n = pageAsks + 1
               /\ asks' = (asks \ {}) \cup {q} /\ pageAsks < MaxAsks /\ pageAsks' = pageAsks + 1
  BY <1>1, AskParts DEF Asks1
<1>4. pageAsks' \in pageAsks .. MaxAsks /\ AskFits(q) /\ q.n <= pageAsks' /\ q.n \in Nat
  BY <1>1, <1>3, UserPanelFacts DEF AskFits
<1>5. UserPanelTyped'
  BY <1>1, <1>2, <1>3, <1>4, AsksStay, UserPanelFacts DEF UserPanelTyped
<1>6. pluck' \cap Misled = {} => PageFollows'
  BY <1>1, <1>2, <1>3, <1>4, NewListIsLast, UserPanelFacts
<1>7. pluck' = {} => OneIsConcerned'
  BY <1>2, <1>3, ConcernStays DEF Concerned, IsAbout
<1>8. FormComesBack'
  BY <1>2, <1>3, CreditStays
<1> QED
  BY <1>5, <1>6, <1>7, <1>8 DEF UserPanelInv

LEMMA PageSearchHolds == ASSUME UserPanelInv, handleSearch PROVE UserPanelInv'
<1>1. pageNo' = 1 /\ UNCHANGED <<listOf, selectedUser, detailsOf, draftFor, submitting, pluck>>
  BY DEF handleSearch
<1>2. PICK q, sent :
        /\ q \in sent /\ asks' = (asks \ {}) \cup sent
        /\ pageAsks' \in pageAsks .. MaxAsks
        /\ q.op = "list" /\ q.arg = 1 /\ q.n = pageAsks' /\ pageAsks < pageAsks'
        /\ \A s \in sent : /\ s.op = "list" /\ s.n \in Nat \ {0} /\ s.n <= pageAsks' /\ s.arg \in 1 .. LastPage
                           /\ s = q \/ s.n < q.n
  <2>1. CASE pageNo = 1
    <3>1. PICK q : /\ q.op = "list" /\ q.arg = 1 /\ q.n = pageAsks + 1
                   /\ asks' = (asks \ {}) \cup {q} /\ pageAsks < MaxAsks /\ pageAsks' = pageAsks + 1
      BY <2>1, AskParts DEF handleSearch, Asks1
    <3>2. pageAsks' \in pageAsks .. MaxAsks /\ q.n \in Nat \ {0} /\ q.n <= pageAsks' /\ 1 \in 1 .. LastPage
      BY <3>1, UserPanelFacts
    <3>3. \A s \in {q} : /\ s.op = "list" /\ s.n \in Nat \ {0} /\ s.n <= pageAsks' /\ s.arg \in 1 .. LastPage
                         /\ s = q \/ s.n < q.n
      BY <3>1, <3>2
    <3>4. pageAsks < pageAsks'
      BY <3>1, UserPanelFacts
    <3>5. PICK sent : sent = {q}
      OBVIOUS
    <3>6. q \in sent /\ asks' = (asks \ {}) \cup sent
      BY <3>1, <3>5
    <3> QED
      BY <3>1, <3>2, <3>3, <3>4, <3>5, <3>6
  <2>2. CASE pageNo # 1
    <3>0. pageAsks + 2 <= MaxAsks /\ pageAsks' = pageAsks + 2
          /\ asks' = asks \cup {Ask("list", pageNo, pageAsks + 1), Ask("list", 1, pageAsks + 2)}
      BY <2>2 DEF handleSearch
    <3>1. PICK q, s : /\ q.op = "list" /\ q.arg = 1 /\ q.n = pageAsks + 2
                      /\ s.op = "list" /\ s.arg = pageNo /\ s.n = pageAsks + 1
                      /\ asks' = (asks \ {}) \cup {s, q} /\ pageAsks + 2 <= MaxAsks /\ pageAsks' = pageAsks + 2
      BY <3>0, AskParts
    <3>2. /\ pageAsks' \in pageAsks .. MaxAsks /\ q.n \in Nat \ {0} /\ q.n <= pageAsks' /\ 1 \in 1 .. LastPage
          /\ s.n \in Nat \ {0} /\ s.n <= pageAsks' /\ s.n < q.n /\ pageAsks < pageAsks'
      BY <3>1, UserPanelFacts
    <3>3. \A r \in {s, q} : /\ r.op = "list" /\ r.n \in Nat \ {0} /\ r.n <= pageAsks' /\ r.arg \in 1 .. LastPage
                            /\ r = q \/ r.n < q.n
      BY <3>1, <3>2, UserPanelFacts
    <3>4. PICK sent : sent = {s, q}
      OBVIOUS
    <3>5. q \in sent /\ asks' = (asks \ {}) \cup sent
      BY <3>1, <3>4
    <3>6. q.op = "list" /\ q.arg = 1 /\ q.n = pageAsks'
      BY <3>1
    <3>7. \A r \in sent : /\ r.op = "list" /\ r.n \in Nat \ {0} /\ r.n <= pageAsks' /\ r.arg \in 1 .. LastPage
                          /\ r = q \/ r.n < q.n
      BY <3>3, <3>4
    <3>8. pageAsks' \in pageAsks .. MaxAsks /\ pageAsks < pageAsks'
      BY <3>2
    <3> QED
      BY <3>5, <3>6, <3>7, <3>8
  <2> QED
    BY <2>1, <2>2
<1>3. \A s \in sent : AskFits(s) /\ s.n <= pageAsks'
  BY <1>2 DEF AskFits
<1>4. 1 \in 1 .. LastPage
  BY UserPanelFacts
<1>5. UserPanelTyped'
  BY <1>1, <1>2, <1>3, <1>4, AsksStay, UserPanelFacts DEF UserPanelTyped
<1>6. pluck' \cap Misled = {} => PageFollows'
  <2>1. pageAsks' \in Nat /\ q.n \in Nat /\ q.n <= pageAsks' /\ pageAsks < q.n
    BY <1>2, UserPanelFacts
  <2>2. \A s \in sent : s = q \/ (s.n \in Nat /\ s.n < q.n)
    BY <1>2
  <2> QED
    BY <1>1, <1>2, <2>1, <2>2, NewListIsLast
<1>7. pluck' = {} => OneIsConcerned'
  BY <1>1, <1>2, ConcernStays DEF Concerned, IsAbout
<1>8. FormComesBack'
  BY <1>1, <1>2, CreditStays
<1> QED
  BY <1>5, <1>6, <1>7, <1>8 DEF UserPanelInv

LEMMA PageLoadHolds == ASSUME UserPanelInv, loadUserDetails PROVE UserPanelInv'
<1>1. PICK u \in Customers :
        /\ Asks1("details", u)
        /\ pluck' = pluck \cup (IF draftFor # None \/ Due("details") \cup Due("credit") \cup Due("ban") # {}
                                THEN {"hasty"} ELSE {})
  BY DEF loadUserDetails
<1>2. selectedUser = None /\ UNCHANGED <<pageNo, listOf, selectedUser, detailsOf, draftFor, submitting>>
  BY DEF loadUserDetails
<1>3. PICK q : /\ q.op = "details" /\ q.arg = u /\ q.n = pageAsks + 1
               /\ asks' = (asks \ {}) \cup {q} /\ pageAsks < MaxAsks /\ pageAsks' = pageAsks + 1
  BY <1>1, AskParts DEF Asks1
<1>4. pageAsks' \in pageAsks .. MaxAsks /\ AskFits(q) /\ q.n <= pageAsks' /\ q.n \in Nat
  BY <1>1, <1>3, UserPanelFacts DEF AskFits
<1>5. UserPanelTyped'
  <2>1. pluck' \subseteq {"overtaken", "moved", "hasty", "lost"}
    BY <1>1, UserPanelFacts
  <2> QED
    BY <1>2, <1>3, <1>4, <2>1, AsksStay, UserPanelFacts DEF UserPanelTyped
<1>6. pluck' \cap Misled = {} => PageFollows'
  BY <1>1, <1>2, <1>3, <1>4, ListsStay
<1>7. ASSUME pluck' = {} PROVE OneIsConcerned'
  <2>1. draftFor = None /\ Due("details") = {} /\ Due("credit") = {} /\ Due("ban") = {}
    BY <1>1, <1>7
  <2>2. \A s \in asks : s.op \notin {"details", "credit", "ban"}
    BY <2>1 DEF Due
  <2>3. \A s \in asks' : \A v : IsAbout(s, v) => v = u
    BY <1>3, <2>2 DEF IsAbout
  <2>4. \A v \in Customers : Concerned(v)' => v = u
    BY <1>2, <2>1, <2>3, UserPanelFacts DEF Concerned
  <2> QED
    BY <2>4 DEF OneIsConcerned
<1>8. FormComesBack'
  BY <1>2, <1>3, CreditStays
<1> QED
  BY <1>5, <1>6, <1>7, <1>8 DEF UserPanelInv

\* The details are closed, or the form is filled in: no request is sent.
LEMMA PageFormHolds == ASSUME UserPanelInv, ClosesDetails \/ FillsIn PROVE UserPanelInv'
<1>1. /\ selectedUser' \in Customers \cup {None} /\ draftFor' \in Customers \cup {None}
      /\ \A u \in Customers : Concerned(u)' => Concerned(u)
      /\ UNCHANGED <<pageNo, listOf, detailsOf, submitting, asks, pageAsks, pluck>>
  BY UserPanelFacts DEF ClosesDetails, FillsIn, Concerned
<1>2. asks' = (asks \ {}) \cup {} /\ pageAsks' \in pageAsks .. MaxAsks
  BY <1>1, UserPanelFacts
<1>3. UserPanelTyped'
  BY <1>1, UserPanelFacts DEF UserPanelTyped
<1>4. pluck' \cap Misled = {} => PageFollows'
  BY <1>1, <1>2, ListsStay
<1>5. pluck' = {} => OneIsConcerned'
  BY <1>1, ConcernStays
<1>6. FormComesBack'
  BY <1>1, <1>2, CreditStays
<1> QED
  BY <1>3, <1>4, <1>5, <1>6 DEF UserPanelInv

LEMMA PageCreditHolds == ASSUME UserPanelInv, handleCreditPol PROVE UserPanelInv'
<1>1. /\ selectedUser # None /\ Asks1("credit", <<selectedUser, pageNo>>) /\ submitting' = TRUE
      /\ UNCHANGED <<pageNo, listOf, selectedUser, detailsOf, draftFor, pluck>>
  BY DEF handleCreditPol
<1>2. PICK q : /\ q.op = "credit" /\ q.arg[1] = selectedUser /\ q.arg[2] = pageNo /\ q.n = pageAsks + 1
               /\ asks' = (asks \ {}) \cup {q} /\ pageAsks < MaxAsks /\ pageAsks' = pageAsks + 1
  BY <1>1, AskParts DEF Asks1
<1>3. pageAsks' \in pageAsks .. MaxAsks /\ AskFits(q) /\ q.n <= pageAsks'
  BY <1>1, <1>2, UserPanelFacts DEF AskFits
<1>4. UserPanelTyped'
  BY <1>1, <1>2, <1>3, AsksStay, UserPanelFacts DEF UserPanelTyped
<1>5. pluck' \cap Misled = {} => PageFollows'
  BY <1>1, <1>2, <1>3, ListsStay
<1>6. pluck' = {} => OneIsConcerned'
  <2>1. \A u \in Customers : Concerned(u)' => Concerned(u)
    BY <1>1, <1>2 DEF Concerned, IsAbout
  <2> QED
    BY <1>1, <2>1, ConcernStays
<1>7. FormComesBack'
  BY <1>2 DEF FormComesBack, Due
<1> QED
  BY <1>4, <1>5, <1>6, <1>7 DEF UserPanelInv

LEMMA PageBanHolds == ASSUME UserPanelInv, handleBanToggle PROVE UserPanelInv'
<1>1. PICK u \in Customers : Asks1("ban", <<u, selectedUser, pageNo>>)
  BY DEF handleBanToggle
<1>2. UNCHANGED <<pageNo, listOf, selectedUser, detailsOf, draftFor, submitting, pluck>>
  BY DEF handleBanToggle
<1>3. PICK q : /\ q.op = "ban" /\ q.arg[1] = u /\ q.arg[2] = selectedUser /\ q.arg[3] = pageNo /\ q.n = pageAsks + 1
               /\ asks' = (asks \ {}) \cup {q} /\ pageAsks < MaxAsks /\ pageAsks' = pageAsks + 1
  BY <1>1, AskParts DEF Asks1
<1>4. pageAsks' \in pageAsks .. MaxAsks /\ AskFits(q) /\ q.n <= pageAsks'
  BY <1>1, <1>3, UserPanelFacts DEF AskFits
<1>5. UserPanelTyped'
  BY <1>2, <1>3, <1>4, AsksStay, UserPanelFacts DEF UserPanelTyped
<1>6. pluck' \cap Misled = {} => PageFollows'
  BY <1>2, <1>3, <1>4, ListsStay
<1>7. pluck' = {} => OneIsConcerned'
  <2>1. \A v \in Customers : Concerned(v)' => Concerned(v)
    BY <1>2, <1>3 DEF Concerned, IsAbout
  <2> QED
    BY <1>2, <2>1, ConcernStays
<1>8. FormComesBack'
  BY <1>2, <1>3, CreditStays
<1> QED
  BY <1>5, <1>6, <1>7, <1>8 DEF UserPanelInv

LEMMA PageListedHolds == ASSUME UserPanelInv, UsersAnswered PROVE UserPanelInv'
<1>1. PICK q \in Due("list") : /\ listOf' = <<q.arg, q.n>> /\ asks' = asks \ {q}
                               /\ pluck' = pluck \cup (IF q.n < listOf[2] THEN {"overtaken"} ELSE {})
  BY DEF UsersAnswered, Overtaken
<1>2. UNCHANGED <<pageNo, selectedUser, detailsOf, draftFor, submitting, pageAsks>>
  BY DEF UsersAnswered
<1>3. q \in asks /\ q.op = "list" /\ q.arg \in 1 .. LastPage /\ q.n \in 1 .. pageAsks /\ q.n \in Nat
  <2>1. q \in asks /\ q.op = "list"
    BY DEF Due
  <2> QED
    BY <2>1, UserPanelFacts DEF AskFits
<1>4. UserPanelTyped'
  <2>1. q.arg \in 0 .. LastPage /\ q.n \in 0 .. MaxAsks
    BY <1>3, UserPanelFacts
  <2>2. listOf' \in (0 .. LastPage) \X (0 .. MaxAsks)
    BY <1>1, <2>1
  <2>3. pluck' \subseteq {"overtaken", "moved", "hasty", "lost"}
    BY <1>1, UserPanelFacts
  <2> QED
    BY <1>1, <1>2, <2>2, <2>3, UserPanelFacts DEF UserPanelTyped
<1>5. ASSUME pluck' \cap Misled = {} PROVE PageFollows'
  <2>1. ~(q.n < listOf[2]) /\ pluck \cap Misled = {}
    BY <1>1, <1>5 DEF Misled
  <2>2. PICK n \in 1 .. pageAsks : LastListIs(n)
    BY <2>1, UserPanelFacts DEF PageFollows
  <2>3. listOf'[1] = q.arg /\ listOf'[2] = q.n
    BY <1>1
  <2>4. q.n <= n /\ (q.n = n => q.arg = pageNo)
    BY <2>2 DEF LastListIs
  <2>5. \A p \in Due("list")' : p \in Due("list")
    BY <1>1 DEF Due
  <2>6. q.n = n \/ \E p \in Due("list")' : p.n = n
    <3>1. CASE q.n # n
      <4>1. listOf[2] # n
        BY <1>3, <2>1, <2>4, <3>1, UserPanelFacts
      <4>2. PICK p \in Due("list") : p.n = n
        BY <2>2, <4>1 DEF LastListIs
      <4> QED
        BY <1>1, <3>1, <4>2 DEF Due
    <3> QED
      BY <3>1
  <2>7. LastListIs(n)'
    BY <1>2, <2>2, <2>3, <2>4, <2>5, <2>6 DEF LastListIs
  <2> QED
    BY <1>2, <2>7 DEF PageFollows
<1>6. pluck' = {} => OneIsConcerned'
  <2>1. \A u \in Customers : Concerned(u)' => Concerned(u)
    BY <1>1, <1>2 DEF Concerned
  <2> QED
    BY <1>1, <2>1, ConcernStays
<1>7. FormComesBack'
  BY <1>1, <1>2, <1>3, UserPanelFacts DEF FormComesBack, Due
<1> QED
  BY <1>4, <1>5, <1>6, <1>7 DEF UserPanelInv

LEMMA PageDetailedHolds == ASSUME UserPanelInv, UserAnswered PROVE UserPanelInv'
<1>1. PICK q \in Due("details") : /\ selectedUser' = q.arg /\ detailsOf' = q.n /\ asks' = (asks \ {q}) \cup {}
                                  /\ pluck \subseteq pluck' /\ pluck' \subseteq pluck \cup {"overtaken"}
  BY DEF UserAnswered, Overtaken
<1>2. UNCHANGED <<pageNo, listOf, draftFor, submitting, pageAsks>>
  BY DEF UserAnswered
<1>3. q \in asks /\ q.op = "details" /\ q.arg \in Customers /\ q.n \in 0 .. MaxAsks
  <2>1. q \in asks /\ q.op = "details"
    BY DEF Due
  <2> QED
    BY <2>1, UserPanelFacts DEF AskFits
<1>4. pageAsks' \in pageAsks .. MaxAsks
  BY <1>2, UserPanelFacts
<1>5. UserPanelTyped'
  <2>1. pluck' \subseteq {"overtaken", "moved", "hasty", "lost"}
    BY <1>1, UserPanelFacts
  <2> QED
    BY <1>1, <1>2, <1>3, <2>1, UserPanelFacts DEF UserPanelTyped
<1>6. pluck' \cap Misled = {} => PageFollows'
  <2>1. pluck' \cap Misled = {} => pluck \cap Misled = {}
    BY <1>1
  <2> QED
    BY <1>1, <1>2, <1>3, <1>4, <2>1, ListsStay
<1>7. pluck' = {} => OneIsConcerned'
  <2>1. \A u \in Customers : Concerned(u)' => Concerned(u)
    BY <1>1, <1>2, <1>3 DEF Concerned, IsAbout
  <2> QED
    BY <1>1, <2>1, ConcernStays
<1>8. FormComesBack'
  BY <1>1, <1>2, <1>3, CreditStays
<1> QED
  BY <1>5, <1>6, <1>7, <1>8 DEF UserPanelInv

LEMMA PageCreditedHolds == ASSUME UserPanelInv, CreditAnswered PROVE UserPanelInv'
<1>1. PICK q \in Due("credit") :
        /\ pageAsks + 2 <= MaxAsks
        /\ asks' = (asks \ {q}) \cup {Ask("details", q.arg[1], pageAsks + 1), Ask("list", q.arg[2], pageAsks + 2)}
        /\ pluck' = pluck \cup (IF q.arg[2] # pageNo THEN {"moved"} ELSE {})
  BY DEF CreditAnswered, Moved
<1>2. /\ draftFor' = None /\ submitting' = FALSE /\ pageAsks' = pageAsks + 2
      /\ UNCHANGED <<pageNo, listOf, selectedUser, detailsOf>>
  BY DEF CreditAnswered
<1>3. q \in asks /\ q.op = "credit" /\ q.arg[1] \in Customers /\ q.arg[2] \in 1 .. LastPage
  <2>1. q \in asks /\ q.op = "credit"
    BY DEF Due
  <2> QED
    BY <2>1, UserPanelFacts DEF AskFits
<1>4. PICK d, p : /\ asks' = (asks \ {q}) \cup {d, p}
                  /\ d.op = "details" /\ d.arg = q.arg[1] /\ d.n = pageAsks + 1
                  /\ p.op = "list" /\ p.arg = q.arg[2] /\ p.n = pageAsks + 2
  BY <1>1, AskParts
<1>5. /\ pageAsks' \in pageAsks .. MaxAsks /\ AskFits(d) /\ AskFits(p) /\ d.n <= pageAsks' /\ p.n <= pageAsks'
      /\ pageAsks' \in Nat /\ p.n \in Nat /\ pageAsks < p.n
  BY <1>1, <1>2, <1>3, <1>4, UserPanelFacts DEF AskFits
<1>6. UserPanelTyped'
  <2>1. pluck' \subseteq {"overtaken", "moved", "hasty", "lost"}
    BY <1>1, UserPanelFacts
  <2> QED
    BY <1>2, <1>4, <1>5, <2>1, AsksStay, UserPanelFacts DEF UserPanelTyped
<1>7. ASSUME pluck' \cap Misled = {} PROVE PageFollows'
  <2>1. p.arg = pageNo' /\ pluck \cap Misled = {}
    BY <1>1, <1>2, <1>4, <1>7 DEF Misled
  <2>2. \A s \in {d, p} : s.op = "list" => s = p
    BY <1>4
  <2> QED
    BY <1>2, <1>4, <1>5, <2>1, <2>2, NewListIsLast
<1>8. pluck' = {} => OneIsConcerned'
  <2>1. \A u \in Customers : Concerned(u)' => Concerned(u)
    BY <1>2, <1>3, <1>4, UserPanelFacts DEF Concerned, IsAbout
  <2> QED
    BY <1>1, <2>1, ConcernStays
<1>9. FormComesBack'
  BY <1>2 DEF FormComesBack
<1> QED
  BY <1>6, <1>7, <1>8, <1>9 DEF UserPanelInv

LEMMA PageBannedHolds == ASSUME UserPanelInv, BanAnswered PROVE UserPanelInv'
<1>1. PICK q \in Due("ban") :
        /\ pageAsks + 2 <= MaxAsks
        /\ asks' = (asks \ {q}) \cup {Ask("list", q.arg[3], pageAsks + 1)}
                                \cup {Ask("details", u, pageAsks + 2) : u \in {q.arg[1]} \cap {q.arg[2]}}
        /\ pluck' = pluck \cup (IF q.arg[3] # pageNo THEN {"moved"} ELSE {})
  BY DEF BanAnswered, Moved, ReloadsList
<1>2. pageAsks' = pageAsks + 2 /\ UNCHANGED <<pageNo, listOf, selectedUser, detailsOf, draftFor, submitting>>
  BY DEF BanAnswered
<1>3. q \in asks /\ q.op = "ban" /\ q.arg[1] \in Customers /\ q.arg[3] \in 1 .. LastPage
  <2>1. q \in asks /\ q.op = "ban"
    BY DEF Due
  <2> QED
    BY <2>1, UserPanelFacts DEF AskFits
<1>4. PICK p : p.op = "list" /\ p.arg = q.arg[3] /\ p.n = pageAsks + 1 /\ p = Ask("list", q.arg[3], pageAsks + 1)
  BY AskParts
<1>5. PICK more : /\ more = {Ask("details", u, pageAsks + 2) : u \in {q.arg[1]} \cap {q.arg[2]}}
                  /\ \A d \in more : /\ d.op = "details" /\ d.n = pageAsks + 2
                                     /\ d.arg = q.arg[1] /\ q.arg[2] = q.arg[1]
  <2>1. PICK more : more = {Ask("details", u, pageAsks + 2) : u \in {q.arg[1]} \cap {q.arg[2]}}
    OBVIOUS
  <2>2. ASSUME NEW d \in more
        PROVE  /\ d.op = "details" /\ d.n = pageAsks + 2
               /\ d.arg = q.arg[1] /\ q.arg[2] = q.arg[1]
    <3>1. PICK u : u = q.arg[1] /\ u = q.arg[2] /\ d = Ask("details", u, pageAsks + 2)
      BY <2>1
    <3> QED
      BY <3>1 DEF Ask
  <2> QED
    BY <2>1, <2>2
<1>6. asks' = (asks \ {q}) \cup ({p} \cup more)
  BY <1>1, <1>4, <1>5
<1>7. /\ pageAsks' \in pageAsks .. MaxAsks /\ pageAsks' \in Nat /\ p.n \in Nat /\ pageAsks < p.n /\ p.n <= pageAsks'
      /\ \A s \in {p} \cup more : AskFits(s) /\ s.n <= pageAsks'
  <2>1. pageAsks' \in pageAsks .. MaxAsks /\ pageAsks' \in Nat /\ p.n \in Nat \ {0} /\ pageAsks < p.n /\ p.n <= pageAsks'
    BY <1>1, <1>2, <1>4, UserPanelFacts
  <2>2. pageAsks + 2 \in Nat \ {0} /\ pageAsks + 2 <= pageAsks'
    BY <1>2, UserPanelFacts
  <2>3. AskFits(p)
    BY <1>3, <1>4, <2>1 DEF AskFits
  <2>4. \A d \in more : AskFits(d) /\ d.n <= pageAsks'
    BY <1>3, <1>5, <2>2 DEF AskFits
  <2> QED
    BY <2>1, <2>3, <2>4
<1>8. UserPanelTyped'
  <2>1. pluck' \subseteq {"overtaken", "moved", "hasty", "lost"}
    BY <1>1, UserPanelFacts
  <2> QED
    BY <1>2, <1>6, <1>7, <2>1, AsksStay, UserPanelFacts DEF UserPanelTyped
<1>9. ASSUME pluck' \cap Misled = {} PROVE PageFollows'
  <2>1. p.arg = pageNo' /\ pluck \cap Misled = {}
    BY <1>1, <1>2, <1>4, <1>9 DEF Misled
  <2>2. \A s \in {p} \cup more : s.op = "list" => s = p
    BY <1>5
  <2> QED
    BY <1>2, <1>4, <1>6, <1>7, <2>1, <2>2, NewListIsLast
<1>10. pluck' = {} => OneIsConcerned'
  <2>1. \A u \in Customers : Concerned(u)' => Concerned(u)
    BY <1>2, <1>3, <1>4, <1>5, <1>6 DEF Concerned, IsAbout
  <2> QED
    BY <1>1, <2>1, ConcernStays
<1>11. FormComesBack'
  BY <1>2, <1>3, <1>6, CreditStays
<1> QED
  BY <1>8, <1>9, <1>10, <1>11 DEF UserPanelInv

LEMMA PageLostHolds == ASSUME UserPanelInv, AnswerLost PROVE UserPanelInv'
<1>1. PICK q \in asks : /\ asks' = (asks \ {q}) \cup {} /\ submitting' = IF q.op = "credit" THEN FALSE ELSE submitting
  BY DEF AnswerLost
<1>2. pluck' = pluck \cup {"lost"} /\ UNCHANGED <<pageNo, listOf, selectedUser, detailsOf, draftFor, pageAsks>>
  BY DEF AnswerLost
<1>3. UserPanelTyped'
  <2>1. pluck' \subseteq {"overtaken", "moved", "hasty", "lost"}
    BY <1>2, UserPanelFacts
  <2>2. submitting' \in BOOLEAN
    BY <1>1, UserPanelFacts
  <2> QED
    BY <1>1, <1>2, <2>1, <2>2, UserPanelFacts DEF UserPanelTyped
<1>4. FormComesBack'
  <2>1. CASE q.op = "credit"
    BY <1>1, <2>1 DEF FormComesBack
  <2>2. CASE q.op # "credit"
    BY <1>1, <2>2, CreditStays
  <2> QED
    BY <2>1, <2>2
<1>5. pluck' \cap Misled # {} /\ pluck' # {}
  BY <1>2 DEF Misled
<1> QED
  BY <1>3, <1>4, <1>5 DEF UserPanelInv

\* The page of users shows what it asked for last, and credits whom it should.
THEOREM UsersAreListed ==
    UserPanelSpec => [](UserPanelTypeOK /\ PageIsListed /\ CreditIsForDraft /\ FormComesBack)
<1>1. ASSUME UserPanelInv, [UserPanelNext]_userPanelVars PROVE UserPanelInv'
  <2>1. CASE UNCHANGED userPanelVars
    BY <1>1, <2>1
    DEF userPanelVars, UserPanelInv, UserPanelTyped, FormComesBack, PageFollows, LastListIs, OneIsConcerned, Concerned, Due
  <2> QED
    BY <1>1, <2>1, PageSetHolds, PageSearchHolds, PageLoadHolds, PageFormHolds, PageCreditHolds, PageBanHolds,
       PageListedHolds, PageDetailedHolds, PageCreditedHolds, PageBannedHolds, PageLostHolds
    DEF UserPanelNext
<1>2. ASSUME UserPanelInv PROVE UserPanelTypeOK /\ PageIsListed /\ CreditIsForDraft /\ FormComesBack
  <2>1. UserPanelTypeOK
    BY <1>2, UserPanelFacts DEF UserPanelTypeOK
  <2>2. PageIsListed
    <3>1. SUFFICES ASSUME Due("list") = {}, pluck \cap Misled = {} PROVE listOf[1] = pageNo
      BY DEF PageIsListed, Misled
    <3> QED
      BY <1>2, <3>1, UserPanelFacts DEF PageFollows, LastListIs
  <2>3. CreditIsForDraft
    <3>1. SUFFICES ASSUME pluck = {}, selectedUser # None, draftFor # None PROVE selectedUser = draftFor
      BY DEF CreditIsForDraft
    <3>2. Concerned(selectedUser) /\ Concerned(draftFor) /\ {selectedUser, draftFor} \subseteq Customers
      BY <1>2, <3>1, UserPanelFacts DEF Concerned
    <3> QED
      BY <1>2, <3>1, <3>2, UserPanelFacts DEF OneIsConcerned
  <2> QED
    BY <1>2, <2>1, <2>2, <2>3, UserPanelFacts
<1> QED
  BY UserPanelBegins, <1>1, <1>2, PTL DEF UserPanelSpec

-----------------------------------------------------------------------------
(* A tab and its session.                                                   *)

SessionCalls == [pc : {"idle", "sent", "answered", "arrived", "failed"},
                 op : {"none", "check", "recheck", "login", "register", "logout"},
                 who : {None} \cup People, left : 0 .. Retries]

SessionsTyped ==
    /\ cookie \in {None} \cup People /\ banned \subseteq People
    /\ store \in [user : {None} \cup People, loading : BOOLEAN]
    /\ scall \in [Calls -> SessionCalls]
    /\ \A c \in Calls : /\ scall[c].pc = "idle" => scall[c] = SIdle
                        /\ scall[c].op = "none" => scall[c].pc = "idle"
    /\ hidden \in {"none", "crossed", "lost", "elsewhere"}

\* The account that requests with the cookie act for.
ActsFor(jar, barred) == IF jar \in barred THEN None ELSE jar
Effective == ActsFor(cookie, banned)

\* What a request that nothing hides knows: a check or a registration is shown
\* as a spinner; a check has the cookie's account,
\* a login or a registration that set the cookie was admitted, and before that
\* the tab is as it was; a logout has emptied the cookie.
Knows(q, jar, barred, tab) ==
    /\ q.pc = "failed" => q.op \in {"login", "register"}
    /\ q.op \in {"check", "register"} => tab.loading
    /\ IsCheck(q.op) => q.who = IF q.pc = "sent" THEN jar ELSE ActsFor(jar, barred)
    /\ q.op \in {"login", "register"} =>
          /\ q.pc # "arrived" => tab.user = ActsFor(jar, barred)
          /\ q.pc = "answered" => q.who \notin barred
          /\ q.pc = "arrived" => q.who = jar /\ q.who \notin barred
    /\ q.op = "logout" => /\ q.pc # "sent" => q.who = None
                          /\ q.pc = "arrived" => jar = None
KnowsSession(q) == Knows(q, cookie, banned, store)

TabFollows ==
    /\ \A c, d \in Calls : scall[c].pc # "idle" /\ scall[d].pc # "idle" => c = d
    /\ ~Busy => store.user = Effective
    /\ \A c \in Calls : scall[c].pc # "idle" => KnowsSession(scall[c])

SessionsInv == SessionsTyped /\ SpinnerEnds /\ (hidden = "none" => TabFollows)

LEMMA SessionCallKinds ==
    /\ SIdle \in SessionCalls /\ SIdle.pc = "idle" /\ SIdle.op = "none"
    /\ \A pc \in {"sent", "answered", "arrived", "failed"},
          op \in {"check", "recheck", "login", "register", "logout"},
          who \in {None} \cup People, tries \in 0 .. Retries :
          \E q \in SessionCalls : /\ q = SCall(pc, op, who, tries) /\ q.pc = pc /\ q.op = op /\ q.who = who /\ q.left = tries
<1>1. 0 \in 0 .. Retries
  BY SessionsAssumption
<1>2. SIdle \in SessionCalls /\ SIdle.pc = "idle" /\ SIdle.op = "none"
  BY <1>1 DEF SIdle, SCall, SessionCalls
<1>3. ASSUME NEW pc \in {"sent", "answered", "arrived", "failed"},
             NEW op \in {"check", "recheck", "login", "register", "logout"},
             NEW who \in {None} \cup People, NEW tries \in 0 .. Retries
      PROVE  \E q \in SessionCalls : /\ q = SCall(pc, op, who, tries) /\ q.pc = pc /\ q.op = op
                                     /\ q.who = who /\ q.left = tries
  <2>1. SCall(pc, op, who, tries) \in SessionCalls
    BY DEF SCall, SessionCalls
  <2>2. /\ SCall(pc, op, who, tries).pc = pc /\ SCall(pc, op, who, tries).op = op
        /\ SCall(pc, op, who, tries).who = who /\ SCall(pc, op, who, tries).left = tries
    BY DEF SCall
  <2> QED
    BY <2>1, <2>2
<1> QED
  BY <1>2, <1>3

LEMMA StoreParts ==
    \A u \in {None} \cup People, l \in BOOLEAN :
        /\ Store(u, l) \in [user : {None} \cup People, loading : BOOLEAN]
        /\ Store(u, l).user = u /\ (Store(u, l).loading <=> l)
BY DEF Store

LEMMA SessionFacts ==
    ASSUME SessionsInv
    PROVE  /\ cookie \in {None} \cup People /\ banned \subseteq People /\ Effective \in {None} \cup People
           /\ store \in [user : {None} \cup People, loading : BOOLEAN]
           /\ store.user \in {None} \cup People /\ store.loading \in BOOLEAN
           /\ store = Store(store.user, store.loading)
           /\ scall \in [Calls -> SessionCalls]
           /\ \A c \in Calls : /\ scall[c] \in SessionCalls
                               /\ scall[c].pc = "idle" => scall[c] = SIdle
                               /\ scall[c].op = "none" => scall[c].pc = "idle"
                               /\ scall[c].pc \in {"idle", "sent", "answered", "arrived", "failed"}
                               /\ scall[c].op \in {"none", "check", "recheck", "login", "register", "logout"}
                               /\ scall[c].who \in {None} \cup People /\ scall[c].left \in 0 .. Retries
           /\ hidden \in {"none", "crossed", "lost", "elsewhere"}
           /\ SpinnerEnds /\ (hidden = "none" => TabFollows)
<1>1. /\ cookie \in {None} \cup People /\ banned \subseteq People
      /\ store \in [user : {None} \cup People, loading : BOOLEAN] /\ scall \in [Calls -> SessionCalls]
      /\ \A c \in Calls : /\ scall[c].pc = "idle" => scall[c] = SIdle
                          /\ scall[c].op = "none" => scall[c].pc = "idle"
      /\ hidden \in {"none", "crossed", "lost", "elsewhere"} /\ SpinnerEnds /\ (hidden = "none" => TabFollows)
  BY DEF SessionsInv, SessionsTyped
<1>2. \A c \in Calls : /\ scall[c] \in SessionCalls
                       /\ scall[c].pc \in {"idle", "sent", "answered", "arrived", "failed"}
                       /\ scall[c].op \in {"none", "check", "recheck", "login", "register", "logout"}
                       /\ scall[c].who \in {None} \cup People /\ scall[c].left \in 0 .. Retries
  BY <1>1 DEF SessionCalls
<1>3. Effective \in {None} \cup People
  BY <1>1 DEF Effective, ActsFor
<1>4. store.user \in {None} \cup People /\ store.loading \in BOOLEAN /\ store = Store(store.user, store.loading)
  BY <1>1 DEF Store
<1> QED
  BY <1>1, <1>2, <1>3, <1>4

LEMMA SessionCallSet ==
    ASSUME SessionsInv, NEW c \in Calls, NEW q \in SessionCalls, scall' = [scall EXCEPT ![c] = q]
    PROVE  /\ scall' \in [Calls -> SessionCalls] /\ scall'[c] = q
           /\ \A d \in Calls : d # c => scall'[d] = scall[d]
BY SessionFacts

\* What a step that moves one call keeps of the types.
LEMMA SessionTypedStep ==
    ASSUME SessionsInv, NEW c \in Calls, NEW q \in SessionCalls, scall' = [scall EXCEPT ![c] = q],
           q.pc = "idle" => q = SIdle, q.op = "none" => q.pc = "idle",
           cookie' \in {None} \cup People, banned' = banned,
           store' \in [user : {None} \cup People, loading : BOOLEAN],
           hidden' \in {"none", "crossed", "lost", "elsewhere"}
    PROVE  SessionsTyped'
<1>1. /\ scall' \in [Calls -> SessionCalls] /\ scall'[c] = q
      /\ \A d \in Calls : d # c => scall'[d] = scall[d]
  BY SessionCallSet
<1>2. \A d \in Calls : /\ scall'[d].pc = "idle" => scall'[d] = SIdle
                       /\ scall'[d].op = "none" => scall'[d].pc = "idle"
  BY <1>1, SessionFacts
<1> QED
  BY <1>1, <1>2, SessionFacts DEF SessionsTyped

\* The spinner's request goes on, or takes the spinner away.
LEMMA SpinnerStep ==
    ASSUME SessionsInv, NEW c \in Calls, NEW q \in SessionCalls, scall' = [scall EXCEPT ![c] = q],
           store'.loading => \/ q.pc # "idle" /\ q.op \in {"check", "register"}
                             \/ store.loading /\ scall[c].op \notin {"check", "register"}
    PROVE  SpinnerEnds'
<1>1. scall'[c] = q /\ \A d \in Calls : d # c => scall'[d] = scall[d]
  BY SessionCallSet
<1>2. SUFFICES ASSUME store'.loading
               PROVE  \E d \in Calls : scall'[d].pc # "idle" /\ scall'[d].op \in {"check", "register"}
  BY DEF SpinnerEnds
<1>3. CASE q.pc # "idle" /\ q.op \in {"check", "register"}
  BY <1>1, <1>3
<1>4. CASE store.loading /\ scall[c].op \notin {"check", "register"}
  <2>1. PICK d \in Calls : scall[d].pc # "idle" /\ scall[d].op \in {"check", "register"}
    BY <1>4, SessionFacts DEF SpinnerEnds
  <2> QED
    BY <1>1, <1>4, <2>1
<1> QED
  BY <1>2, <1>3, <1>4

\* The tab follows, if the one call does.
LEMMA FollowsStep ==
    ASSUME SessionsInv, hidden = "none", NEW c \in Calls, NEW q \in SessionCalls, scall' = [scall EXCEPT ![c] = q],
           scall[c].pc # "idle" \/ ~Busy,
           q.pc # "idle" => Knows(q, cookie', banned', store'),
           q.pc = "idle" => store'.user = Effective'
    PROVE  TabFollows'
<1>1. scall'[c] = q /\ \A d \in Calls : d # c => scall'[d] = scall[d]
  BY SessionCallSet
<1>2. \A d \in Calls : d # c => scall[d].pc = "idle"
  BY SessionFacts DEF TabFollows, Busy
<1>3. \A d \in Calls : scall'[d].pc # "idle" => d = c
  BY <1>1, <1>2
<1>4. Busy' <=> q.pc # "idle"
  BY <1>1, <1>3 DEF Busy
<1>5. \A d \in Calls : scall'[d].pc # "idle" => Knows(scall'[d], cookie', banned', store')
  BY <1>1, <1>3
<1> QED
  BY <1>3, <1>4, <1>5 DEF TabFollows, KnowsSession

\* The page has been loaded: a check is on its way, and the spinner is shown.
LEMMA LoadingHolds ==
    ASSUME SessionsTyped', cookie' = cookie, store' = Store(None, TRUE), scall' = Loading
    PROVE  SpinnerEnds' /\ TabFollows'
<1>1. PICK k \in Calls : k = CHOOSE d \in Calls : TRUE
  BY RequestsAssumption
<1>2. /\ scall'[k].pc = "sent" /\ scall'[k].op = "check" /\ scall'[k].who = cookie'
      /\ \A d \in Calls : d # k => scall'[d].pc = "idle"
  BY <1>1 DEF Loading, SCall, SIdle
<1>3. SpinnerEnds'
  BY <1>2 DEF SpinnerEnds
<1>4. Busy'
  BY <1>2 DEF Busy
<1>8. store'.loading
  BY StoreParts
<1>5. Knows(scall'[k], cookie', banned', store')
  BY <1>2, <1>8 DEF Knows, IsCheck
<1>6. \A d \in Calls : scall'[d].pc # "idle" => d = k
  BY <1>2
<1>7. \A d \in Calls : scall'[d].pc # "idle" => Knows(scall'[d], cookie', banned', store')
  BY <1>5, <1>6
<1> QED
  BY <1>3, <1>4, <1>6, <1>7 DEF TabFollows, KnowsSession

LEMMA LoadingFits == ASSUME cookie \in {None} \cup People
                     PROVE  /\ Loading \in [Calls -> SessionCalls]
                            /\ \A c \in Calls : /\ Loading[c].pc = "idle" => Loading[c] = SIdle
                                                /\ Loading[c].op = "none" => Loading[c].pc = "idle"
<1>1. 0 \in 0 .. Retries
  BY SessionsAssumption
<1>2. PICK q \in SessionCalls : q = SCall("sent", "check", cookie, 0) /\ q.pc = "sent" /\ q.op = "check"
  BY <1>1, SessionCallKinds
<1>3. Loading = [c \in Calls |-> IF c = CHOOSE d \in Calls : TRUE THEN q ELSE SIdle]
  BY <1>2 DEF Loading
<1> QED
  BY <1>2, <1>3, SessionCallKinds

LEMMA SessionsBegin == SessionsInit => SessionsInv
<1> SUFFICES ASSUME SessionsInit PROVE SessionsInv
  OBVIOUS
<1>1. cookie \in {None} \cup People /\ banned = {} /\ store = Store(None, TRUE) /\ scall = Loading /\ hidden = "none"
  BY DEF SessionsInit
<1>2. SessionsTyped
  BY <1>1, LoadingFits, StoreParts DEF SessionsTyped
<1>3. PICK k \in Calls : k = CHOOSE d \in Calls : TRUE
  BY RequestsAssumption
<1>4. /\ scall[k].pc = "sent" /\ scall[k].op = "check" /\ scall[k].who = cookie
      /\ \A d \in Calls : d # k => scall[d].pc = "idle"
  BY <1>1, <1>3 DEF Loading, SCall, SIdle
<1>5. SpinnerEnds
  BY <1>4 DEF SpinnerEnds
<1>8. store.loading
  BY <1>1, StoreParts
<1>6. Busy /\ KnowsSession(scall[k])
  BY <1>4, <1>8 DEF Busy, KnowsSession, Knows, IsCheck
<1>7. TabFollows
  BY <1>4, <1>6 DEF TabFollows
<1> QED
  BY <1>2, <1>5, <1>7 DEF SessionsInv

LEMMA SessionElsewhereHolds == ASSUME SessionsInv, Elsewhere PROVE SessionsInv'
<1>1. /\ cookie' \in {None} \cup People /\ banned' \subseteq People
      /\ hidden' = "elsewhere" /\ UNCHANGED <<store, scall>>
  BY SessionFacts DEF Elsewhere
<1>2. SessionsTyped'
  BY <1>1, SessionFacts DEF SessionsTyped
<1>3. SpinnerEnds'
  BY <1>1, SessionFacts DEF SpinnerEnds
<1> QED
  BY <1>1, <1>2, <1>3 DEF SessionsInv

LEMMA SessionReloadHolds == ASSUME SessionsInv, Reloads PROVE SessionsInv'
<1>1. /\ store' = Store(None, TRUE) /\ scall' = Loading /\ hidden' \in {"none", "lost"}
      /\ UNCHANGED <<cookie, banned>>
  BY DEF Reloads
<1>2. SessionsTyped'
  <2>1. /\ scall' \in [Calls -> SessionCalls]
        /\ \A c \in Calls : /\ scall'[c].pc = "idle" => scall'[c] = SIdle
                            /\ scall'[c].op = "none" => scall'[c].pc = "idle"
    BY <1>1, SessionFacts, LoadingFits
  <2>2. store' \in [user : {None} \cup People, loading : BOOLEAN]
    BY <1>1, StoreParts
  <2> QED
    BY <1>1, <2>1, <2>2, SessionFacts DEF SessionsTyped
<1> QED
  BY <1>1, <1>2, LoadingHolds DEF SessionsInv

\* A request is sent, by a tab that is shown.
LEMMA SessionSendHolds ==
    ASSUME SessionsInv, NEW c \in Calls, NEW op \in {"login", "register", "logout"}, NEW p \in {None} \cup People,
           Sends(c, SCall("sent", op, p, 0)), UNCHANGED <<cookie, banned>>,
           store' = Store(store.user, op = "register")
    PROVE  SessionsInv'
<1>1. 0 \in 0 .. Retries
  BY SessionsAssumption
<1>2. PICK q \in SessionCalls : /\ q = SCall("sent", op, p, 0) /\ q.pc = "sent" /\ q.op = op /\ q.who = p
  BY <1>1, SessionCallKinds
<1>3. /\ scall[c].pc = "idle" /\ ~store.loading /\ scall' = [scall EXCEPT ![c] = q]
      /\ hidden' = IF \E d \in Calls : scall[d].op \in {"login", "recheck", "logout"} THEN "crossed" ELSE hidden
  BY <1>2 DEF Sends, Shown, Proceeds
<1>4. /\ store' \in [user : {None} \cup People, loading : BOOLEAN] /\ store'.user = store.user
      /\ store'.loading <=> op = "register"
  BY SessionFacts, StoreParts
<1>5. SessionsTyped'
  <2>1. hidden' \in {"none", "crossed", "lost", "elsewhere"} /\ cookie' \in {None} \cup People
    BY <1>3, SessionFacts
  <2> QED
    BY <1>2, <1>3, <1>4, <2>1, SessionTypedStep
<1>6. SpinnerEnds'
  BY <1>2, <1>3, <1>4, SpinnerStep
<1>7. ASSUME hidden' = "none" PROVE TabFollows'
  <2>1. hidden = "none" /\ \A d \in Calls : scall[d].op \notin {"login", "recheck", "logout"}
    BY <1>3, <1>7
  <2>2. ~Busy
    <3>1. SUFFICES ASSUME NEW d \in Calls, scall[d].pc # "idle" PROVE FALSE
      BY DEF Busy
    <3>2. scall[d].op \in {"check", "register"}
      BY <2>1, <3>1, SessionFacts
    <3>3. KnowsSession(scall[d])
      BY <2>1, <3>1, SessionFacts DEF TabFollows
    <3> QED
      BY <1>3, <3>2, <3>3 DEF KnowsSession, Knows, Effective, ActsFor, IsCheck
  <2>3. store.user = Effective
    BY <2>1, <2>2, SessionFacts DEF TabFollows
  <2>4. Knows(q, cookie', banned', store')
    BY <1>2, <1>4, <2>3 DEF Knows, Effective, ActsFor, IsCheck
  <2> QED
    BY <1>2, <1>3, <2>1, <2>2, <2>4, FollowsStep
<1> QED
  BY <1>5, <1>6, <1>7 DEF SessionsInv

LEMMA SessionLoginHolds ==
    ASSUME SessionsInv, NEW c \in Calls, login(c) \/ registerSession(c) \/ logout(c)
    PROVE  SessionsInv'
<1>1. CASE login(c)
  <2>1. PICK p \in People : Sends(c, SCall("sent", "login", p, 0)) /\ UNCHANGED <<cookie, banned, store>>
    BY <1>1 DEF login
  <2>2. ~store.loading
    BY <2>1 DEF Sends, Shown
  <2>3. store' = Store(store.user, "login" = "register")
    BY <2>1, <2>2, SessionFacts DEF Store
  <2> QED
    BY <2>1, <2>3, SessionSendHolds
<1>2. CASE registerSession(c)
  <2>1. PICK p \in People : /\ Sends(c, SCall("sent", "register", p, 0)) /\ UNCHANGED <<cookie, banned>>
                            /\ store' = Store(store.user, TRUE)
    BY <1>2 DEF registerSession
  <2>2. store' = Store(store.user, "register" = "register")
    BY <2>1 DEF Store
  <2> QED
    BY <2>1, <2>2, SessionSendHolds
<1>3. CASE logout(c)
  <2>1. Sends(c, SCall("sent", "logout", None, 0)) /\ UNCHANGED <<cookie, banned, store>>
    BY <1>3 DEF logout
  <2>2. ~store.loading
    BY <2>1 DEF Sends, Shown
  <2>3. store' = Store(store.user, "logout" = "register")
    BY <2>1, <2>2, SessionFacts DEF Store
  <2> QED
    BY <2>1, <2>3, SessionSendHolds
<1> QED
  BY <1>1, <1>2, <1>3

\* A request that is on its way goes on, and the tab stays.
LEMMA SessionGoesOn ==
    ASSUME SessionsInv, NEW c \in Calls, NEW q \in SessionCalls, scall' = [scall EXCEPT ![c] = q],
           scall[c].pc # "idle", q.pc # "idle", q.op # "none",
           q.op = scall[c].op \/ (scall[c].op = "login" /\ q.op = "recheck"),
           cookie' \in {None} \cup People, hidden' \in {hidden, "lost"}, UNCHANGED <<banned, store>>,
           hidden' = "none" /\ KnowsSession(scall[c]) => Knows(q, cookie', banned', store')
    PROVE  SessionsInv'
<1>1. SessionsTyped'
  <2>1. hidden' \in {"none", "crossed", "lost", "elsewhere"}
    BY SessionFacts
  <2> QED
    BY <2>1, SessionFacts, SessionTypedStep
<1>2. SpinnerEnds'
  <2>1. q.op \in {"check", "register"} \/ scall[c].op \notin {"check", "register"}
    OBVIOUS
  <2> QED
    BY <2>1, SpinnerStep
<1>3. ASSUME hidden' = "none" PROVE TabFollows'
  <2>1. hidden = "none"
    BY <1>3
  <2>2. KnowsSession(scall[c])
    BY <2>1, SessionFacts DEF TabFollows
  <2> QED
    BY <1>3, <2>1, <2>2, FollowsStep
<1> QED
  BY <1>1, <1>2, <1>3 DEF SessionsInv

LEMMA SessionAnswerHolds == ASSUME SessionsInv, NEW c \in Calls, ServerAnswers(c) PROVE SessionsInv'
<1>1. scall[c].pc = "sent" /\ UNCHANGED <<cookie, banned, store, hidden>>
  BY DEF ServerAnswers
<1>2. /\ scall[c].op \in {"check", "recheck", "login", "register", "logout"}
      /\ scall[c].who \in {None} \cup People /\ scall[c].left \in 0 .. Retries /\ 0 \in 0 .. Retries
  BY <1>1, SessionFacts, SessionsAssumption
<1>3. CASE IsCheck(scall[c].op) /\ Proceeds(c, SCall("answered", scall[c].op,
                                     IF scall[c].who \notin banned THEN scall[c].who ELSE None, scall[c].left))
  <2>4. PICK w \in {None} \cup People : w = IF scall[c].who \notin banned THEN scall[c].who ELSE None
    BY <1>2
  <2>5. PICK o \in {"check", "recheck", "login", "register", "logout"}, n \in 0 .. Retries :
            o = scall[c].op /\ n = scall[c].left
    BY <1>2
  <2>6. PICK q \in SessionCalls : q = SCall("answered", o, w, n) /\ q.pc = "answered" /\ q.op = o /\ q.who = w
    BY SessionCallKinds
  <2>1. /\ q = SCall("answered", scall[c].op, IF scall[c].who \notin banned THEN scall[c].who ELSE None, scall[c].left)
        /\ q.pc = "answered" /\ q.op = scall[c].op
        /\ q.who = IF scall[c].who \notin banned THEN scall[c].who ELSE None
    BY <2>4, <2>5, <2>6
  <2>2. scall' = [scall EXCEPT ![c] = q]
    BY <1>3, <2>1 DEF Proceeds
  <2>3. KnowsSession(scall[c]) => Knows(q, cookie', banned', store')
    BY <1>1, <1>3, <2>1 DEF KnowsSession, Knows, ActsFor, IsCheck
  <2> QED
    BY <1>1, <1>2, <2>1, <2>2, <2>3, SessionFacts, SessionGoesOn
<1>4. CASE /\ scall[c].op \in {"login", "register"} /\ scall[c].who \notin banned
           /\ Proceeds(c, SCall("answered", scall[c].op, scall[c].who, 0))
  <2>1. PICK q \in SessionCalls : /\ q = SCall("answered", scall[c].op, scall[c].who, 0)
                                  /\ q.pc = "answered" /\ q.op = scall[c].op /\ q.who = scall[c].who
    BY <1>2, SessionCallKinds
  <2>2. scall' = [scall EXCEPT ![c] = q]
    BY <1>4, <2>1 DEF Proceeds
  <2>3. KnowsSession(scall[c]) => Knows(q, cookie', banned', store')
    BY <1>1, <1>4, <2>1 DEF KnowsSession, Knows, ActsFor, IsCheck
  <2> QED
    BY <1>1, <1>2, <2>1, <2>2, <2>3, SessionFacts, SessionGoesOn
<1>5. CASE scall[c].op \in {"login", "register"} /\ Proceeds(c, SCall("failed", scall[c].op, None, 0))
  <2>1. PICK q \in SessionCalls : /\ q = SCall("failed", scall[c].op, None, 0)
                                  /\ q.pc = "failed" /\ q.op = scall[c].op /\ q.who = None
    BY <1>2, SessionCallKinds
  <2>2. scall' = [scall EXCEPT ![c] = q]
    BY <1>5, <2>1 DEF Proceeds
  <2>3. KnowsSession(scall[c]) => Knows(q, cookie', banned', store')
    BY <1>1, <1>5, <2>1 DEF KnowsSession, Knows, ActsFor, IsCheck
  <2> QED
    BY <1>1, <1>2, <2>1, <2>2, <2>3, SessionFacts, SessionGoesOn
<1>6. CASE scall[c].op = "logout" /\ Proceeds(c, SCall("answered", "logout", None, 0))
  <2>1. PICK q \in SessionCalls : /\ q = SCall("answered", "logout", None, 0)
                                  /\ q.pc = "answered" /\ q.op = "logout" /\ q.who = None
    BY <1>2, SessionCallKinds
  <2>2. scall' = [scall EXCEPT ![c] = q]
    BY <1>6, <2>1 DEF Proceeds
  <2>3. KnowsSession(scall[c]) => Knows(q, cookie', banned', store')
    BY <1>1, <1>6, <2>1 DEF KnowsSession, Knows, ActsFor, IsCheck
  <2> QED
    BY <1>1, <1>2, <1>6, <2>1, <2>2, <2>3, SessionFacts, SessionGoesOn
<1> QED
  BY <1>3, <1>4, <1>5, <1>6 DEF ServerAnswers

LEMMA SessionArriveHolds == ASSUME SessionsInv, NEW c \in Calls, Arrives(c) PROVE SessionsInv'
<1>1. /\ scall[c].pc = "answered" /\ UNCHANGED <<banned, store, hidden>>
      /\ cookie' = IF IsCheck(scall[c].op) THEN cookie ELSE scall[c].who
      /\ scall' = [scall EXCEPT ![c] = [scall[c] EXCEPT !.pc = "arrived"]]
  BY DEF Arrives, Proceeds
<1>2. PICK q \in SessionCalls : /\ q = [scall[c] EXCEPT !.pc = "arrived"]
                                /\ q.pc = "arrived" /\ q.op = scall[c].op /\ q.who = scall[c].who
  <2>1. PICK r \in SessionCalls : r = scall[c]
    BY SessionFacts
  <2>2. [r EXCEPT !.pc = "arrived"] \in SessionCalls
    BY DEF SessionCalls
  <2>3. /\ [r EXCEPT !.pc = "arrived"].pc = "arrived" /\ [r EXCEPT !.pc = "arrived"].op = r.op
        /\ [r EXCEPT !.pc = "arrived"].who = r.who
    BY DEF SessionCalls
  <2> QED
    BY <2>1, <2>2, <2>3
<1>3. scall' = [scall EXCEPT ![c] = q]
  BY <1>1, <1>2
<1>4. /\ scall[c].op \in {"check", "recheck", "login", "register", "logout"} /\ scall[c].who \in {None} \cup People
      /\ cookie' \in {None} \cup People
  BY <1>1, SessionFacts
<1>5. KnowsSession(scall[c]) => Knows(q, cookie', banned', store')
  BY <1>1, <1>2, <1>4 DEF KnowsSession, Knows, ActsFor, IsCheck
<1> QED
  BY <1>1, <1>2, <1>3, <1>4, <1>5, SessionGoesOn

LEMMA SessionLostHolds == ASSUME SessionsInv, NEW c \in Calls, Lost(c) PROVE SessionsInv'
<1>1. /\ scall[c].pc \in {"sent", "answered"} /\ Proceeds(c, SCall("failed", scall[c].op, None, scall[c].left))
      /\ hidden' = IF scall[c].op = "logout" \/ IsCheck(scall[c].op) THEN "lost" ELSE hidden
      /\ UNCHANGED <<cookie, banned, store>>
  BY DEF Lost
<1>2. scall[c].op \in {"check", "recheck", "login", "register", "logout"} /\ scall[c].left \in 0 .. Retries
  BY <1>1, SessionFacts
<1>3. PICK q \in SessionCalls : /\ q = SCall("failed", scall[c].op, None, scall[c].left)
                                /\ q.pc = "failed" /\ q.op = scall[c].op /\ q.who = None
  BY <1>2, SessionCallKinds
<1>4. scall' = [scall EXCEPT ![c] = q]
  BY <1>1, <1>3 DEF Proceeds
<1>5. hidden' = "none" /\ KnowsSession(scall[c]) => Knows(q, cookie', banned', store')
  BY <1>1, <1>2, <1>3 DEF KnowsSession, Knows, ActsFor, IsCheck
<1>6. cookie' \in {None} \cup People /\ hidden' \in {hidden, "lost"}
  BY <1>1, SessionFacts
<1> QED
  BY <1>1, <1>2, <1>3, <1>4, <1>5, <1>6, SessionGoesOn

\* A request is over.
LEMMA SessionEnds ==
    ASSUME SessionsInv, NEW c \in Calls, scall[c].pc # "idle", scall' = [scall EXCEPT ![c] = SIdle],
           NEW u \in {None} \cup People, NEW l \in BOOLEAN, store' = Store(u, l),
           l => store.loading /\ scall[c].op \notin {"check", "register"},
           hidden = "none" /\ KnowsSession(scall[c]) => u = Effective,
           UNCHANGED <<cookie, banned, hidden>>
    PROVE  SessionsInv'
<1>1. SIdle \in SessionCalls /\ SIdle.pc = "idle" /\ store'.user = u /\ (store'.loading <=> l)
      /\ store' \in [user : {None} \cup People, loading : BOOLEAN]
  BY SessionCallKinds, StoreParts
<1>2. SessionsTyped'
  BY <1>1, SessionFacts, SessionTypedStep
<1>3. SpinnerEnds'
  BY <1>1, SpinnerStep
<1>4. ASSUME hidden' = "none" PROVE TabFollows'
  <2>1. hidden = "none" /\ KnowsSession(scall[c])
    BY <1>4, SessionFacts DEF TabFollows
  <2>2. store'.user = Effective'
    BY <1>1, <2>1 DEF Effective, ActsFor
  <2> QED
    BY <1>1, <2>1, <2>2, FollowsStep
<1> QED
  BY <1>2, <1>3, <1>4 DEF SessionsInv

LEMMA SessionCheckHolds == ASSUME SessionsInv, NEW c \in Calls, ChecksAgain(c) PROVE SessionsInv'
<1>1. /\ IsCheck(scall[c].op) /\ scall[c].pc \in {"arrived", "failed"} /\ UNCHANGED <<cookie, banned, hidden>>
  BY DEF ChecksAgain
<1>2. scall[c].op \in {"check", "recheck"} /\ scall[c].who \in {None} \cup People /\ scall[c].left \in 0 .. Retries
  BY <1>1, SessionFacts DEF IsCheck
<1>3. CASE scall[c].pc = "arrived" /\ scall[c].who # None /\ store' = Store(scall[c].who, FALSE) /\ Proceeds(c, SIdle)
  <2>1. KnowsSession(scall[c]) => scall[c].who = Effective
    BY <1>1, <1>3 DEF KnowsSession, Knows, Effective, ActsFor, IsCheck
  <2> QED
    BY <1>1, <1>2, <1>3, <2>1, SessionEnds DEF Proceeds
<1>4. CASE /\ scall[c].left > 0 /\ Proceeds(c, SCall("sent", scall[c].op, cookie, scall[c].left - 1))
           /\ UNCHANGED store
  <2>1. scall[c].left - 1 \in 0 .. Retries
    BY <1>2, <1>4, SessionsAssumption
  <2>5. PICK o \in {"check", "recheck", "login", "register", "logout"}, n \in 0 .. Retries,
             p \in {None} \cup People : o = scall[c].op /\ n = scall[c].left - 1 /\ p = cookie
    BY <1>2, <2>1, SessionFacts
  <2>6. PICK q \in SessionCalls : q = SCall("sent", o, p, n) /\ q.pc = "sent" /\ q.op = o /\ q.who = p
    BY SessionCallKinds
  <2>2. /\ q = SCall("sent", scall[c].op, cookie, scall[c].left - 1)
        /\ q.pc = "sent" /\ q.op = scall[c].op /\ q.who = cookie
    BY <2>5, <2>6
  <2>3. scall' = [scall EXCEPT ![c] = q]
    BY <1>4, <2>2 DEF Proceeds
  <2>4. KnowsSession(scall[c]) => Knows(q, cookie', banned', store')
    BY <1>1, <1>2, <1>4, <2>2 DEF KnowsSession, Knows, IsCheck
  <2> QED
    BY <1>1, <1>2, <1>4, <2>2, <2>3, <2>4, SessionFacts, SessionGoesOn
<1>5. CASE /\ ~(scall[c].pc = "arrived" /\ scall[c].who # None) /\ Proceeds(c, SIdle)
           /\ store' = Store(None, scall[c].op = "recheck" /\ store.loading)
  <2>1. PICK l \in BOOLEAN : l <=> (scall[c].op = "recheck" /\ store.loading)
    OBVIOUS
  <2>2. store' = Store(None, l)
    BY <1>5, <2>1, SessionFacts
  <2>3. KnowsSession(scall[c]) => None = Effective
    BY <1>1, <1>2, <1>5 DEF KnowsSession, Knows, Effective, ActsFor, IsCheck
  <2> QED
    BY <1>1, <1>5, <2>1, <2>2, <2>3, SessionEnds DEF Proceeds
<1> QED
  BY <1>3, <1>4, <1>5 DEF ChecksAgain

LEMMA SessionLogsInHolds == ASSUME SessionsInv, NEW c \in Calls, LoginGoesOn(c) PROVE SessionsInv'
<1>1. /\ scall[c].op = "login" /\ scall[c].pc \in {"arrived", "failed"} /\ UNCHANGED <<cookie, banned, store, hidden>>
  BY DEF LoginGoesOn
<1>2. CASE scall[c].pc = "arrived"
  <2>1. Retries \in 0 .. Retries
    BY SessionsAssumption
  <2>5. PICK n \in 0 .. Retries, p \in {None} \cup People : n = Retries /\ p = cookie
    BY <2>1, SessionFacts
  <2>6. PICK q \in SessionCalls : /\ q = SCall("sent", "recheck", p, n)
                                  /\ q.pc = "sent" /\ q.op = "recheck" /\ q.who = p
    BY SessionCallKinds
  <2>2. /\ q = SCall("sent", "recheck", cookie, Retries)
        /\ q.pc = "sent" /\ q.op = "recheck" /\ q.who = cookie
    BY <2>5, <2>6
  <2>3. scall' = [scall EXCEPT ![c] = q]
    BY <1>2, <2>2 DEF LoginGoesOn, Proceeds
  <2>4. Knows(q, cookie', banned', store')
    BY <1>1, <2>2 DEF KnowsSession, Knows, IsCheck
  <2> QED
    BY <1>1, <2>2, <2>3, <2>4, SessionFacts, SessionGoesOn
<1>3. CASE scall[c].pc = "failed"
  <2>1. scall' = [scall EXCEPT ![c] = SIdle]
    BY <1>3 DEF LoginGoesOn, Proceeds
  <2>2. KnowsSession(scall[c]) => store.user = Effective
    BY <1>1, <1>3 DEF KnowsSession, Knows, Effective, ActsFor, IsCheck
  <2>4. PICK u \in {None} \cup People, l \in BOOLEAN : u = store.user /\ l = store.loading
    BY SessionFacts
  <2>3. store' = Store(u, l)
    BY <1>1, <2>4, SessionFacts
  <2>5. l => store.loading /\ scall[c].op \notin {"check", "register"}
    BY <1>1, <2>4
  <2>6. hidden = "none" /\ KnowsSession(scall[c]) => u = Effective
    BY <2>2, <2>4
  <2> QED
    BY <1>1, <2>1, <2>3, <2>5, <2>6, SessionEnds
<1> QED
  BY <1>1, <1>2, <1>3

LEMMA SessionRegistersHolds == ASSUME SessionsInv, NEW c \in Calls, RegisterGoesOn(c) PROVE SessionsInv'
<1>1. /\ scall[c].op = "register" /\ scall[c].pc \in {"arrived", "failed"} /\ UNCHANGED <<cookie, banned, hidden>>
      /\ store' = Store(IF scall[c].pc = "arrived" THEN scall[c].who ELSE store.user, FALSE)
      /\ scall' = [scall EXCEPT ![c] = SIdle]
  BY DEF RegisterGoesOn, Proceeds
<1>2. PICK u \in {None} \cup People : u = IF scall[c].pc = "arrived" THEN scall[c].who ELSE store.user
  BY SessionFacts
<1>3. KnowsSession(scall[c]) => u = Effective
  BY <1>1, <1>2 DEF KnowsSession, Knows, Effective, ActsFor, IsCheck
<1> QED
  BY <1>1, <1>2, <1>3, SessionEnds

LEMMA SessionLogsOutHolds == ASSUME SessionsInv, NEW c \in Calls, LogoutGoesOn(c) PROVE SessionsInv'
<1>1. /\ scall[c].op = "logout" /\ scall[c].pc \in {"arrived", "failed"} /\ UNCHANGED <<cookie, banned, hidden>>
      /\ store' = Store(None, store.loading)
      /\ scall' = [scall EXCEPT ![c] = SIdle]
  BY DEF LogoutGoesOn, Proceeds
<1>2. KnowsSession(scall[c]) => None = Effective
  BY <1>1 DEF KnowsSession, Knows, Effective, ActsFor, IsCheck
<1> QED
  BY <1>1, <1>2, SessionFacts, SessionEnds

\* A tab shows the session its cookie stands for, and no spinner forever.
THEOREM TabIsTrue == SessionsSpec => [](SessionsTypeOK /\ TabShowsSession /\ SpinnerEnds)
<1>1. ASSUME SessionsInv, [SessionsNext]_sessionsVars PROVE SessionsInv'
  <2>1. CASE UNCHANGED sessionsVars
    <3>1. UNCHANGED <<cookie, banned, store, scall, hidden>>
      BY <2>1 DEF sessionsVars
    <3>2. SessionsTyped' /\ SpinnerEnds'
      BY <1>1, <3>1 DEF SessionsInv, SessionsTyped, SpinnerEnds
    <3>3. hidden' = "none" => TabFollows'
      BY <1>1, <3>1 DEF SessionsInv, TabFollows, Busy, Effective, ActsFor, KnowsSession, Knows
    <3> QED
      BY <3>2, <3>3 DEF SessionsInv
  <2> QED
    BY <1>1, <2>1, SessionElsewhereHolds, SessionReloadHolds, SessionLoginHolds, SessionAnswerHolds,
       SessionArriveHolds, SessionLostHolds, SessionCheckHolds, SessionLogsInHolds, SessionRegistersHolds,
       SessionLogsOutHolds
    DEF SessionsNext
<1>2. ASSUME SessionsInv PROVE SessionsTypeOK /\ TabShowsSession /\ SpinnerEnds
  <2>1. SessionsTypeOK
    BY <1>2, SessionFacts DEF SessionsTypeOK
  <2>2. TabShowsSession
    <3>1. SUFFICES ASSUME ~Busy, hidden = "none"
                   PROVE  store = Store(IF cookie \in banned THEN None ELSE cookie, FALSE)
      BY DEF TabShowsSession
    <3>2. store.user = Effective
      BY <1>2, <3>1, SessionFacts DEF TabFollows
    <3>3. store.loading = FALSE
      BY <1>2, <3>1, SessionFacts DEF SpinnerEnds, Busy
    <3>4. store = Store(Effective, FALSE)
      BY <1>2, <3>2, <3>3, SessionFacts
    <3> QED
      BY <3>4 DEF Effective, ActsFor
  <2> QED
    BY <1>2, <2>1, <2>2, SessionFacts
<1> QED
  BY SessionsBegin, <1>1, <1>2, PTL DEF SessionsSpec

-----------------------------------------------------------------------------
(* The administrator's catalogue of miners.                                 *)

CatalogCalls == [op : {"idle", "fetch"} \cup Uploads \cup Saves, of : Catalogued \cup {None}, hs : Nat,
                 image : Catalogued \cup {None}]
CatalogList == [hs : Nat, gh : Nat, image : Catalogued]
CatalogForms == [of : Catalogued, hs : Nat, gh : Nat \cup {Invalid}, image : Catalogued]
InHs(gh) == gh * GH

CatalogTyped ==
    /\ catalogRows \in [Catalogued -> [hs : Nat, image : Catalogued]]
    /\ rowsShown = None \/ rowsShown \in [Catalogued -> CatalogList]
    /\ editing = None \/ editing \in CatalogForms
    /\ isSaving \in BOOLEAN
    /\ kcall \in [Calls -> CatalogCalls]
    /\ \A c \in Calls : /\ kcall[c].op = "idle" => kcall[c] = KIdle
                        /\ kcall[c].op \in Uploads \cup Saves => kcall[c].of \in Catalogued /\ kcall[c].image \in Catalogued
    /\ rates \in [Catalogued -> SUBSET Nat]
    /\ kcount \in 0 .. MaxSaves /\ kluck \subseteq {"unsettled"}

\* Wherever a rate is kept it is one of the miner's, or a whole number of
\* GH/s that is.
RatesFit ==
    /\ \A m \in Catalogued : \A r \in rates[m] : InHs(r \div GH) = r
    /\ \A m \in Catalogued : catalogRows[m].hs \in rates[m]
    /\ rowsShown # None => \A m \in Catalogued : rowsShown[m].hs \in rates[m] /\ InHs(rowsShown[m].gh) \in rates[m]
    /\ editing # None => /\ editing.hs \in rates[editing.of]
                         /\ editing.gh # Invalid => InHs(editing.gh) \in rates[editing.of]
    /\ \A c \in Calls : kcall[c].op = "save" => kcall[c].hs \in rates[kcall[c].of]

\* One save at a time.
OneSave ==
    /\ \A c \in Calls : kcall[c].op \in Saves => isSaving
    /\ \A c, d \in Calls : kcall[c].op \in Saves /\ kcall[d].op \in Saves => c = d

\* What is due is due for the form that is open, and has its own image.
FormIsDue ==
    /\ \A m \in Catalogued : catalogRows[m].image = m
    /\ rowsShown # None => \A m \in Catalogued : rowsShown[m].image = m
    /\ editing # None => editing.image = editing.of
    /\ \A c \in Calls : kcall[c].op \in Uploads \cup Saves =>
          editing # None /\ editing.of = kcall[c].of /\ kcall[c].image = kcall[c].of
    /\ Waiting(Saves) => ~Waiting(Uploads)

CatalogInv == CatalogTyped /\ RatesFit /\ OneSave /\ (kluck = {} => FormIsDue)

LEMMA CatalogNumbers ==
    /\ GH \in Nat \ {0} /\ GH \in Nat /\ LastGh \in Nat /\ MaxSaves \in Nat /\ None \notin Catalogued
    /\ Invalid \notin Nat /\ None \notin CatalogForms
<1>1. CatalogForms \subseteq [of : Catalogued, hs : Nat, gh : Int, image : Catalogued]
  BY DEF CatalogForms, Invalid
<1> QED
  BY <1>1, CatalogPageAssumption DEF Invalid

LEMMA RateConverts ==
    /\ \A v \in Nat : InHs(v) \in Nat /\ InHs(v) \div GH = v /\ v \div GH \in Nat
    /\ GH = InHs(1)
<1>1. GH \in Nat \ {0}
  BY CatalogNumbers
<1>2. ASSUME NEW v \in Nat PROVE v * GH \in Nat /\ (v * GH) \div GH = v /\ v \div GH \in Nat
  BY <1>1
<1>3. GH = 1 * GH
  BY <1>1
<1> QED
  BY <1>2, <1>3 DEF InHs

LEMMA CatalogCallKinds ==
    /\ Uploads = {"upload", "uploaded"} /\ Saves = {"save", "saved"}
    /\ KIdle \in CatalogCalls /\ KIdle.op = "idle"
    /\ KCall("fetch", None, 0, None) \in CatalogCalls /\ KCall("fetch", None, 0, None).op = "fetch"
    /\ \A op \in {"upload", "save"}, m \in Catalogued, hs \in Nat, i \in Catalogued :
          /\ KCall(op, m, hs, i) \in CatalogCalls /\ KCall(op, m, hs, i).op = op
          /\ KCall(op, m, hs, i).of = m /\ KCall(op, m, hs, i).hs = hs /\ KCall(op, m, hs, i).image = i
BY DEF Uploads, Saves, KIdle, KCall, CatalogCalls

LEMMA CatalogFacts ==
    ASSUME CatalogInv
    PROVE  /\ catalogRows \in [Catalogued -> [hs : Nat, image : Catalogued]]
           /\ rowsShown = None \/ rowsShown \in [Catalogued -> CatalogList]
           /\ editing = None \/ editing \in CatalogForms
           /\ isSaving \in BOOLEAN /\ kcall \in [Calls -> CatalogCalls]
           /\ \A c \in Calls : /\ kcall[c].op = "idle" => kcall[c] = KIdle
                               /\ kcall[c].op \in Uploads \cup Saves => kcall[c].of \in Catalogued /\ kcall[c].image \in Catalogued
           /\ rates \in [Catalogued -> SUBSET Nat]
           /\ kcount \in 0 .. MaxSaves /\ kluck \subseteq {"unsettled"}
           /\ RatesFit /\ OneSave
           /\ editing # None => editing.of \in Catalogued /\ editing.hs \in Nat /\ editing.image \in Catalogued
                                /\ (editing.gh # Invalid => editing.gh \in Nat)
BY DEF CatalogInv, CatalogTyped, CatalogForms

LEMMA CatalogCallSet ==
    ASSUME CatalogInv, NEW c \in Calls, NEW q \in CatalogCalls, kcall' = [kcall EXCEPT ![c] = q]
    PROVE  kcall' \in [Calls -> CatalogCalls] /\ kcall'[c] = q /\ \A d \in Calls : d # c => kcall'[d] = kcall[d]
BY CatalogFacts

LEMMA CatalogBegins == CatalogInit => CatalogInv
<1> SUFFICES ASSUME CatalogInit PROVE CatalogInv
  OBVIOUS
<1>1. /\ catalogRows = [m \in Catalogued |-> [hs |-> GH, image |-> m]] /\ rowsShown = None /\ editing = None
      /\ isSaving = FALSE /\ kcall = [c \in Calls |-> KIdle] /\ rates = [m \in Catalogued |-> {GH}]
      /\ kcount = 0 /\ kluck = {}
  BY DEF CatalogInit
<1>2. CatalogTyped
  <2>1. kcount \in 0 .. MaxSaves /\ kluck \subseteq {"unsettled"}
    BY <1>1, CatalogNumbers
  <2>2. kcall \in [Calls -> CatalogCalls] /\ \A c \in Calls : kcall[c] = KIdle /\ kcall[c].op = "idle"
    BY <1>1, CatalogCallKinds
  <2> QED
    <3>1. catalogRows \in [Catalogued -> [hs : Nat, image : Catalogued]]
      BY <1>1, CatalogNumbers
    <3>2. rates \in [Catalogued -> SUBSET Nat]
      BY <1>1, CatalogNumbers
    <3>3. \A c \in Calls : kcall[c].op \notin Uploads \cup Saves
      BY <2>2, CatalogCallKinds
    <3> QED
      BY <1>1, <2>1, <2>2, <3>1, <3>2, <3>3 DEF CatalogTyped
<1>3. \A c \in Calls : kcall[c].op = "idle"
  BY <1>1, CatalogCallKinds
<1>4. RatesFit
  <2>1. \A m \in Catalogued : rates[m] = {GH} /\ catalogRows[m].hs = GH
    BY <1>1
  <2>2. InHs(GH \div GH) = GH
    BY RateConverts, CatalogNumbers
  <2> QED
    BY <1>1, <1>3, <2>1, <2>2 DEF RatesFit
<1>5. OneSave /\ FormIsDue
  BY <1>1, <1>3, CatalogCallKinds DEF OneSave, FormIsDue, Waiting
<1> QED
  BY <1>2, <1>4, <1>5 DEF CatalogInv

\* A request that begins to read, or is over.
LEMMA CatalogCallEnds ==
    ASSUME CatalogInv, NEW c \in Calls, NEW q \in {KIdle, KCall("fetch", None, 0, None)}, kcall' = [kcall EXCEPT ![c] = q],
           isSaving' = IF kcall[c].op \in Saves THEN FALSE ELSE isSaving,
           rowsShown' = rowsShown \/ /\ rowsShown' \in [Catalogued -> CatalogList]
                                     /\ \A m \in Catalogued : /\ rowsShown'[m].hs = catalogRows[m].hs
                                                              /\ rowsShown'[m].gh = rowsShown'[m].hs \div GH
                                                              /\ rowsShown'[m].image = catalogRows[m].image,
           UNCHANGED <<catalogRows, editing, rates, kcount, kluck>>
    PROVE  CatalogInv'
<1>1. /\ kcall' \in [Calls -> CatalogCalls] /\ kcall'[c] = q /\ q.op \in {"idle", "fetch"} /\ (q.op = "idle" => q = KIdle)
      /\ \A d \in Calls : d # c => kcall'[d] = kcall[d]
  <2>1. q \in CatalogCalls /\ q.op \in {"idle", "fetch"} /\ (q.op = "idle" => q = KIdle)
    BY CatalogCallKinds
  <2> QED
    BY <2>1, CatalogCallSet
<1>2. \A d \in Calls : kcall'[d].op \in Uploads \cup Saves => d # c /\ kcall'[d] = kcall[d]
  BY <1>1, CatalogCallKinds
<1>3. CatalogTyped'
  BY <1>1, <1>2, CatalogFacts DEF CatalogTyped
<1>4. RatesFit'
  <2>1. RatesFit
    BY CatalogFacts
  <2>2. ASSUME rowsShown' # None, NEW m \in Catalogued PROVE rowsShown'[m].hs \in rates[m] /\ InHs(rowsShown'[m].gh) \in rates[m]
    <3>1. CASE rowsShown' = rowsShown
      BY <2>1, <2>2, <3>1 DEF RatesFit
    <3>2. CASE rowsShown'[m].hs = catalogRows[m].hs /\ rowsShown'[m].gh = rowsShown'[m].hs \div GH
      <4>1. catalogRows[m].hs \in rates[m] /\ InHs(catalogRows[m].hs \div GH) = catalogRows[m].hs
        BY <2>1 DEF RatesFit
      <4> QED
        BY <3>2, <4>1
    <3> QED
      BY <3>1, <3>2
  <2>3. \A d \in Calls : kcall'[d].op = "save" => kcall'[d] = kcall[d]
    BY <1>1
  <2> QED
    BY <2>1, <2>2, <2>3 DEF RatesFit
<1>5. OneSave'
  BY <1>2, CatalogFacts DEF OneSave
<1>6. ASSUME kluck' = {} PROVE FormIsDue'
  <2>1. FormIsDue
    BY <1>6 DEF CatalogInv
  <2>2. \A ops \in {Uploads, Saves} : Waiting(ops)' => Waiting(ops)
    BY <1>2 DEF Waiting
  <2> QED
    BY <1>2, <2>1, <2>2 DEF FormIsDue
<1> QED
  BY <1>3, <1>4, <1>5, <1>6 DEF CatalogInv

LEMMA CatalogFetchHolds == ASSUME CatalogInv, NEW c \in Calls, fetchMiners(c) PROVE CatalogInv'
<1>1. /\ kcall[c] = KIdle /\ kcall' = [kcall EXCEPT ![c] = KCall("fetch", None, 0, None)]
      /\ UNCHANGED <<catalogRows, rowsShown, editing, isSaving, rates, kcount, kluck>>
  BY DEF fetchMiners, KSends
<1>2. kcall[c].op \notin Saves
  BY <1>1, CatalogCallKinds
<1> QED
  BY <1>1, <1>2, CatalogCallEnds

LEMMA CatalogShowHolds == ASSUME CatalogInv, NEW c \in Calls, CatalogAnswered(c) PROVE CatalogInv'
<1>1. /\ kcall[c].op = "fetch" /\ kcall' = [kcall EXCEPT ![c] = KIdle]
      /\ rowsShown' = [m \in Catalogued |-> normalizeMiner(catalogRows[m])]
      /\ UNCHANGED <<catalogRows, editing, isSaving, rates, kcount, kluck>>
  BY DEF CatalogAnswered, SaveEnds
<1>2. kcall[c].op \notin Saves
  BY <1>1, CatalogCallKinds
<1>3. ASSUME NEW m \in Catalogued
      PROVE  /\ normalizeMiner(catalogRows[m]) \in CatalogList /\ normalizeMiner(catalogRows[m]).hs = catalogRows[m].hs
             /\ normalizeMiner(catalogRows[m]).gh = normalizeMiner(catalogRows[m]).hs \div GH
             /\ normalizeMiner(catalogRows[m]).image = catalogRows[m].image
  <2>1. catalogRows[m].hs \in Nat /\ catalogRows[m].image \in Catalogued
    BY CatalogFacts
  <2>2. PICK n \in Nat : n = catalogRows[m].hs \div GH
    BY <2>1, RateConverts
  <2>3. normalizeMiner(catalogRows[m]) = [hs |-> catalogRows[m].hs, gh |-> n, image |-> catalogRows[m].image]
    BY <2>2 DEF normalizeMiner, ListRow
  <2> QED
    BY <2>1, <2>2, <2>3 DEF CatalogList
<1>4. /\ rowsShown' \in [Catalogued -> CatalogList]
      /\ \A m \in Catalogued : rowsShown'[m] = normalizeMiner(catalogRows[m])
  BY <1>1, <1>3
<1>5. \A m \in Catalogued : /\ rowsShown'[m].hs = catalogRows[m].hs /\ rowsShown'[m].gh = rowsShown'[m].hs \div GH
                            /\ rowsShown'[m].image = catalogRows[m].image
  BY <1>3, <1>4
<1> QED
  BY <1>1, <1>2, <1>4, <1>5, CatalogCallEnds

LEMMA CatalogFailHolds == ASSUME CatalogInv, NEW c \in Calls, CatalogFails(c) PROVE CatalogInv'
BY CatalogCallEnds DEF CatalogFails, SaveEnds

\* The form changes, and nothing else.
LEMMA CatalogFormChanges ==
    ASSUME CatalogInv, editing' = None \/ editing' \in CatalogForms,
           rates' \in [Catalogued -> SUBSET Nat], \A m \in Catalogued : rates[m] \subseteq rates'[m],
           \A m \in Catalogued : \A r \in rates'[m] : r \in rates[m] \/ InHs(r \div GH) = r,
           editing' # None => /\ editing'.hs \in rates'[editing'.of]
                              /\ editing'.gh # Invalid => InHs(editing'.gh) \in rates'[editing'.of],
           kluck' \subseteq {"unsettled"},
           kluck' = {} => /\ kluck = {}
                          /\ editing' # None => editing'.image = editing'.of
                          /\ Waiting(Uploads \cup Saves) => editing # None /\ editing' # None /\ editing'.of = editing.of,
           UNCHANGED <<catalogRows, rowsShown, isSaving, kcall, kcount>>
    PROVE  CatalogInv'
<1>1. CatalogTyped'
  BY CatalogFacts DEF CatalogTyped
<1>2. RatesFit'
  <2>1. RatesFit
    BY CatalogFacts
  <2>2. \A m \in Catalogued : \A r \in rates'[m] : InHs(r \div GH) = r
    BY <2>1 DEF RatesFit
  <2>3. \A c \in Calls : kcall[c].op = "save" => kcall[c].of \in Catalogued /\ kcall[c].hs \in rates'[kcall[c].of]
    BY <2>1, CatalogFacts, CatalogCallKinds DEF RatesFit
  <2> QED
    BY <2>1, <2>2, <2>3 DEF RatesFit
<1>3. OneSave'
  BY CatalogFacts DEF OneSave
<1>4. ASSUME kluck' = {} PROVE FormIsDue'
  <2>1. FormIsDue
    BY <1>4 DEF CatalogInv
  <2>2. \A c \in Calls : kcall[c].op \in Uploads \cup Saves => Waiting(Uploads \cup Saves)
    BY DEF Waiting
  <2>3. ASSUME NEW c \in Calls, kcall[c].op \in Uploads \cup Saves
        PROVE  editing' # None /\ editing'.of = kcall[c].of /\ kcall[c].image = kcall[c].of
    <3>1. editing.of = kcall[c].of /\ kcall[c].image = kcall[c].of
      BY <2>1, <2>3 DEF FormIsDue
    <3> QED
      BY <1>4, <2>2, <2>3, <3>1
  <2>4. (Waiting(Saves) => ~Waiting(Uploads))'
    BY <2>1 DEF FormIsDue, Waiting
  <2> QED
    BY <1>4, <2>1, <2>3, <2>4 DEF FormIsDue
<1> QED
  BY <1>1, <1>2, <1>3, <1>4 DEF CatalogInv

LEMMA NothingForNone == ASSUME CatalogInv, kluck = {}, editing = None PROVE ~Waiting(Uploads \cup Saves)
BY DEF CatalogInv, FormIsDue, Waiting

LEMMA CatalogOpenHolds == ASSUME CatalogInv, openEdit PROVE CatalogInv'
<1>1. /\ rowsShown # None /\ editing = None
      /\ UNCHANGED <<catalogRows, rowsShown, isSaving, kcall, rates, kcount, kluck>>
  BY DEF openEdit
<1>2. PICK m \in Catalogued : editing' = Editing(m, OfList(rowsShown[m]))
  BY DEF openEdit
<1>3. rowsShown[m] \in CatalogList
  BY <1>1, CatalogFacts
<1>4. editing' = [of |-> m, hs |-> rowsShown[m].hs, gh |-> rowsShown[m].gh, image |-> rowsShown[m].image]
  BY <1>2 DEF Editing, OfList
<1>5. /\ editing' \in CatalogForms /\ editing'.of = m /\ editing'.hs = rowsShown[m].hs /\ editing'.gh = rowsShown[m].gh
      /\ editing'.image = rowsShown[m].image
  BY <1>3, <1>4 DEF CatalogForms, CatalogList
<1>6. rowsShown[m].hs \in rates[m] /\ InHs(rowsShown[m].gh) \in rates[m]
  BY <1>1, CatalogFacts DEF RatesFit
<1>7. kluck = {} => rowsShown[m].image = m /\ ~Waiting(Uploads \cup Saves)
  BY <1>1, NothingForNone DEF CatalogInv, FormIsDue
<1>8. rates' \in [Catalogued -> SUBSET Nat] /\ kluck' \subseteq {"unsettled"}
  BY <1>1, CatalogFacts
<1> QED
  BY <1>1, <1>5, <1>6, <1>7, <1>8, CatalogFormChanges

LEMMA CatalogTypingHolds == ASSUME CatalogInv, TypesRate PROVE CatalogInv'
<1>1. editing # None /\ UNCHANGED <<catalogRows, rowsShown, isSaving, kcall, kcount, kluck>>
  BY DEF TypesRate
<1>2. PICK v \in {Invalid} \cup 1 .. LastGh :
        /\ editing' = [editing EXCEPT !.gh = v]
        /\ rates' = [rates EXCEPT ![editing.of] = @ \cup IF v = Invalid THEN {} ELSE {v * GH}]
  BY DEF TypesRate
<1>3. /\ editing' \in CatalogForms /\ editing'.of = editing.of /\ editing'.hs = editing.hs /\ editing'.gh = v
      /\ editing'.image = editing.image /\ editing.of \in Catalogued
  <2>1. v \in Nat \cup {Invalid}
    BY <1>2, CatalogNumbers
  <2> QED
    BY <1>1, <1>2, <2>1, CatalogFacts DEF CatalogForms
<1>4. PICK new : /\ new = IF v = Invalid THEN {} ELSE {InHs(v)}
                 /\ rates' = [rates EXCEPT ![editing.of] = rates[editing.of] \cup new]
  BY <1>2 DEF InHs
<1>5. new \subseteq Nat /\ \A r \in new : InHs(r \div GH) = r
  <2>1. v # Invalid => v \in Nat
    BY <1>2, CatalogNumbers
  <2>2. v # Invalid => InHs(v) \in Nat /\ InHs(v) \div GH = v
    BY <2>1, RateConverts
  <2> QED
    BY <1>4, <2>2
<1>6. /\ rates' \in [Catalogued -> SUBSET Nat]
      /\ rates'[editing.of] = rates[editing.of] \cup new
      /\ \A m \in Catalogued : rates[m] \subseteq rates'[m]
      /\ \A m \in Catalogued : \A r \in rates'[m] : r \in rates[m] \/ r \in new
  BY <1>3, <1>4, <1>5, CatalogFacts
<1>7. editing'.hs \in rates'[editing'.of] /\ (v # Invalid => InHs(v) \in rates'[editing'.of])
  BY <1>1, <1>3, <1>4, <1>6, CatalogFacts DEF RatesFit
<1>8. kluck = {} => editing.image = editing.of
  BY <1>1 DEF CatalogInv, FormIsDue
<1>9. \A m \in Catalogued : \A r \in rates'[m] : r \in rates[m] \/ InHs(r \div GH) = r
  BY <1>5, <1>6
<1>10. kluck' \subseteq {"unsettled"} /\ editing' # None
  BY <1>1, <1>3, CatalogFacts, CatalogNumbers
<1> QED
  BY <1>1, <1>3, <1>6, <1>7, <1>8, <1>9, <1>10, CatalogFormChanges

LEMMA CatalogCloseHolds == ASSUME CatalogInv, ClosesForm PROVE CatalogInv'
<1>1. /\ editing' = None /\ kluck' = kluck \cup (IF Waiting(Uploads \cup Saves) THEN {"unsettled"} ELSE {})
      /\ UNCHANGED <<catalogRows, rowsShown, isSaving, kcall, rates, kcount>>
  BY DEF ClosesForm, Unsettled
<1>2. kluck' \subseteq {"unsettled"} /\ (kluck' = {} => kluck = {} /\ ~Waiting(Uploads \cup Saves))
  BY <1>1, CatalogFacts
<1>3. rates' \in [Catalogued -> SUBSET Nat]
  BY <1>1, CatalogFacts
<1> QED
  BY <1>1, <1>2, <1>3, CatalogFormChanges

\* A request is sent for the form that is open.
LEMMA CatalogSends ==
    ASSUME CatalogInv, editing # None, kcount < MaxSaves, kcount' = kcount + 1,
           NEW c \in Calls, NEW op \in {"upload", "save"}, NEW hs \in Nat, NEW i \in Catalogued,
           KSends(c, KCall(op, editing.of, hs, i)), i \in {editing.of, editing.image},
           op = "save" => ~isSaving /\ isSaving' = TRUE /\ hs \in rates[editing.of],
           op = "upload" => isSaving' = isSaving,
           Unsettled(IF op = "save" THEN Uploads ELSE Saves),
           UNCHANGED <<catalogRows, rowsShown, editing, rates>>
    PROVE  CatalogInv'
<1>1. editing.of \in Catalogued
  BY CatalogFacts
<1>2. PICK q \in CatalogCalls : /\ q = KCall(op, editing.of, hs, i) /\ q.op = op /\ q.of = editing.of /\ q.hs = hs /\ q.image = i
  BY <1>1, CatalogCallKinds
<1>3. kcall[c] = KIdle /\ kcall' = [kcall EXCEPT ![c] = q]
  BY <1>2 DEF KSends
<1>4. kcall' \in [Calls -> CatalogCalls] /\ kcall'[c] = q /\ \A d \in Calls : d # c => kcall'[d] = kcall[d]
  BY <1>3, CatalogCallSet
<1>5. kluck' \subseteq {"unsettled"} /\ (kluck' = {} => kluck = {} /\ ~Waiting(IF op = "save" THEN Uploads ELSE Saves))
  BY CatalogFacts DEF Unsettled
<1>6. CatalogTyped'
  <2>1. kcount' \in 0 .. MaxSaves /\ isSaving' \in BOOLEAN
    <3>1. kcount' \in 0 .. MaxSaves
      BY CatalogFacts, CatalogNumbers
    <3> QED
      BY <3>1, CatalogFacts
  <2>2. \A d \in Calls : /\ kcall'[d].op = "idle" => kcall'[d] = KIdle
                         /\ kcall'[d].op \in Uploads \cup Saves => kcall'[d].of \in Catalogued /\ kcall'[d].image \in Catalogued
    BY <1>1, <1>2, <1>4, CatalogFacts
  <2> QED
    BY <1>4, <1>5, <2>1, <2>2, CatalogFacts DEF CatalogTyped
<1>7. RatesFit'
  <2>1. \A d \in Calls : kcall'[d].op = "save" => kcall'[d].hs \in rates[kcall'[d].of]
    BY <1>2, <1>4, CatalogFacts DEF RatesFit
  <2> QED
    BY <2>1, CatalogFacts DEF RatesFit
<1>8. OneSave'
  <2>1. CASE op = "save"
    <3>1. \A d \in Calls : kcall[d].op \notin Saves
      BY <2>1, CatalogFacts DEF OneSave
    <3> QED
      BY <1>4, <2>1, <3>1 DEF OneSave
  <2>2. CASE op = "upload"
    <3>1. q.op \notin Saves
      BY <1>2, <2>2, CatalogCallKinds
    <3>2. \A d \in Calls : kcall'[d].op \in Saves => d # c /\ kcall'[d] = kcall[d]
      BY <1>4, <3>1
    <3> QED
      BY <2>2, <3>2, CatalogFacts DEF OneSave
  <2> QED
    BY <2>1, <2>2
<1>9. ASSUME kluck' = {} PROVE FormIsDue'
  <2>1. FormIsDue /\ ~Waiting(IF op = "save" THEN Uploads ELSE Saves)
    BY <1>5, <1>9 DEF CatalogInv
  <2>2. i = editing.of
    BY <2>1 DEF FormIsDue
  <2>3. \A d \in Calls : kcall'[d].op \in Uploads \cup Saves =>
           editing' # None /\ editing'.of = kcall'[d].of /\ kcall'[d].image = kcall'[d].of
    BY <1>2, <1>4, <2>1, <2>2 DEF FormIsDue
  <2>4. (Waiting(Saves) => ~Waiting(Uploads))'
    <3>1. CASE op = "save"
      <4>1. \A d \in Calls : kcall'[d].op \notin Uploads
        BY <1>2, <1>4, <2>1, <3>1, CatalogCallKinds DEF Waiting
      <4> QED
        BY <4>1 DEF Waiting
    <3>2. CASE op = "upload"
      <4>1. \A d \in Calls : kcall'[d].op \notin Saves
        BY <1>2, <1>4, <2>1, <3>2, CatalogCallKinds DEF Waiting
      <4> QED
        BY <4>1 DEF Waiting
    <3> QED
      BY <3>1, <3>2
  <2> QED
    BY <2>1, <2>3, <2>4 DEF FormIsDue
<1> QED
  BY <1>6, <1>7, <1>8, <1>9 DEF CatalogInv

LEMMA CatalogUploadHolds == ASSUME CatalogInv, NEW c \in Calls, handleFileUpload(c) PROVE CatalogInv'
<1>1. /\ editing # None /\ kcount < MaxSaves /\ KSends(c, KCall("upload", editing.of, 0, editing.of))
      /\ Unsettled(Saves) /\ kcount' = kcount + 1
      /\ isSaving' = isSaving /\ UNCHANGED <<catalogRows, rowsShown, editing, rates>>
  BY DEF handleFileUpload
<1>2. editing.of \in Catalogued /\ 0 \in Nat
  BY <1>1, CatalogFacts
<1>3. \A op \in {"upload"} : op # "save"
  OBVIOUS
<1> QED
  BY <1>1, <1>2, <1>3, CatalogSends

LEMMA CatalogSaveHolds == ASSUME CatalogInv, NEW c \in Calls, handleSaveEditModal(c) PROVE CatalogInv'
<1>1. /\ editing # None /\ ~isSaving /\ kcount < MaxSaves
      /\ KSends(c, KCall("save", editing.of, buildUpdatePayload(editing), editing.image))
      /\ isSaving' = TRUE /\ Unsettled(Uploads) /\ kcount' = kcount + 1
      /\ UNCHANGED <<catalogRows, rowsShown, editing, rates>>
  BY DEF handleSaveEditModal
<1>2. editing.of \in Catalogued /\ editing.image \in Catalogued /\ editing.hs \in Nat
      /\ (editing.gh # Invalid => editing.gh \in Nat)
  BY <1>1, CatalogFacts
<1>3. buildUpdatePayload(editing) \in Nat /\ buildUpdatePayload(editing) \in rates[editing.of]
  <2>1. buildUpdatePayload(editing) = IF editing.gh # Invalid THEN InHs(editing.gh) ELSE editing.hs
    BY DEF buildUpdatePayload, InHs
  <2> QED
    BY <1>1, <1>2, <2>1, RateConverts, CatalogFacts DEF RatesFit
<1> QED
  BY <1>1, <1>2, <1>3, CatalogSends

\* The server takes one step for a request.
LEMMA CatalogServes ==
    ASSUME CatalogInv, NEW c \in Calls, NEW op \in {"uploaded", "saved"}, kcall' = [kcall EXCEPT ![c].op = op],
           kcall[c].op = (IF op = "saved" THEN "save" ELSE "upload"),
           op = "uploaded" => catalogRows' = catalogRows,
           op = "saved" => catalogRows' = [catalogRows EXCEPT ![kcall[c].of] = [hs |-> kcall[c].hs, image |-> kcall[c].image]],
           UNCHANGED <<rowsShown, editing, isSaving, rates, kcount, kluck>>
    PROVE  CatalogInv'
<1>1. kcall[c] \in CatalogCalls /\ kcall[c].of \in Catalogued /\ kcall[c].image \in Catalogued /\ kcall[c].hs \in Nat
  BY CatalogFacts, CatalogCallKinds DEF CatalogCalls
<1>2. PICK q : q = [kcall[c] EXCEPT !.op = op]
  OBVIOUS
<1>3. q \in CatalogCalls /\ q.op = op /\ q.of = kcall[c].of /\ q.hs = kcall[c].hs /\ q.image = kcall[c].image
  BY <1>1, <1>2, CatalogCallKinds DEF CatalogCalls
<1>4. kcall' \in [Calls -> CatalogCalls] /\ kcall'[c] = q /\ \A d \in Calls : d # c => kcall'[d] = kcall[d]
  BY <1>2, <1>3, CatalogCallSet
<1>5. op \in Saves <=> kcall[c].op \in Saves
  BY CatalogCallKinds
<1>6. op \in Uploads <=> kcall[c].op \in Uploads
  BY CatalogCallKinds
<1>7. \A d \in Calls : /\ kcall'[d].op \in Saves <=> kcall[d].op \in Saves
                       /\ kcall'[d].op \in Uploads <=> kcall[d].op \in Uploads
                       /\ kcall'[d].of = kcall[d].of /\ kcall'[d].image = kcall[d].image /\ kcall'[d].hs = kcall[d].hs
                       /\ kcall'[d].op = "save" => kcall[d].op = "save"
                       /\ kcall'[d].op = "idle" => kcall'[d] = KIdle
  BY <1>3, <1>4, <1>5, <1>6, CatalogFacts
<1>8. /\ catalogRows' \in [Catalogued -> [hs : Nat, image : Catalogued]]
      /\ \A m \in Catalogued : \/ catalogRows'[m] = catalogRows[m]
                               \/ kcall[c].op = "save" /\ m = kcall[c].of /\ catalogRows'[m].hs = kcall[c].hs
                                  /\ catalogRows'[m].image = kcall[c].image
  BY <1>1, CatalogFacts
<1>9. CatalogTyped'
  BY <1>4, <1>7, <1>8, CatalogFacts DEF CatalogTyped
<1>10. RatesFit'
  <2>1. \A m \in Catalogued : catalogRows'[m].hs \in rates[m]
    BY <1>8, CatalogFacts DEF RatesFit
  <2> QED
    BY <1>7, <2>1, CatalogFacts DEF RatesFit
<1>11. OneSave'
  BY <1>7, CatalogFacts DEF OneSave
<1>12. ASSUME kluck' = {} PROVE FormIsDue'
  <2>1. FormIsDue
    BY <1>12 DEF CatalogInv
  <2>2. \A m \in Catalogued : catalogRows'[m].image = m
    BY <1>8, <2>1, CatalogCallKinds DEF FormIsDue
  <2>3. (Waiting(Saves) => ~Waiting(Uploads))'
    BY <1>7, <2>1 DEF FormIsDue, Waiting
  <2> QED
    BY <1>7, <2>1, <2>2, <2>3 DEF FormIsDue
<1> QED
  BY <1>9, <1>10, <1>11, <1>12 DEF CatalogInv

LEMMA CatalogServeHolds == ASSUME CatalogInv, NEW c \in Calls, uploadMinerImage(c) \/ updateCatalogRow(c) PROVE CatalogInv'
<1>1. CASE uploadMinerImage(c)
  <2>1. /\ kcall' = [kcall EXCEPT ![c].op = "uploaded"] /\ kcall[c].op = "upload" /\ catalogRows' = catalogRows
        /\ UNCHANGED <<rowsShown, editing, isSaving, rates, kcount, kluck>>
    BY <1>1 DEF uploadMinerImage
  <2> QED
    BY <2>1, CatalogServes
<1>2. CASE updateCatalogRow(c)
  <2>1. /\ kcall' = [kcall EXCEPT ![c].op = "saved"] /\ kcall[c].op = "save"
        /\ catalogRows' = [catalogRows EXCEPT ![kcall[c].of] = [hs |-> kcall[c].hs, image |-> kcall[c].image]]
        /\ UNCHANGED <<rowsShown, editing, isSaving, rates, kcount, kluck>>
    BY <1>2 DEF updateCatalogRow
  <2> QED
    BY <2>1, CatalogServes
<1> QED
  BY <1>1, <1>2

\* The answer closes, or changes, the form that is open.
LEMMA CatalogImageHolds == ASSUME CatalogInv, NEW c \in Calls, UploadAnswered(c) PROVE CatalogInv'
<1>1. /\ kcall[c].op = "uploaded" /\ kcall' = [kcall EXCEPT ![c] = KIdle]
      /\ editing' = IF editing = None THEN None ELSE [editing EXCEPT !.image = kcall[c].image]
      /\ UNCHANGED <<catalogRows, rowsShown, isSaving, rates, kcount, kluck>>
  BY DEF UploadAnswered, SaveEnds
<1>2. kcall[c].image \in Catalogued /\ KIdle \in CatalogCalls /\ KIdle.op = "idle" /\ "uploaded" \in Uploads
  BY <1>1, CatalogFacts, CatalogCallKinds
<1>3. /\ kcall' \in [Calls -> CatalogCalls] /\ kcall'[c] = KIdle /\ \A d \in Calls : d # c => kcall'[d] = kcall[d]
  BY <1>1, <1>2, CatalogCallSet
<1>4. \A d \in Calls : kcall'[d].op \in Uploads \cup Saves => d # c /\ kcall'[d] = kcall[d]
  BY <1>2, <1>3, CatalogCallKinds
<1>5. /\ editing = None => editing' = None
      /\ editing # None => /\ editing' \in CatalogForms /\ editing'.of = editing.of /\ editing'.hs = editing.hs
                           /\ editing'.gh = editing.gh /\ editing'.image = kcall[c].image /\ editing' # None
  <2>1. CASE editing # None
    <3>1. editing \in CatalogForms /\ editing' = [editing EXCEPT !.image = kcall[c].image]
      BY <1>1, <2>1, CatalogFacts
    <3>2. /\ editing' \in CatalogForms /\ editing'.of = editing.of /\ editing'.hs = editing.hs
          /\ editing'.gh = editing.gh /\ editing'.image = kcall[c].image
      BY <1>2, <3>1 DEF CatalogForms
    <3> QED
      BY <2>1, <3>2, CatalogNumbers
  <2> QED
    BY <1>1, <2>1
<1>6. CatalogTyped'
  BY <1>1, <1>3, <1>4, <1>5, CatalogFacts DEF CatalogTyped
<1>7. RatesFit'
  <2>1. \A d \in Calls : kcall'[d].op = "save" => kcall'[d] = kcall[d]
    BY <1>4, CatalogCallKinds
  <2>2. editing' # None => editing'.hs \in rates[editing'.of] /\ (editing'.gh # Invalid => InHs(editing'.gh) \in rates[editing'.of])
    BY <1>5, CatalogFacts DEF RatesFit
  <2> QED
    BY <1>1, <2>1, <2>2, CatalogFacts DEF RatesFit
<1>8. OneSave'
  BY <1>1, <1>4, CatalogFacts DEF OneSave
<1>9. ASSUME kluck' = {} PROVE FormIsDue'
  <2>1. FormIsDue
    BY <1>1, <1>9 DEF CatalogInv
  <2>2. editing # None /\ editing.of = kcall[c].of /\ kcall[c].image = kcall[c].of
    BY <1>1, <1>2, <2>1 DEF FormIsDue
  <2>3. (Waiting(Saves) => ~Waiting(Uploads))'
    BY <1>4, <2>1 DEF FormIsDue, Waiting
  <2> QED
    BY <1>1, <1>4, <1>5, <2>1, <2>2, <2>3 DEF FormIsDue
<1> QED
  BY <1>6, <1>7, <1>8, <1>9 DEF CatalogInv

LEMMA CatalogSavedHolds == ASSUME CatalogInv, NEW c \in Calls, SaveAnswered(c) PROVE CatalogInv'
<1>1. /\ kcall[c].op = "saved" /\ kcall' = [kcall EXCEPT ![c] = KCall("fetch", None, 0, None)]
      /\ editing' = None /\ isSaving' = FALSE
      /\ UNCHANGED <<catalogRows, rowsShown, rates, kcount, kluck>>
  BY DEF SaveAnswered
<1>2. PICK q \in CatalogCalls : q = KCall("fetch", None, 0, None) /\ q.op = "fetch"
  BY CatalogCallKinds
<1>3. /\ kcall' \in [Calls -> CatalogCalls] /\ kcall'[c] = q /\ \A d \in Calls : d # c => kcall'[d] = kcall[d]
  BY <1>1, <1>2, CatalogCallSet
<1>4. \A d \in Calls : kcall'[d].op \in Uploads \cup Saves => d # c /\ kcall'[d] = kcall[d]
  BY <1>2, <1>3, CatalogCallKinds
<1>5. \A d \in Calls : d # c => kcall[d].op \notin Saves
  BY <1>1, CatalogFacts, CatalogCallKinds DEF OneSave
<1>6. CatalogTyped'
  BY <1>1, <1>2, <1>3, <1>4, CatalogFacts DEF CatalogTyped
<1>7. RatesFit'
  <2>1. \A d \in Calls : kcall'[d].op = "save" => kcall'[d] = kcall[d]
    BY <1>4, CatalogCallKinds
  <2> QED
    BY <1>1, <2>1, CatalogFacts DEF RatesFit
<1>8. OneSave'
  BY <1>4, <1>5 DEF OneSave
<1>9. ASSUME kluck' = {} PROVE FormIsDue'
  <2>1. FormIsDue /\ Waiting(Saves)
    BY <1>1, <1>9, CatalogCallKinds DEF CatalogInv, Waiting
  <2>2. \A d \in Calls : kcall[d].op \notin Uploads
    BY <2>1 DEF FormIsDue, Waiting
  <2>3. \A d \in Calls : kcall'[d].op \notin Uploads \cup Saves
    BY <1>4, <1>5, <2>2
  <2> QED
    BY <1>1, <2>1, <2>3 DEF FormIsDue, Waiting
<1> QED
  BY <1>6, <1>7, <1>8, <1>9 DEF CatalogInv

LEMMA CatalogSteps == ASSUME CatalogInv, CatalogNext PROVE CatalogInv'
BY CatalogOpenHolds, CatalogTypingHolds, CatalogCloseHolds, CatalogFetchHolds, CatalogShowHolds, CatalogUploadHolds,
   CatalogServeHolds, CatalogImageHolds, CatalogSaveHolds, CatalogSavedHolds, CatalogFailHolds
   DEF CatalogNext

LEMMA CatalogStays == ASSUME CatalogInv, UNCHANGED catalogVars PROVE CatalogInv'
<1>1. UNCHANGED <<catalogRows, rowsShown, editing, isSaving, kcall, rates, kcount, kluck>>
  BY DEF catalogVars
<1>2. CatalogTyped' /\ OneSave'
  BY <1>1 DEF CatalogInv, CatalogTyped, OneSave
<1>3. RatesFit'
  BY <1>1 DEF CatalogInv, RatesFit
<1>4. kluck' = {} => FormIsDue'
  BY <1>1 DEF CatalogInv, FormIsDue, Waiting
<1> QED
  BY <1>2, <1>3, <1>4 DEF CatalogInv

LEMMA CatalogHolds == CatalogInv => CatalogTypeOK /\ RatesAreTyped /\ ImagesAreOwn /\ SavesOwnForm
<1> SUFFICES ASSUME CatalogInv PROVE CatalogTypeOK /\ RatesAreTyped /\ ImagesAreOwn /\ SavesOwnForm
  OBVIOUS
<1>1. CatalogTypeOK
  BY CatalogFacts DEF CatalogTypeOK, CatalogList, CatalogForms
<1>2. RatesAreTyped
  BY CatalogFacts DEF RatesAreTyped, RatesFit
<1>3. ImagesAreOwn /\ SavesOwnForm
  BY DEF CatalogInv, FormIsDue, ImagesAreOwn, SavesOwnForm
<1> QED
  BY <1>1, <1>2, <1>3

\* A miner keeps a rate that was typed for it, whatever lists, forms and saves
\* cross; and unless a form was left while a request was due for it, its image
\* is its own and a save closes its own form.
THEOREM CatalogIsTyped == CatalogSpec => [](CatalogTypeOK /\ RatesAreTyped /\ ImagesAreOwn /\ SavesOwnForm)
<1>1. CatalogInit => CatalogInv
  BY CatalogBegins
<1>2. CatalogInv /\ [CatalogNext]_catalogVars => CatalogInv'
  BY CatalogSteps, CatalogStays
<1> QED
  BY <1>1, <1>2, CatalogHolds, PTL DEF CatalogSpec

-----------------------------------------------------------------------------
(* The administrator's tables.                                              *)

DeskCalls ==
    {DIdle, DCall("fetch", None, NoButton)}
    \cup {DCall(pc, r, b) : pc \in {"act", "done"}, r \in Rows, b \in Buttons}
    \cup {[pc |-> "list", row |-> None, button |-> NoButton, list |-> l] : l \in [Rows -> Statuses]}

DeskTyped == DeskTypeOK /\ dcall \in [Calls -> DeskCalls]

RowIsShown(r) == cells[r] = Cell(status[r])

\* With nothing lost or crossed one request is due, and until its handler has
\* changed a row the table shows what it shows when nothing is due.
DeskFollows ==
    /\ \A c, d \in Calls : dcall[c].pc # "idle" /\ dcall[d].pc # "idle" => c = d
    /\ ~DeskWaits => \A r \in toasts : RowIsShown(r)
    /\ \A c \in Calls : dcall[c].pc = "act" => \A r \in toasts : RowIsShown(r)
    /\ \A c \in Calls : dcall[c].pc = "list" => \A r \in toasts : dcall[c].list[r] = status[r]

DeskInv == DeskTyped /\ (dluck = {} => DeskFollows)

LEMMA ButtonsMakeRows ==
    ASSUME desk \in DOMAIN Firsts
    PROVE  /\ \A b \in Buttons : b.handler.to \in Statuses
           /\ \A e \in LeavesDesk : e[2] \in Statuses
           /\ Firsts[desk] \subseteq Statuses
<1>1. desk \in {"finance", "dashboard", "users", "backups", "miners"}
  BY DEF Firsts
<1>2. \A b \in FinanceButtons : b.handler.to \in Statuses
  BY DEF FinanceButtons, Button, Handler, approveWithdrawal, rejectWithdrawal, completeWithdrawal, Statuses
<1>3. \A b \in DashboardButtons \cup UsersButtons : b.handler.to \in Statuses
  BY <1>2 DEF DashboardButtons, UsersButtons, Button, Handler, setUserBan, Statuses
<1>4. \A b \in BackupsButtons \cup {handleCreateMiner, handleDeleteMiner} : b.handler.to \in Statuses
  BY DEF BackupsButtons, handleCreateMiner, handleDeleteMiner, Button, Handler, createBackup, deleteBackup,
     createMiner, deleteMiner, Statuses
<1>5. \A b \in Buttons : b.handler.to \in Statuses
  BY <1>1, <1>2, <1>3, <1>4 DEF Buttons
<1>6. \A e \in OtherChanges : e[2] \in Statuses
  BY DEF OtherChanges, Statuses
<1>7. \A e \in LeavesDesk : e[2] \in Statuses
  BY <1>5, <1>6 DEF LeavesDesk
<1>8. Firsts[desk] \subseteq Statuses
  BY <1>1 DEF Firsts, Statuses
<1> QED
  BY <1>5, <1>7, <1>8

LEMMA CellsAreShown == \A s \in Statuses : Cell(s) \in Statuses \cup {None}
BY DEF Cell, Statuses

LEMMA DeskCallKinds ==
    /\ DIdle \in DeskCalls /\ DIdle.pc = "idle"
    /\ DCall("fetch", None, NoButton) \in DeskCalls /\ DCall("fetch", None, NoButton).pc = "fetch"
    /\ \A pc \in {"act", "done"}, r \in Rows, b \in Buttons :
          /\ DCall(pc, r, b) \in DeskCalls /\ DCall(pc, r, b).pc = pc
          /\ DCall(pc, r, b).row = r /\ DCall(pc, r, b).button = b
    /\ \A l \in [Rows -> Statuses] : \E q \in DeskCalls :
          q = [pc |-> "list", row |-> None, button |-> NoButton, list |-> l] /\ q.pc = "list" /\ q.list = l
    /\ \A q \in DeskCalls :
          /\ q.pc \in {"idle", "fetch", "act", "done", "list"}
          /\ q.pc = "idle" => q = DIdle
          /\ q.pc \in {"act", "done"} => q.row \in Rows /\ q.button \in Buttons
          /\ q.pc = "list" => q.list \in [Rows -> Statuses]
<1> USE DEF DCall, DIdle
<1> HIDE DEF Buttons, NoButton, Statuses
<1>1. /\ DIdle \in DeskCalls /\ DIdle.pc = "idle"
      /\ DCall("fetch", None, NoButton) \in DeskCalls /\ DCall("fetch", None, NoButton).pc = "fetch"
  BY DEF DeskCalls
<1>2. ASSUME NEW pc \in {"act", "done"}, NEW r \in Rows, NEW b \in Buttons
      PROVE  /\ DCall(pc, r, b) \in DeskCalls /\ DCall(pc, r, b).pc = pc
             /\ DCall(pc, r, b).row = r /\ DCall(pc, r, b).button = b
  BY DEF DeskCalls
<1>3. ASSUME NEW l \in [Rows -> Statuses]
      PROVE  \E q \in DeskCalls :
                q = [pc |-> "list", row |-> None, button |-> NoButton, list |-> l] /\ q.pc = "list" /\ q.list = l
  <2> DEFINE x == [pc |-> "list", row |-> None, button |-> NoButton, list |-> l]
  <2>1. x \in DeskCalls
    BY DEF DeskCalls
  <2>2. x.pc = "list" /\ x.list = l
    OBVIOUS
  <2> QED
    BY <2>1, <2>2
<1>4. ASSUME NEW q \in DeskCalls
      PROVE  /\ q.pc \in {"idle", "fetch", "act", "done", "list"}
             /\ q.pc = "idle" => q = DIdle
             /\ q.pc \in {"act", "done"} => q.row \in Rows /\ q.button \in Buttons
             /\ q.pc = "list" => q.list \in [Rows -> Statuses]
  <2>1. CASE q \in {DIdle, DCall("fetch", None, NoButton)}
    BY <2>1
  <2>2. ASSUME NEW pc \in {"act", "done"}, NEW r \in Rows, NEW b \in Buttons, q = DCall(pc, r, b)
        PROVE  q.pc \in {"act", "done"} /\ q.row \in Rows /\ q.button \in Buttons
    BY <2>2
  <2>3. ASSUME NEW l \in [Rows -> Statuses], q = [pc |-> "list", row |-> None, button |-> NoButton, list |-> l]
        PROVE  q.pc = "list" /\ q.list \in [Rows -> Statuses]
    BY <2>3
  <2>4. \/ q \in {DIdle, DCall("fetch", None, NoButton)}
        \/ \E pc \in {"act", "done"}, r \in Rows, b \in Buttons : q = DCall(pc, r, b)
        \/ \E l \in [Rows -> Statuses] : q = [pc |-> "list", row |-> None, button |-> NoButton, list |-> l]
    BY DEF DeskCalls
  <2> QED
    BY <2>1, <2>2, <2>3, <2>4
<1> QED
  BY <1>1, <1>2, <1>3, <1>4

LEMMA DeskFacts ==
    ASSUME DeskInv
    PROVE  /\ desk \in DOMAIN Firsts
           /\ status \in [Rows -> Statuses] /\ cells \in [Rows -> Statuses \cup {None}]
           /\ dcall \in [Calls -> DeskCalls] /\ DOMAIN dcall = Calls /\ clicks \in 0 .. MaxClicks
           /\ toasts \subseteq Rows /\ dluck \subseteq {"crossed", "lost"}
           /\ \A c \in Calls : dcall[c] \in DeskCalls
           /\ dluck = {} => DeskFollows
BY DEF DeskInv, DeskTyped, DeskTypeOK

LEMMA DeskCallsStay == ASSUME desk' = desk PROVE DeskCalls' = DeskCalls
BY DEF DeskCalls, Buttons, DIdle, DCall, NoButton, Button, Handler, DashboardButtons, UsersButtons,
   BackupsButtons, FinanceButtons, handleCreateMiner, handleDeleteMiner, approveWithdrawal,
   rejectWithdrawal, completeWithdrawal, setUserBan, createBackup, deleteBackup, createMiner, deleteMiner

LEMMA DeskCallSet ==
    ASSUME DeskInv, NEW c \in Calls, NEW q \in DeskCalls, dcall' = [dcall EXCEPT ![c] = q], desk' = desk
    PROVE  /\ (dcall \in [Calls -> DeskCalls])' /\ dcall'[c] = q
           /\ \A d \in Calls : d # c => dcall'[d] = dcall[d]
BY DeskFacts, DeskCallsStay

LEMMA DeskBegins == DeskInit => DeskInv
<1> SUFFICES ASSUME DeskInit PROVE DeskInv
  OBVIOUS
<1>1. desk \in DOMAIN Firsts /\ status \in [Rows -> Firsts[desk]] /\ cells = [r \in Rows |-> None]
      /\ dcall = [c \in Calls |-> DIdle] /\ clicks = 0 /\ toasts = {} /\ dluck = {}
  BY DEF DeskInit
<1>2. DeskTyped
  <2>1. status \in [Rows -> Statuses]
    BY <1>1, ButtonsMakeRows
  <2>2. clicks \in 0 .. MaxClicks
    BY <1>1, DeskAssumption
  <2>3. dcall \in [Calls -> DeskCalls] /\ DOMAIN dcall = Calls
    BY <1>1, DeskCallKinds
  <2> QED
    BY <1>1, <2>1, <2>2, <2>3 DEF DeskTyped, DeskTypeOK
<1>3. \A c \in Calls : dcall[c].pc = "idle"
  BY <1>1, DeskCallKinds
<1>4. DeskFollows
  BY <1>1, <1>3 DEF DeskFollows
<1> QED
  BY <1>2, <1>4 DEF DeskInv

\* A request is sent: of a fetch, or of a button.
LEMMA DeskSendHolds ==
    ASSUME DeskInv, NEW c \in Calls, NEW q \in DeskCalls, DeskSends(c, q), q.pc \in {"fetch", "act"},
           clicks' \in 0 .. MaxClicks
    PROVE  DeskInv'
<1>1. /\ dcall[c] = DIdle /\ dcall' = [dcall EXCEPT ![c] = q]
      /\ dluck' = dluck \cup (IF DeskWaits THEN {"crossed"} ELSE {})
      /\ UNCHANGED <<desk, status, cells, toasts>>
  BY DEF DeskSends
<1>2. /\ (dcall \in [Calls -> DeskCalls])' /\ dcall'[c] = q
      /\ \A d \in Calls : d # c => dcall'[d] = dcall[d]
  BY <1>1, DeskCallSet
<1>3. DeskTyped'
  BY <1>1, <1>2, DeskFacts DEF DeskTyped, DeskTypeOK
<1>4. ASSUME dluck' = {} PROVE DeskFollows'
  <2>1. dluck = {} /\ ~DeskWaits
    BY <1>1, <1>4
  <2>2. \A r \in toasts : RowIsShown(r)
    BY <2>1, DeskFacts DEF DeskFollows
  <2>3. \A r \in toasts' : RowIsShown(r)'
    BY <1>1, <2>2 DEF RowIsShown, Cell
  <2>4. \A d \in Calls : d # c => dcall'[d].pc = "idle"
    BY <1>2, <2>1 DEF DeskWaits
  <2> QED
    BY <1>2, <2>3, <2>4 DEF DeskFollows
<1> QED
  BY <1>3, <1>4 DEF DeskInv

LEMMA DeskFetchHolds == ASSUME DeskInv, NEW c \in Calls, fetchData(c) PROVE DeskInv'
<1>1. DeskSends(c, DCall("fetch", None, NoButton)) /\ clicks' = clicks
  BY DEF fetchData
<1> QED
  BY <1>1, DeskFacts, DeskCallKinds, DeskSendHolds

LEMMA DeskPressHolds == ASSUME DeskInv, NEW c \in Calls, PressesButton(c) PROVE DeskInv'
<1>1. PICK r \in Rows, b \in Buttons : clicks < MaxClicks /\ DeskSends(c, DCall("act", r, b)) /\ clicks' = clicks + 1
  BY DEF PressesButton
<1>2. clicks' \in 0 .. MaxClicks
  BY <1>1, DeskFacts, DeskAssumption
<1> QED
  BY <1>1, <1>2, DeskCallKinds, DeskSendHolds

LEMMA DeskHandleHolds == ASSUME DeskInv, NEW c \in Calls, DeskHandles(c) PROVE DeskInv'
<1> DEFINE q == dcall[c]
<1>1. /\ q.pc = "act" /\ q.row \in Rows /\ q.button \in Buttons
      /\ UNCHANGED <<desk, cells, clicks, dluck>>
  BY DeskFacts, DeskCallKinds DEF DeskHandles
<1>2. CASE status[q.row] \in q.button.handler.accepts
  <2>1. PICK p \in DeskCalls : p.pc = "done" /\ dcall' = [dcall EXCEPT ![c] = p]
    <3>1. dcall' = [dcall EXCEPT ![c] = DCall("done", q.row, q.button)]
      BY <1>2 DEF DeskHandles
    <3>2. PICK r \in Rows, b \in Buttons : r = q.row /\ b = q.button
      BY <1>1
    <3>3. DCall("done", r, b) \in DeskCalls /\ DCall("done", r, b).pc = "done"
      BY DeskCallKinds
    <3> QED
      BY <3>1, <3>2, <3>3
  <2>2. /\ (dcall \in [Calls -> DeskCalls])' /\ dcall'[c] = p
        /\ \A d \in Calls : d # c => dcall'[d] = dcall[d]
    BY <1>1, <2>1, DeskCallSet
  <2>3. status' = [status EXCEPT ![q.row] = q.button.handler.to] /\ toasts' = toasts \cup {q.row}
    BY <1>2 DEF DeskHandles
  <2>4. q.button.handler.to \in Statuses
    BY <1>1, DeskFacts, ButtonsMakeRows
  <2>5. status' \in [Rows -> Statuses]
    BY <1>1, <2>3, <2>4, DeskFacts
  <2>6. DeskTyped'
    BY <1>1, <2>2, <2>3, <2>5, DeskFacts DEF DeskTyped, DeskTypeOK
  <2>7. ASSUME dluck' = {} PROVE DeskFollows'
    <3>1. \A d \in Calls : d # c => dcall'[d].pc = "idle"
      BY <1>1, <2>2, <2>7, DeskFacts DEF DeskFollows
    <3>2. DeskWaits'
      BY <2>1, <2>2 DEF DeskWaits
    <3> QED
      BY <2>1, <2>2, <3>1, <3>2 DEF DeskFollows
  <2> QED
    BY <2>6, <2>7 DEF DeskInv
<1>3. CASE status[q.row] \notin q.button.handler.accepts
  <2>1. dcall' = [dcall EXCEPT ![c] = DIdle] /\ UNCHANGED <<status, toasts>>
    BY <1>3 DEF DeskHandles
  <2>2. /\ (dcall \in [Calls -> DeskCalls])' /\ dcall'[c] = DIdle
        /\ \A d \in Calls : d # c => dcall'[d] = dcall[d]
    BY <1>1, <2>1, DeskCallSet, DeskCallKinds
  <2>3. DeskTyped'
    BY <1>1, <2>1, <2>2, DeskFacts DEF DeskTyped, DeskTypeOK
  <2>4. ASSUME dluck' = {} PROVE DeskFollows'
    <3>1. \A d \in Calls : dcall'[d].pc = "idle"
      BY <1>1, <2>2, <2>4, DeskFacts, DeskCallKinds DEF DeskFollows
    <3>2. \A r \in toasts : RowIsShown(r)
      BY <1>1, <2>4, DeskFacts DEF DeskFollows
    <3>3. \A r \in toasts' : RowIsShown(r)'
      BY <1>1, <2>1, <3>2 DEF RowIsShown, Cell
    <3> QED
      BY <3>1, <3>3 DEF DeskFollows
  <2> QED
    BY <2>3, <2>4 DEF DeskInv
<1> QED
  BY <1>2, <1>3

\* A request goes on to something that nothing is asked of yet.
LEMMA DeskGoesOn ==
    ASSUME DeskInv, NEW c \in Calls, NEW q \in DeskCalls, dcall' = [dcall EXCEPT ![c] = q],
           dcall[c].pc # "idle", q.pc \in {"fetch", "list"}, q.pc = "list" => q.list = status,
           UNCHANGED <<desk, status, cells, clicks, toasts, dluck>>
    PROVE  DeskInv'
<1>1. /\ (dcall \in [Calls -> DeskCalls])' /\ dcall'[c] = q
      /\ \A d \in Calls : d # c => dcall'[d] = dcall[d]
  BY DeskCallSet
<1>2. DeskTyped'
  BY <1>1, DeskFacts DEF DeskTyped, DeskTypeOK
<1>3. ASSUME dluck' = {} PROVE DeskFollows'
  <2>1. \A d \in Calls : d # c => dcall'[d].pc = "idle"
    BY <1>1, <1>3, DeskFacts DEF DeskFollows
  <2>2. DeskWaits'
    BY <1>1 DEF DeskWaits
  <2> QED
    BY <1>1, <2>1, <2>2 DEF DeskFollows
<1> QED
  BY <1>2, <1>3 DEF DeskInv

LEMMA DeskAnswerHolds == ASSUME DeskInv, NEW c \in Calls, DeskAnswered(c) PROVE DeskInv'
<1>1. /\ dcall[c].pc = "done" /\ dcall' = [dcall EXCEPT ![c] = DCall("fetch", None, NoButton)]
      /\ UNCHANGED <<desk, status, cells, clicks, toasts, dluck>>
  BY DEF DeskAnswered, FetchesAgain
<1> QED
  BY <1>1, DeskCallKinds, DeskGoesOn

LEMMA DeskListHolds == ASSUME DeskInv, NEW c \in Calls, ListsRows(c) PROVE DeskInv'
<1>1. /\ dcall[c].pc = "fetch"
      /\ UNCHANGED <<desk, status, cells, clicks, toasts, dluck>>
  BY DEF ListsRows
<1>2. PICK q \in DeskCalls : /\ q = [pc |-> "list", row |-> None, button |-> NoButton, list |-> status]
                             /\ q.pc = "list" /\ q.list = status
  <2>1. status \in [Rows -> Statuses]
    BY DeskFacts
  <2> QED
    BY <2>1, DeskCallKinds
<1>3. dcall' = [dcall EXCEPT ![c] = q]
  BY <1>2 DEF ListsRows
<1> QED
  BY <1>1, <1>2, <1>3, DeskGoesOn

LEMMA DeskShowHolds == ASSUME DeskInv, NEW c \in Calls, DeskListAnswered(c) PROVE DeskInv'
<1>1. /\ dcall[c].pc = "list" /\ dcall' = [dcall EXCEPT ![c] = DIdle]
      /\ cells' = [r \in Rows |-> Cell(dcall[c].list[r])]
      /\ UNCHANGED <<desk, status, clicks, toasts, dluck>>
  BY DEF DeskListAnswered
<1>2. dcall[c].list \in [Rows -> Statuses]
  BY <1>1, DeskFacts, DeskCallKinds
<1>3. /\ (dcall \in [Calls -> DeskCalls])' /\ dcall'[c] = DIdle
      /\ \A d \in Calls : d # c => dcall'[d] = dcall[d]
  BY <1>1, DeskCallSet, DeskCallKinds
<1>4. cells' \in [Rows -> Statuses \cup {None}]
  BY <1>1, <1>2, CellsAreShown
<1>5. DeskTyped'
  BY <1>1, <1>3, <1>4, DeskFacts DEF DeskTyped, DeskTypeOK
<1>6. ASSUME dluck' = {} PROVE DeskFollows'
  <2>1. \A d \in Calls : dcall'[d].pc = "idle"
    BY <1>1, <1>3, <1>6, DeskFacts, DeskCallKinds DEF DeskFollows
  <2>2. \A r \in toasts : r \in Rows /\ dcall[c].list[r] = status[r]
    BY <1>1, <1>6, DeskFacts DEF DeskFollows
  <2>3. \A r \in toasts : cells'[r] = Cell(status[r])
    BY <1>1, <2>2
  <2>4. \A r \in toasts' : RowIsShown(r)'
    BY <1>1, <2>3 DEF RowIsShown, Cell
  <2> QED
    BY <2>1, <2>4 DEF DeskFollows
<1> QED
  BY <1>5, <1>6 DEF DeskInv

LEMMA DeskFailHolds == ASSUME DeskInv, NEW c \in Calls, DeskFails(c) PROVE DeskInv'
<1>1. /\ dcall' = [dcall EXCEPT ![c] = DIdle] /\ dluck' = dluck \cup {"lost"}
      /\ UNCHANGED <<desk, status, cells, clicks, toasts>>
  BY DEF DeskFails
<1>2. (dcall \in [Calls -> DeskCalls])'
  BY <1>1, DeskCallSet, DeskCallKinds
<1>3. DeskTyped'
  BY <1>1, <1>2, DeskFacts DEF DeskTyped, DeskTypeOK
<1> QED
  BY <1>1, <1>3 DEF DeskInv

LEMMA DeskElsewhereHolds == ASSUME DeskInv, ChangesElsewhere PROVE DeskInv'
<1>1. PICK s \in Rows, e \in LeavesDesk :
        /\ status' = [status EXCEPT ![s] = e[2]] /\ toasts' = toasts \ {s}
        /\ UNCHANGED <<desk, cells, dcall, clicks, dluck>>
  BY DEF ChangesElsewhere
<1>2. e[2] \in Statuses
  BY <1>1, DeskFacts, ButtonsMakeRows
<1>3. status' \in [Rows -> Statuses] /\ \A r \in Rows : r # s => status'[r] = status[r]
  BY <1>1, <1>2, DeskFacts
<1>4. (dcall \in [Calls -> DeskCalls])'
  BY <1>1, DeskCallsStay, DeskFacts
<1>5. DeskTyped'
  BY <1>1, <1>3, <1>4, DeskFacts DEF DeskTyped, DeskTypeOK
<1>6. ASSUME dluck' = {} PROVE DeskFollows'
  <2>1. DeskFollows
    BY <1>1, <1>6, DeskFacts
  <2>2. \A r \in toasts' : r \in toasts /\ status'[r] = status[r]
    BY <1>1, <1>3, DeskFacts
  <2>3. ASSUME NEW r \in toasts', RowIsShown(r) PROVE RowIsShown(r)'
    BY <1>1, <2>2, <2>3 DEF RowIsShown, Cell
  <2>4. DeskWaits' = DeskWaits
    BY <1>1 DEF DeskWaits
  <2> QED
    BY <1>1, <2>1, <2>2, <2>3, <2>4 DEF DeskFollows
<1> QED
  BY <1>5, <1>6 DEF DeskInv

\* The administrator's tables show what their buttons have made of the rows.
THEOREM TablesAreListed == DeskSpec => [](DeskTypeOK /\ ActsAreListed)
<1>1. ASSUME DeskInv, [DeskNext]_deskVars PROVE DeskInv'
  <2>1. CASE UNCHANGED deskVars
    <3>1. UNCHANGED <<desk, status, cells, dcall, clicks, toasts, dluck>>
      BY <2>1 DEF deskVars
    <3>2. DeskTyped'
      BY <1>1, <3>1, DeskCallsStay DEF DeskInv, DeskTyped, DeskTypeOK
    <3>3. dluck' = {} => DeskFollows'
      BY <1>1, <3>1 DEF DeskInv, DeskFollows, DeskWaits, RowIsShown, Cell
    <3> QED
      BY <3>2, <3>3 DEF DeskInv
  <2> QED
    BY <1>1, <2>1, DeskFetchHolds, DeskPressHolds, DeskHandleHolds, DeskAnswerHolds, DeskListHolds, DeskShowHolds,
       DeskFailHolds, DeskElsewhereHolds
    DEF DeskNext
<1>2. DeskInv => DeskTypeOK /\ ActsAreListed
  BY DEF DeskInv, DeskTyped, DeskFollows, ActsAreListed, RowIsShown
<1> QED
  BY DeskBegins, <1>1, <1>2, PTL DEF DeskSpec
=============================================================================
