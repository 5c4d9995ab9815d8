----------------------------- MODULE PlayProofs -----------------------------
(***************************************************************************)
(* Proofs about what a player does between two blocks: the faucet,          *)
(* shortlinks, watching and the daily check-in, the games and the market,   *)
(* and the theorems about all of them side by side.                         *)
(***************************************************************************)
EXTENDS MCPlay, MachinesProofs

-----------------------------------------------------------------------------
(* The faucet.                                                              *)

\* What the claims rest on, whatever overlaps: the record keeps the time of the
\* last claim, and a claim that is ready has passed its checks.
ClaimReady(c) ==
    LET q == fcall[c] IN
    /\ q.pc = "idle" => q = FIdle
    /\ q.pc # "idle" => q.now \in Ticks /\ q.op \in {"claim", "status"}
    /\ q.pc \in {"normal", "ready"} => q.day \in Days
    /\ q.pc = "ready" =>
          q.opened \in Ticks \cup {Never} /\ q.op = "claim" /\ Available(q.rec, q.now) /\ PartnerReady(q.opened, q.rec, q.now)

\* Unless claims have overlapped, a claim goes by the record that stands.
ClaimInv ==
    /\ FaucetTypeOK
    /\ record.at = latest.at
    /\ \A c \in Calls : ClaimReady(c)
    /\ overlap # "claims" =>
          /\ \A c \in Calls : fcall[c].op = "claim" => fcall[c].rec.at = record.at
          /\ \A c, d \in Calls : fcall[c].op = "claim" /\ fcall[d].op = "claim" => c = d

LEMMA ClaimBegins == FaucetInit => ClaimInv
BY FaucetAssumption DEF FaucetInit, ClaimInv, FaucetTypeOK, ClaimReady, FIdle, FCall, NoRecord, FaucetRecord, Never, Ticks

\* Requests and ticks that make no claim.
LEMMA ClaimStep == ASSUME ClaimInv, [FaucetNext]_faucetVars PROVE ClaimInv'
<1>0. tick \in Nat /\ Today \in Days
  BY FaucetAssumption DEF ClaimInv, FaucetTypeOK, Ticks, Today, Days
<1>1. CASE UNCHANGED faucetVars
  BY <1>1 DEF ClaimInv, FaucetTypeOK, ClaimReady, faucetVars, claims
<1>2. CASE FaucetTick
  BY <1>2, FaucetAssumption DEF FaucetTick, ClaimInv, FaucetTypeOK, ClaimReady, claims, Ticks
<1>3. CASE startPartnerVisit
  BY <1>0, <1>3 DEF startPartnerVisit, ClaimInv, FaucetTypeOK, ClaimReady, claims
<1>4. ASSUME NEW c \in Calls, NEW op \in {"claim", "status"}, ReadRecord(c, op) PROVE ClaimInv'
  <2>1. /\ fcall[c] = FIdle /\ fcall' = [fcall EXCEPT ![c] = FCall("read", op, tick, record, None, Never)]
        /\ UNCHANGED <<tick, record, visit, given, latest>>
    BY <1>4 DEF ReadRecord, ClaimInv, ClaimReady, FaucetTypeOK, claims
  <2>2. overlap' # "claims" => overlap # "claims" /\ (op = "claim" => \A d \in Calls : fcall[d].op # "claim")
    BY <1>4 DEF ReadRecord
  <2>3. overlap' \in {"none", "requests", "claims"}
    BY <1>4 DEF ReadRecord, ClaimInv, FaucetTypeOK
  <2> QED
    BY <2>1, <2>2, <2>3 DEF ClaimInv, FaucetTypeOK, ClaimReady, FCall
<1>5. ASSUME NEW c \in Calls, normalizeFaucetRecord(c) PROVE ClaimInv'
  <2> DEFINE q == fcall[c]
             stale == q.rec # NoRecord /\ q.rec.day # Today
  <2>1. /\ q.pc = "read" /\ UNCHANGED <<tick, visit, given, latest, overlap>>
        /\ record' = IF stale THEN Normalised(record) ELSE record
        /\ fcall' = [fcall EXCEPT ![c] = FCall("normal", q.op, q.now,
                         IF stale THEN Normalised(record) ELSE q.rec, Today, Never)]
    BY <1>5 DEF normalizeFaucetRecord, Goes, claims
  <2>2. record'.at = record.at /\ record'.total \in Nat /\ record'.day \in Days \cup {None}
    BY <1>0, <2>1 DEF Normalised, ClaimInv, FaucetTypeOK
  <2>3. Normalised(record).at = record.at
    BY DEF Normalised
  <2> HIDE DEF stale
  <2>4. q.op = "claim" /\ overlap # "claims" => (IF stale THEN Normalised(record) ELSE q.rec).at = record.at
    BY <2>3 DEF ClaimInv
  <2> QED
    BY <1>0, <2>1, <2>2, <2>4 DEF ClaimInv, FaucetTypeOK, ClaimReady, FCall
<1>6. ASSUME NEW c \in Calls, FaucetChecks(c) PROVE ClaimInv'
  <2> DEFINE q == fcall[c]
             r == FCall("ready", "claim", q.now, q.rec, q.day, visit[q.day])
  <2>1. /\ q.pc = "normal" /\ UNCHANGED <<tick, record, visit, given, latest, overlap>>
        /\ \/ fcall' = [fcall EXCEPT ![c] = FIdle]
           \/ /\ fcall' = [fcall EXCEPT ![c] = r]
              /\ q.op = "claim" /\ Available(q.rec, q.now) /\ PartnerReady(visit[q.day], q.rec, q.now)
    BY <1>6 DEF FaucetChecks, Goes, claims
  <2>2. FIdle.op = "none" /\ FIdle.pc = "idle"
    BY DEF FIdle, FCall
  <2>3. CASE fcall' = [fcall EXCEPT ![c] = FIdle]
    BY <2>1, <2>2, <2>3 DEF ClaimInv, FaucetTypeOK, ClaimReady
  <2>4. CASE fcall' = [fcall EXCEPT ![c] = r] /\ q.op = "claim" /\ Available(q.rec, q.now) /\ PartnerReady(visit[q.day], q.rec, q.now)
    BY <2>1, <2>4 DEF ClaimInv, FaucetTypeOK, ClaimReady, FCall
  <2> QED
    BY <2>1, <2>3, <2>4
<1>7. ASSUME NEW c \in Calls, FaucetCommits(c) PROVE ClaimInv'
  <2>1. FIdle.op = "none" /\ FIdle.pc = "idle"
    BY DEF FIdle, FCall
  <2>2. fcall[c].op = "claim"
    BY <1>7 DEF FaucetCommits, ClaimInv, ClaimReady
  <2> QED
    BY <1>7, <2>1, <2>2 DEF FaucetCommits, Goes, ClaimInv, FaucetTypeOK, ClaimReady, FaucetRecord
<1>8. ASSUME NEW c \in Calls, FaucetFails(c) PROVE ClaimInv'
  BY <1>8 DEF FaucetFails, Goes, ClaimInv, FaucetTypeOK, ClaimReady, FIdle, FCall, claims
<1> QED
  BY <1>1, <1>2, <1>3, <1>4, <1>5, <1>6, <1>7, <1>8 DEF FaucetNext

\* TotalCountsTheDay: a request that is alone has read the record as it is,
\* and no later day has claims.
CountInv ==
    overlap = "none" =>
        /\ \A c, d \in Calls : fcall[c].pc # "idle" /\ fcall[d].pc # "idle" => c = d
        /\ record.day = None => record = NoRecord /\ \A d \in Days : given[d] = 0
        /\ record.day # None =>
              /\ record.day <= Today /\ record.total = given[record.day]
              /\ \A d \in Days : d > record.day => given[d] = 0
        /\ \A c \in Calls :
              LET q == fcall[c] IN
              /\ q.pc = "read" => q.rec = record
              /\ q.pc \in {"normal", "ready"} => q.day <= Today /\ record.day \in {None, q.day}

LEMMA CountBegins == FaucetInit => CountInv
BY DEF FaucetInit, CountInv, NoRecord, FaucetRecord, FIdle, FCall

LEMMA DaysAreNumbers == Days \subseteq Int
<1>1. \A t \in Nat : t \div DayLength \in Int
  BY FaucetAssumption
<1> QED
  BY <1>1, FaucetAssumption DEF Days, Ticks

LEMMA DaysPass ==
    ASSUME NEW t \in Nat
    PROVE  t \div DayLength <= (t + 1) \div DayLength
BY FaucetAssumption

LEMMA CountStep == ASSUME ClaimInv, CountInv, [FaucetNext]_faucetVars PROVE CountInv'
<1>0. /\ tick \in Nat /\ Today \in Days /\ Days \subseteq Nat /\ None \notin Days
      /\ record.day \in Days \cup {None} /\ given \in [Days -> Nat] /\ record.total \in Nat
      /\ DOMAIN fcall = Calls /\ \A c \in Calls : ClaimReady(c)
  <2>1. \A t \in Nat : t \div DayLength \in Nat
    BY FaucetAssumption
  <2> QED
    BY <2>1, FaucetAssumption DEF ClaimInv, FaucetTypeOK, Ticks, Today, Days
<1>1. CASE UNCHANGED faucetVars
  BY <1>1 DEF CountInv, faucetVars, claims, Today
<1>2. CASE FaucetTick
  <2>1. Today <= Today' /\ Today' \in Nat
    BY <1>0, <1>2, FaucetAssumption DEF FaucetTick, Today
  <2>2. UNCHANGED <<record, given, fcall, overlap>> /\ \A d \in Days : d <= Today => d <= Today'
    BY <1>0, <1>2, <2>1 DEF FaucetTick, claims
  <2> QED
    BY <1>0, <2>1, <2>2 DEF CountInv, ClaimReady
<1>3. CASE startPartnerVisit
  BY <1>3 DEF CountInv, startPartnerVisit, claims, Today
<1>4. ASSUME NEW c \in Calls, NEW op \in {"claim", "status"}, ReadRecord(c, op) PROVE CountInv'
  <2>1. /\ fcall' = [fcall EXCEPT ![c] = FCall("read", op, tick, record, None, Never)]
        /\ UNCHANGED <<tick, record, given>> /\ UNCHANGED Today
    BY <1>4 DEF ReadRecord, claims, Today
  <2>2. overlap' = "none" => overlap = "none" /\ \A d \in Calls : fcall[d].op = "none"
    BY <1>4 DEF ReadRecord
  <2>3. ASSUME overlap = "none", \A d \in Calls : fcall[d].op = "none" PROVE \A d \in Calls : fcall[d].pc = "idle"
    BY <1>0, <2>3 DEF ClaimReady
  <2> QED
    BY <1>0, <2>1, <2>2, <2>3 DEF CountInv, FCall
<1>5. ASSUME NEW c \in Calls, normalizeFaucetRecord(c) PROVE CountInv'
  <2> DEFINE q == fcall[c]
             stale == q.rec # NoRecord /\ q.rec.day # Today
  <2>1. /\ q.pc = "read" /\ UNCHANGED <<tick, given, overlap>> /\ UNCHANGED Today
        /\ record' = IF stale THEN Normalised(record) ELSE record
        /\ fcall' = [fcall EXCEPT ![c] = FCall("normal", q.op, q.now,
                         IF stale THEN Normalised(record) ELSE q.rec, Today, Never)]
    BY <1>5 DEF normalizeFaucetRecord, Goes, claims, Today
  <2> SUFFICES ASSUME overlap = "none" PROVE CountInv'
    BY <2>1 DEF CountInv
  <2>2. q.rec = record
    BY <2>1 DEF CountInv
  <2>3. CASE ~stale
    BY <1>0, <2>1, <2>2, <2>3 DEF CountInv, FCall, NoRecord, FaucetRecord
  <2>4. CASE stale
    <3>1. record.day # None /\ record.day < Today /\ given[Today] = 0
      BY <1>0, <2>2, <2>4 DEF CountInv
    <3>2. record'.day = Today /\ record'.total = 0
      BY <2>1, <2>4 DEF Normalised, NoRecord, FaucetRecord
    <3> QED
      BY <1>0, <2>1, <3>1, <3>2 DEF CountInv, FCall
  <2> QED
    BY <2>3, <2>4
<1>6. ASSUME NEW c \in Calls, FaucetChecks(c) PROVE CountInv'
  <2> DEFINE q == fcall[c]
             r == FCall("ready", "claim", q.now, q.rec, q.day, visit[q.day])
  <2>1. /\ q.pc = "normal" /\ UNCHANGED <<tick, record, given, overlap>> /\ UNCHANGED Today
        /\ \/ fcall' = [fcall EXCEPT ![c] = FIdle]
           \/ fcall' = [fcall EXCEPT ![c] = r]
    BY <1>6 DEF FaucetChecks, Goes, claims, Today
  <2>2. CASE fcall' = [fcall EXCEPT ![c] = FIdle]
    BY <1>0, <2>1, <2>2 DEF CountInv, FIdle, FCall
  <2>3. CASE fcall' = [fcall EXCEPT ![c] = r]
    BY <1>0, <2>1, <2>3 DEF CountInv, FCall
  <2> QED
    BY <2>1, <2>2, <2>3
<1>7. ASSUME NEW c \in Calls, FaucetCommits(c) PROVE CountInv'
  <2> DEFINE q == fcall[c]
  <2>1. /\ q.pc = "ready" /\ given' = [given EXCEPT ![q.day] = @ + 1]
        /\ record' = FaucetRecord(q.now, record.total + 1, q.day)
        /\ fcall' = [fcall EXCEPT ![c] = FIdle] /\ UNCHANGED <<tick, overlap>> /\ UNCHANGED Today
    BY <1>7 DEF FaucetCommits, Goes, Today
  <2> SUFFICES ASSUME overlap = "none" PROVE CountInv'
    BY <2>1 DEF CountInv
  <2>2. q.day \in Days /\ q.day <= Today /\ record.day \in {None, q.day} /\ record.total = given[q.day]
        /\ \A d \in Days : d > q.day => given[d] = 0
    <3>1. q.day \in Days /\ q.day <= Today /\ record.day \in {None, q.day}
      BY <1>0, <2>1 DEF CountInv, ClaimReady
    <3>2. CASE record.day = None
      <4>1. record = NoRecord /\ \A d \in Days : given[d] = 0
        BY <3>2 DEF CountInv
      <4>2. record.total = 0
        BY <4>1 DEF NoRecord, FaucetRecord
      <4> QED
        BY <3>1, <3>2, <4>1, <4>2
    <3>3. CASE record.day = q.day
      BY <1>0, <3>1, <3>3 DEF CountInv
    <3> QED
      BY <3>1, <3>2, <3>3
  <2>3. record'.day = q.day /\ record'.total = record.total + 1
    BY <2>1 DEF FaucetRecord
  <2> QED
    BY <1>0, <2>1, <2>2, <2>3 DEF CountInv, FIdle, FCall
<1>8. ASSUME NEW c \in Calls, FaucetFails(c) PROVE CountInv'
  BY <1>0, <1>8 DEF FaucetFails, Goes, CountInv, claims, FIdle, FCall, Today
<1> QED
  BY <1>1, <1>2, <1>3, <1>4, <1>5, <1>6, <1>7, <1>8 DEF FaucetNext

LEMMA ClaimsSpacedStep ==
    ASSUME ClaimInv, [FaucetNext]_faucetVars, latest' # latest, overlap # "claims"
    PROVE  /\ latest.at # Never => latest'.at >= latest.at + Cooldown
           /\ latest'.at >= latest'.opened + Wait
           /\ latest'.opened > latest.at
<1>1. PICK c \in Calls : FaucetCommits(c)
  BY DEF FaucetNext, faucetVars, claims, FaucetTick, startPartnerVisit, ReadRecord, normalizeFaucetRecord,
         FaucetChecks, FaucetFails
<1>2. /\ latest'.at = fcall[c].now /\ latest'.opened = fcall[c].opened /\ fcall[c].rec.at = latest.at
      /\ Available(fcall[c].rec, fcall[c].now) /\ PartnerReady(fcall[c].opened, fcall[c].rec, fcall[c].now)
  BY <1>1 DEF FaucetCommits, ClaimInv, ClaimReady
<1> QED
  BY <1>2 DEF Available, PartnerReady

LEMMA TotalCounted == ClaimInv /\ CountInv => FaucetTypeOK /\ TotalCountsTheDay
BY DEF ClaimInv, CountInv, TotalCountsTheDay, FaucetTypeOK

\* Claims are a cooldown apart and each has a visit of its own, waited for,
\* whatever status requests, visits and midnights come between them; and the
\* day's total counts the claims of its day.
THEOREM FaucetIsFair ==
    FaucetSpec => [](FaucetTypeOK /\ TotalCountsTheDay) /\ ClaimsAreSpaced /\ ClaimsHaveVisits
<1>1. FaucetInit => ClaimInv /\ CountInv
  BY ClaimBegins, CountBegins
<1>2. ClaimInv /\ CountInv /\ [FaucetNext]_faucetVars => (ClaimInv /\ CountInv)'
  BY ClaimStep, CountStep
<1>3. ClaimInv /\ [FaucetNext]_faucetVars =>
         [(latest' # latest /\ latest.at # Never /\ overlap # "claims")
            => latest'.at >= latest.at + Cooldown]_faucetVars
  BY ClaimsSpacedStep
<1>4. ClaimInv /\ [FaucetNext]_faucetVars =>
         [(latest' # latest /\ overlap # "claims")
            => /\ latest'.at >= latest'.opened + Wait
               /\ latest'.opened > latest.at]_faucetVars
  BY ClaimsSpacedStep
<1>5. FaucetSpec => [](ClaimInv /\ CountInv)
  BY <1>1, <1>2, PTL DEF FaucetSpec
<1>6. FaucetSpec => ClaimsAreSpaced
  BY <1>3, <1>5, PTL DEF FaucetSpec, ClaimsAreSpaced
<1>7. FaucetSpec => ClaimsHaveVisits
  BY <1>4, <1>5, PTL DEF FaucetSpec, ClaimsHaveVisits
<1> QED
  BY <1>5, <1>6, <1>7, TotalCounted, PTL
-----------------------------------------------------------------------------
(* Shortlinks.                                                              *)

\* The tokens of step k come k steps' time after the first start at the
\* earliest, less the wait that the step itself asks for.
TokenTimes ==
    /\ \A t \in Tabs : tab[t].step = tab[t].token[1]
    /\ \A c \in Calls : scall[c].pc \in {"sent", "step"} => scall[c].step = scall[c].token[1]
    /\ row.since <= second
    /\ row.token[1] > 0 => row.since >= begun + row.token[1] - 1
    /\ \A c \in Calls : scall[c].pc = "step" =>
          scall[c].step > 0 /\ scall[c].now <= second /\ scall[c].now >= begun + scall[c].step

RunsLimit == MaxDailyRuns + (IF twice THEN Cardinality(Calls) - 1 ELSE 0)
Stepping == {c \in Calls : scall[c].pc = "step"}

\* The requests that have passed the check of the limit are counted with the
\* runs that are stored.
RunsInv ==
    /\ ~twice => \A c, d \in Calls : scall[c].pc # "idle" /\ scall[d].pc # "idle" => c = d
    /\ row.runs + Cardinality(Stepping) <= RunsLimit
    /\ runs <= boots * RunsLimit + row.runs

\* Without a lost answer, a tab that is alone hears of every change of the row.
TabInv ==
    OneTab /\ ~dropped =>
        /\ \A c \in Calls : scall[c].pc # "idle" => scall[c].tab \in Tabs
        /\ \A t \in Tabs : tab[t].step > 0 =>
              /\ tab[t].token = row.token
              /\ tab[t].step = IF row.step = 0 THEN 1 ELSE row.step

ShortlinkInv == ShortlinkTypeOK /\ TokenTimes /\ RunsInv /\ TabInv

LEMMA TokensAre ==
    /\ Steps \subseteq Int /\ 0 \in Steps /\ 1 \in Steps /\ TotalSteps \in Steps
    /\ Seconds \subseteq Int /\ 0 \in Seconds /\ LastSecond \in Seconds /\ 0 \in 0 .. MaxBoots
    /\ NoToken \in Tokens /\ \A k \in Steps, a \in Seconds : Token(k, a) \in Tokens
BY ShortlinkAssumption DEF Steps, Seconds, NoToken, Token, Tokens

LEMMA ShortlinkBegins == ShortlinkInit => ShortlinkInv
<1> SUFFICES ASSUME ShortlinkInit PROVE ShortlinkInv
  OBVIOUS
<1>1. Stepping = {} /\ \A c \in Calls : scall[c] = SIdle
  BY DEF ShortlinkInit, Stepping, SIdle, SCall
<1>2. Cardinality(Stepping) = 0
  BY <1>1, FS_EmptySet
<1>3. ShortlinkTypeOK
  <2>1. SIdle \in [pc: {"idle", "sent", "start", "step"}, tab: Tabs \cup {None}, step: Steps, token: Tokens, now: Seconds]
    BY TokensAre DEF SIdle, SCall
  <2>2. NoSession \in [step: Steps, token: Tokens, since: Seconds, waits: BOOLEAN]
    BY TokensAre DEF NoSession, Tab
  <2>3. CompletionRow(0, 0, NoToken, 0) \in [step: Steps, runs: Nat, token: Tokens, since: Seconds]
    BY TokensAre DEF CompletionRow
  <2> QED
    BY <2>1, <2>2, <2>3, TokensAre, ShortlinkAssumption DEF ShortlinkInit, ShortlinkTypeOK
<1>4. TokenTimes /\ TabInv
  BY <1>1 DEF ShortlinkInit, TokenTimes, TabInv, SIdle, SCall, NoSession, Tab, CompletionRow, NoToken
<1>5. RunsInv
  BY <1>1, <1>2, ShortlinkAssumption DEF ShortlinkInit, RunsInv, RunsLimit, SIdle, SCall, CompletionRow
<1> QED
  BY <1>3, <1>4, <1>5 DEF ShortlinkInv

\* The token times, step by step.
LEMMA ShortlinkTypes == ASSUME ShortlinkTypeOK, [ShortlinkNext]_shortlinkVars PROVE ShortlinkTypeOK'
<1> DEFINE Typed(s) == s \in [step: Steps, token: Tokens, since: Seconds, waits: BOOLEAN]
<1>001. ASSUME NEW c \in Calls, NEW s, scall[c].tab \in Tabs => Typed(s), Answers(c, s)
        PROVE  /\ tab' \in [Tabs -> [step: Steps, token: Tokens, since: Seconds, waits: BOOLEAN]]
               /\ scall' \in [Calls -> [pc: {"idle", "sent", "start", "step"}, tab: Tabs \cup {None},
                            step: Steps, token: Tokens, now: Seconds]]
  BY <1>001, TokensAre DEF Answers, ShortlinkTypeOK, SIdle, SCall
<1>1. CASE UNCHANGED shortlinkVars
  BY <1>1 DEF ShortlinkTypeOK, shortlinkVars
<1>2. CASE SecondPasses
  BY <1>2, ShortlinkAssumption DEF SecondPasses, ShortlinkTypeOK, Seconds
<1>3. CASE ServerStarts
  <2>1. SIdle \in [pc: {"idle", "sent", "start", "step"}, tab: Tabs \cup {None}, step: Steps, token: Tokens, now: Seconds]
    BY TokensAre DEF SIdle, SCall
  <2>2. CompletionRow(row.step, 0, row.token, row.since) \in [step: Steps, runs: Nat, token: Tokens, since: Seconds]
    BY DEF CompletionRow, ShortlinkTypeOK
  <2>3. boots' \in 0 .. MaxBoots
    BY <1>3, ShortlinkAssumption DEF ServerStarts, ShortlinkTypeOK
  <2> QED
    BY <1>3, <2>1, <2>2, <2>3 DEF ServerStarts, ShortlinkTypeOK
<1>4. ASSUME NEW t \in Tabs, Reload(t) PROVE ShortlinkTypeOK'
  BY <1>4 DEF Reload, ShortlinkTypeOK
<1>5. ASSUME NEW c \in Calls, NEW t \in Tabs, handleStart(c, t) PROVE ShortlinkTypeOK'
  BY TokensAre, <1>5 DEF handleStart, Sends, ShortlinkTypeOK, SCall
<1>6. ASSUME NEW c \in Calls, NEW t \in Tabs, handleNext(c, t) PROVE ShortlinkTypeOK'
  BY TokensAre, <1>6 DEF handleNext, Sends, ShortlinkTypeOK, SCall
<1>7. ASSUME NEW c \in Calls PROVE (scall[c].tab \in Tabs => Typed(Kept(c))) /\ Typed(NoSession)
  BY TokensAre DEF Kept, NoSession, Tab, NoToken, ShortlinkTypeOK
<1>8. ASSUME NEW c \in Calls, startShortlinkReads(c) PROVE ShortlinkTypeOK'
  <2>1. CASE WithinLimit
    BY <1>8, <2>1 DEF startShortlinkReads, ShortlinkTypeOK
  <2>2. CASE ~WithinLimit
    BY <1>001, <1>7, <1>8, <2>2 DEF startShortlinkReads, ShortlinkTypeOK
  <2> QED
    BY <2>1, <2>2
<1>9. ASSUME NEW c \in Calls, startShortlink(c) PROVE ShortlinkTypeOK'
  <2>1. Typed(Tab(1, Token(1, second), second, FALSE))
    BY TokensAre DEF Tab, ShortlinkTypeOK
  <2>2. row' \in [step: Steps, runs: Nat, token: Tokens, since: Seconds]
    BY TokensAre, <1>9 DEF startShortlink, CompletionRow, ShortlinkTypeOK
  <2> QED
    BY <1>001, <1>9, <2>1, <2>2 DEF startShortlink, ShortlinkTypeOK
<1>10. ASSUME NEW c \in Calls, completeStepReads(c) PROVE ShortlinkTypeOK'
  <2>1. \/ Answers(c, Kept(c)) \/ Answers(c, NoSession)
        \/ scall' = [scall EXCEPT ![c].pc = "step", ![c].now = second] /\ UNCHANGED tab
    BY <1>10 DEF completeStepReads
  <2>2. UNCHANGED <<second, row, runs, begun, twice, dropped, boots>>
    BY <1>10 DEF completeStepReads
  <2>3. CASE Answers(c, Kept(c)) \/ Answers(c, NoSession)
    BY <1>001, <1>7, <2>2, <2>3 DEF ShortlinkTypeOK
  <2>4. CASE scall' = [scall EXCEPT ![c].pc = "step", ![c].now = second] /\ UNCHANGED tab
    BY <2>2, <2>4 DEF ShortlinkTypeOK
  <2> QED
    BY <2>1, <2>3, <2>4
<1>11. ASSUME NEW c \in Calls, completeShortlinkStep(c) PROVE ShortlinkTypeOK'
  <2> DEFINE q == scall[c]
             next == NextStep(q.step)
             token == IF next = 0 THEN NoToken ELSE Token(next, q.now)
             after == IF q.step = TotalSteps THEN NoSession ELSE Tab(next, token, second, FALSE)
  <2>1. q.step \in Steps /\ q.now \in Seconds
    BY DEF ShortlinkTypeOK
  <2>2a. next \in Steps
    BY <2>1, ShortlinkAssumption DEF NextStep, Steps
  <2>2b. token \in Tokens
    BY <2>1, <2>2a, TokensAre
  <2> HIDE DEF next, token
  <2>2. Typed(after)
    BY <1>7, <2>1, <2>2a, <2>2b DEF Tab, ShortlinkTypeOK
  <2>3. /\ row' = CompletionRow(next, IF q.step = TotalSteps THEN row.runs + 1 ELSE row.runs, token, q.now)
        /\ runs' \in {runs, runs + 1} /\ Answers(c, after) /\ UNCHANGED <<second, begun, twice, dropped, boots>>
    BY <1>11 DEF completeShortlinkStep, next, token
  <2>4. row' \in [step: Steps, runs: Nat, token: Tokens, since: Seconds]
    BY <2>1, <2>2a, <2>2b, <2>3 DEF CompletionRow, ShortlinkTypeOK
  <2> HIDE DEF after
  <2>5. /\ tab' \in [Tabs -> [step: Steps, token: Tokens, since: Seconds, waits: BOOLEAN]]
        /\ scall' \in [Calls -> [pc: {"idle", "sent", "start", "step"}, tab: Tabs \cup {None},
                            step: Steps, token: Tokens, now: Seconds]]
    BY <1>001, <2>2, <2>3
  <2> QED
    BY <2>3, <2>4, <2>5 DEF ShortlinkTypeOK
<1>12. ASSUME NEW c \in Calls, ShortlinkFails(c) PROVE ShortlinkTypeOK'
  BY <1>001, <1>7, <1>12 DEF ShortlinkFails, ShortlinkTypeOK
<1> QED
  BY <1>1, <1>2, <1>3, <1>4, <1>5, <1>6, <1>8, <1>9, <1>10, <1>11, <1>12 DEF ShortlinkNext

LEMMA TokenTimesStep == ASSUME ShortlinkTypeOK, TokenTimes, [ShortlinkNext]_shortlinkVars PROVE TokenTimes'
<1>0. /\ second \in Nat /\ begun \in Nat /\ row.since \in Nat /\ row.token \in Steps \X Seconds /\ TotalSteps \in Nat
      /\ \A c \in Calls : scall[c].now \in Nat /\ scall[c].step \in Nat /\ scall[c].token \in Steps \X Seconds
      /\ \A t \in Tabs : tab[t].token \in Steps \X Seconds
      /\ DOMAIN scall = Calls /\ DOMAIN tab = Tabs /\ Steps \subseteq Nat
  BY ShortlinkAssumption DEF ShortlinkTypeOK, Tokens, Steps, Seconds
<1>1. CASE UNCHANGED shortlinkVars
  BY <1>1 DEF TokenTimes, shortlinkVars
<1>2. CASE SecondPasses
  BY <1>0, <1>2 DEF SecondPasses, TokenTimes
<1>3. CASE ServerStarts
  BY <1>0, <1>3 DEF ServerStarts, ShortlinkTypeOK, TokenTimes, CompletionRow, SIdle, SCall
<1>4. ASSUME NEW t \in Tabs, Reload(t) PROVE TokenTimes'
  BY <1>0, <1>4 DEF Reload, ShortlinkTypeOK, TokenTimes
<1>5. ASSUME NEW c \in Calls, NEW t \in Tabs, handleStart(c, t) PROVE TokenTimes'
  BY <1>0, <1>5 DEF handleStart, Sends, ShortlinkTypeOK, TokenTimes, SCall, NoToken
<1>6. ASSUME NEW c \in Calls, NEW t \in Tabs, handleNext(c, t) PROVE TokenTimes'
  BY <1>0, <1>6 DEF handleNext, Sends, ShortlinkTypeOK, TokenTimes, SCall
<1>7. \A c \in Calls : scall[c].tab \in Tabs => Kept(c).step = Kept(c).token[1]
  BY DEF Kept, TokenTimes, ShortlinkTypeOK
<1>8. NoSession.step = NoSession.token[1]
  BY DEF NoSession, Tab, NoToken
<1>9. ASSUME NEW c \in Calls, NEW s, Answers(c, s), scall[c].tab \in Tabs => s.step = s.token[1],
             UNCHANGED <<second, row, begun>>
      PROVE  TokenTimes'
  BY <1>0, <1>9 DEF Answers, TokenTimes, SIdle, SCall
<1>10. ASSUME NEW c \in Calls, startShortlinkReads(c) PROVE TokenTimes'
  <2>1. CASE WithinLimit
    <3>1. UNCHANGED <<second, row, begun, tab>> /\ scall' = [scall EXCEPT ![c].pc = "start", ![c].now = second]
      BY <1>10, <2>1 DEF startShortlinkReads
    <3>2. \A d \in Calls : d # c => scall'[d] = scall[d]
      BY <1>0, <3>1
    <3>3. scall'[c].pc = "start"
      BY <3>1 DEF ShortlinkTypeOK
    <3> QED
      BY <3>1, <3>2, <3>3 DEF TokenTimes
  <2>2. CASE ~WithinLimit
    BY <1>7, <1>9, <1>10, <2>2 DEF startShortlinkReads
  <2> QED
    BY <2>1, <2>2
<1>11. ASSUME NEW c \in Calls, startShortlink(c) PROVE TokenTimes'
  <2>1. /\ row'.since = second /\ row'.token[1] = 1 /\ begun' \in Nat /\ begun' <= begun /\ begun' <= second
        /\ second' = second /\ scall' = [scall EXCEPT ![c] = SIdle]
        /\ tab' = [t \in Tabs |-> IF t = scall[c].tab THEN Tab(1, Token(1, second), second, FALSE) ELSE tab[t]]
    BY <1>0, <1>11 DEF startShortlink, CompletionRow, Token, Answers
  <2>2. \A t \in Tabs : tab'[t].step = tab'[t].token[1]
    BY <1>0, <2>1 DEF TokenTimes, Tab, Token
  <2> QED
    <3>1. \A d \in Calls : d # c => scall'[d] = scall[d]
      BY <1>0, <2>1
    <3>2. scall'[c].pc = "idle"
      BY <1>0, <2>1 DEF SIdle, SCall
    <3>3. \A d \in Calls : scall[d].pc = "step" => scall[d].now >= begun' + scall[d].step
      BY <1>0, <2>1 DEF TokenTimes
    <3> QED
      <4>1. row'.since <= second' /\ row'.since >= begun' + row'.token[1] - 1
        <5>1. second \in Nat /\ begun' \in Nat
          BY <1>0, <2>1
        <5>2. second >= begun' + 1 - 1
          <6>1. PICK b \in Nat : b = begun' /\ b <= second
            BY <2>1, <5>1
          <6>2. b + 1 - 1 = b
            OBVIOUS
          <6> QED
            BY <5>1, <6>1, <6>2
        <5>3. row'.since <= second'
          <6>1. second <= second
            BY <5>1
          <6> QED
            BY <2>1, <6>1
        <5>4. begun' + row'.token[1] - 1 = begun' + 1 - 1
          BY <2>1
        <5> QED
          BY <2>1, <5>2, <5>3, <5>4
      <4>2. \A d \in Calls : scall'[d].pc \in {"sent", "step"} => scall'[d].step = scall'[d].token[1]
        BY <3>1, <3>2 DEF TokenTimes
      <4>3. \A d \in Calls : scall'[d].pc = "step" =>
               scall'[d].step > 0 /\ scall'[d].now <= second' /\ scall'[d].now >= begun' + scall'[d].step
        BY <2>1, <3>1, <3>2, <3>3 DEF TokenTimes
      <4> QED
        BY <2>2, <4>1, <4>2, <4>3 DEF TokenTimes
<1>12. ASSUME NEW c \in Calls, completeStepReads(c) PROVE TokenTimes'
  <2> DEFINE passed == scall' = [scall EXCEPT ![c].pc = "step", ![c].now = second]
  <2>1. \/ Answers(c, Kept(c)) \/ Answers(c, NoSession)
        \/ passed /\ UNCHANGED tab /\ NoIncident(c)
    BY <1>12 DEF completeStepReads
  <2>2. UNCHANGED <<second, row, begun>> /\ scall[c].step > 0 /\ scall[c].pc = "sent"
    BY <1>12 DEF completeStepReads
  <2>3. CASE Answers(c, Kept(c)) \/ Answers(c, NoSession)
    BY <1>7, <1>8, <1>9, <2>2, <2>3
  <2>4. CASE passed /\ UNCHANGED tab /\ NoIncident(c)
    <3>1. scall[c].step = row.token[1] /\ second >= row.since + 1
      BY <1>0, <2>2, <2>4 DEF NoIncident, TokenTimes
    <3>2. second >= begun + scall[c].step
      BY <1>0, <2>2, <3>1 DEF TokenTimes
    <3> QED
      BY <1>0, <2>2, <2>4, <3>2 DEF TokenTimes, ShortlinkTypeOK
  <2> QED
    BY <2>1, <2>3, <2>4
<1>13. ASSUME NEW c \in Calls, completeShortlinkStep(c) PROVE TokenTimes'
  <2> DEFINE q == scall[c]
             next == NextStep(q.step)
             token == IF next = 0 THEN NoToken ELSE Token(next, q.now)
             after == IF q.step = TotalSteps THEN NoSession ELSE Tab(next, token, second, FALSE)
  <2>1. /\ q.pc = "step" /\ row'.since = q.now /\ row'.token = token /\ Answers(c, after)
        /\ UNCHANGED <<second, begun>>
    BY <1>13 DEF completeShortlinkStep, CompletionRow
  <2>2. next \in Nat /\ (next = 0 \/ next = q.step + 1) /\ (q.step # TotalSteps => next # 0)
    BY <1>0 DEF NextStep
  <2>3. token[1] = next
    BY <2>2 DEF NoToken, Token
  <2>4. after.step = after.token[1]
    BY <1>8, <2>2, <2>3 DEF Tab
  <2>5. q.now <= second /\ q.now >= begun + q.step
    BY <2>1 DEF TokenTimes
  <2> HIDE DEF next, token, after
  <2>6. row'.since <= second' /\ (row'.token[1] > 0 => row'.since >= begun' + row'.token[1] - 1)
    BY <1>0, <2>1, <2>2, <2>3, <2>5
  <2>7. /\ \A t \in Tabs : tab'[t].step = tab'[t].token[1]
        /\ \A d \in Calls : scall'[d] = IF d = c THEN SIdle ELSE scall[d]
    BY <1>0, <2>1, <2>4 DEF Answers, TokenTimes
  <2> QED
    BY <1>0, <2>1, <2>6, <2>7 DEF TokenTimes, SIdle, SCall
<1>14. ASSUME NEW c \in Calls, ShortlinkFails(c) PROVE TokenTimes'
  BY <1>7, <1>9, <1>14 DEF ShortlinkFails
<1> QED
  BY <1>1, <1>2, <1>3, <1>4, <1>5, <1>6, <1>10, <1>11, <1>12, <1>13, <1>14 DEF ShortlinkNext

\* A step that begins at most one request, which does not pass the limit's
\* check, or ends some.
LEMMA RunsOfOthers ==
    ASSUME ShortlinkTypeOK, RunsInv, twice' \in BOOLEAN, twice => twice',
           Stepping' \subseteq Stepping, row'.runs = row.runs, UNCHANGED <<runs, boots>>,
           ~twice' => \A c, d \in Calls : scall'[c].pc # "idle" /\ scall'[d].pc # "idle" => c = d
    PROVE  RunsInv'
<1>1. Cardinality(Stepping') \in Nat /\ Cardinality(Stepping) \in Nat /\ Cardinality(Stepping') <= Cardinality(Stepping)
  <2>1. Stepping \in SUBSET Calls /\ Stepping' \in SUBSET Stepping
    BY DEF Stepping
  <2>2. IsFiniteSet(Stepping) /\ Cardinality(Stepping) \in Nat
    BY <2>1, CallsAreCounted
  <2>3. Cardinality(Stepping') <= Cardinality(Stepping)
    BY <2>1, <2>2, FS_Subset
  <2> QED
    BY <2>1, <2>2, <2>3, CallsAreCounted
<1>2. RunsLimit \in Nat /\ RunsLimit' \in Nat /\ RunsLimit <= RunsLimit' /\ row.runs \in Nat /\ boots \in Nat /\ runs \in Nat
  BY CallsAreCounted, ShortlinkAssumption DEF RunsLimit, ShortlinkTypeOK
<1> HIDE DEF RunsLimit
<1>3. boots * RunsLimit <= boots * RunsLimit' /\ boots * RunsLimit \in Nat /\ boots * RunsLimit' \in Nat
  BY <1>2, TimesGrows
<1>5. RunsLimit' = MaxDailyRuns + (IF twice' THEN Cardinality(Calls) - 1 ELSE 0)
  BY DEF RunsLimit
<1>6. boots' * RunsLimit' = boots * RunsLimit'
  OBVIOUS
<1>7. row'.runs + Cardinality(Stepping') <= RunsLimit' /\ runs' <= boots' * RunsLimit' + row'.runs
  BY <1>1, <1>2, <1>3, <1>6 DEF RunsInv
<1> QED
  BY <1>7 DEF RunsInv

LEMMA RunsAnswers ==
    ASSUME ShortlinkTypeOK, RunsInv, NEW c \in Calls, NEW s, Answers(c, s),
           UNCHANGED <<row, runs, twice, boots>>
    PROVE  RunsInv'
<1>1. scall'[c].pc = "idle" /\ \A d \in Calls : d # c => scall'[d] = scall[d]
  BY DEF Answers, ShortlinkTypeOK, SIdle, SCall
<1>2. Stepping' \subseteq Stepping
  BY <1>1 DEF Stepping
<1> QED
  BY <1>1, <1>2, RunsOfOthers DEF RunsInv, ShortlinkTypeOK

LEMMA RunsStep == ASSUME ShortlinkTypeOK, RunsInv, [ShortlinkNext]_shortlinkVars PROVE RunsInv'
<1>0. /\ DOMAIN scall = Calls /\ row.runs \in Nat /\ runs \in Nat /\ boots \in Nat
      /\ RunsLimit \in Nat /\ MaxDailyRuns \in Nat /\ twice \in BOOLEAN /\ MaxDailyRuns <= RunsLimit
  BY CallsAreCounted, ShortlinkAssumption DEF ShortlinkTypeOK, RunsLimit
<1>1. CASE UNCHANGED <<scall, row, runs, twice, boots>>
  BY <1>1, RunsOfOthers, <1>0 DEF RunsInv, Stepping
<1>2. CASE ServerStarts
  <2>1. /\ scall' = [c \in Calls |-> SIdle] /\ row'.runs = 0 /\ boots' = boots + 1 /\ UNCHANGED <<runs, twice>>
    BY <1>2 DEF ServerStarts, CompletionRow
  <2>2. Stepping' = {} /\ \A c \in Calls : scall'[c].pc = "idle"
    BY <2>1 DEF Stepping, SIdle, SCall
  <2>3. Cardinality(Stepping') = 0 /\ RunsLimit' = RunsLimit
    BY <2>1, <2>2, FS_EmptySet DEF RunsLimit
  <2>4. Cardinality(Stepping) \in Nat
    BY CallsAreCounted DEF Stepping
  <2>5. (boots + 1) * RunsLimit = boots * RunsLimit + RunsLimit /\ boots * RunsLimit \in Nat
    BY <1>0
  <2>6. row.runs <= RunsLimit /\ runs <= boots * RunsLimit + row.runs
    BY <1>0, <2>4 DEF RunsInv
  <2>7. boots' * RunsLimit' = boots * RunsLimit + RunsLimit
    BY <2>1, <2>3, <2>5
  <2> QED
    BY <1>0, <2>1, <2>2, <2>3, <2>5, <2>6, <2>7 DEF RunsInv
<1>3. ASSUME NEW t \in Tabs, Reload(t) PROVE RunsInv'
  <2>1. /\ \A c \in Calls : scall'[c].pc = scall[c].pc
        /\ UNCHANGED <<row, runs, twice, boots>>
    BY <1>3 DEF Reload, ShortlinkTypeOK
  <2>2. Stepping' = Stepping
    BY <2>1 DEF Stepping
  <2> QED
    BY <1>0, <2>1, <2>2, RunsOfOthers DEF RunsInv
<1>4. ASSUME NEW c \in Calls, NEW t \in Tabs, NEW q, q.pc = "sent", Sends(c, t, q) PROVE RunsInv'
  <2>1. /\ scall'[c].pc = "sent" /\ \A d \in Calls : d # c => scall'[d] = scall[d]
        /\ twice' = (twice \/ \E d \in Calls : scall[d].pc # "idle") /\ UNCHANGED <<row, runs, boots>>
    BY <1>0, <1>4 DEF Sends
  <2>2. Stepping' \subseteq Stepping
    BY <2>1 DEF Stepping
  <2>3. ~twice' => \A d, e \in Calls : scall'[d].pc # "idle" /\ scall'[e].pc # "idle" => d = e
    BY <2>1
  <2> QED
    BY <1>0, <2>1, <2>2, <2>3, RunsOfOthers
<1>5. ASSUME NEW c \in Calls, NEW t \in Tabs, handleStart(c, t) \/ handleNext(c, t) PROVE RunsInv'
  BY <1>4, <1>5 DEF handleStart, handleNext, SCall
<1>6. ASSUME NEW c \in Calls, startShortlinkReads(c) PROVE RunsInv'
  <2>1. CASE WithinLimit
    <3>1. /\ scall'[c].pc = "start" /\ scall[c].pc # "idle" /\ \A d \in Calls : d # c => scall'[d] = scall[d]
          /\ UNCHANGED <<row, runs, twice, boots>>
      BY <1>6, <2>1 DEF startShortlinkReads, ShortlinkTypeOK
    <3>2. Stepping' \subseteq Stepping
      BY <3>1 DEF Stepping
    <3> QED
      BY <1>0, <3>1, <3>2, RunsOfOthers DEF RunsInv
  <2>2. CASE ~WithinLimit
    BY <1>6, <2>2, RunsAnswers DEF startShortlinkReads
  <2> QED
    BY <2>1, <2>2
<1>7. ASSUME NEW c \in Calls, startShortlink(c) PROVE RunsInv'
  <2>1. /\ scall'[c].pc = "idle" /\ \A d \in Calls : d # c => scall'[d] = scall[d]
        /\ row'.runs = row.runs /\ UNCHANGED <<runs, twice, boots>>
    BY <1>7 DEF startShortlink, Answers, ShortlinkTypeOK, SIdle, SCall, CompletionRow
  <2>2. Stepping' \subseteq Stepping
    BY <2>1 DEF Stepping
  <2> QED
    BY <1>0, <2>1, <2>2, RunsOfOthers DEF RunsInv
<1>8. ASSUME NEW c \in Calls, completeStepReads(c) PROVE RunsInv'
  <2>1. CASE \E s : Answers(c, s)
    BY <1>8, <2>1, RunsAnswers DEF completeStepReads
  <2>2. CASE WithinLimit /\ scall' = [scall EXCEPT ![c].pc = "step", ![c].now = second]
    <3>1. /\ scall'[c].pc = "step" /\ scall[c].pc = "sent" /\ \A d \in Calls : d # c => scall'[d] = scall[d]
          /\ UNCHANGED <<row, runs, twice, boots>>
      BY <1>8, <2>2 DEF completeStepReads, ShortlinkTypeOK
    <3>2. row.runs + 1 <= MaxDailyRuns
      BY <1>0, <2>2 DEF WithinLimit
    <3>3. CASE twice
      <4>1. Cardinality(Stepping') \in Nat /\ Cardinality(Stepping') <= Cardinality(Calls)
        BY CallsAreCounted DEF Stepping
      <4> QED
        BY <1>0, <3>1, <3>2, <3>3, <4>1, CallsAreCounted DEF RunsInv, RunsLimit
    <3>4. CASE ~twice
      <4>1. Stepping' = {c} /\ \A d, e \in Calls : scall'[d].pc # "idle" /\ scall'[e].pc # "idle" => d = e
        BY <3>1, <3>4 DEF RunsInv, Stepping
      <4>2. Cardinality(Stepping') = 1
        BY <4>1, FS_Singleton
      <4> QED
        BY <1>0, <3>1, <3>2, <3>4, <4>1, <4>2 DEF RunsInv, RunsLimit
    <3> QED
      BY <3>3, <3>4
  <2> QED
    BY <1>8, <2>1, <2>2 DEF completeStepReads
<1>9. ASSUME NEW c \in Calls, completeShortlinkStep(c) PROVE RunsInv'
  <2>1. /\ scall'[c].pc = "idle" /\ scall[c].pc = "step" /\ \A d \in Calls : d # c => scall'[d] = scall[d]
        /\ UNCHANGED <<twice, boots>>
    BY <1>9 DEF completeShortlinkStep, Answers, ShortlinkTypeOK, SIdle, SCall
  <2>2. \/ row'.runs = row.runs /\ runs' = runs
        \/ row'.runs = row.runs + 1 /\ runs' = runs + 1
    BY <1>9 DEF completeShortlinkStep, CompletionRow
  <2>3. Stepping' = Stepping \ {c} /\ c \in Stepping
    BY <2>1 DEF Stepping
  <2>4. Cardinality(Stepping') = Cardinality(Stepping) - 1 /\ Cardinality(Stepping) \in Nat
    <3>1. IsFiniteSet(Stepping) /\ Cardinality(Stepping) \in Nat
      BY CallsAreCounted DEF Stepping
    <3> QED
      BY <2>3, <3>1, FS_RemoveElement
  <2>5. RunsLimit' = RunsLimit /\ boots' * RunsLimit' = boots * RunsLimit /\ boots * RunsLimit \in Nat
    BY <1>0, <2>1 DEF RunsLimit
  <2> QED
    BY <1>0, <2>1, <2>2, <2>4, <2>5 DEF RunsInv
<1>10. ASSUME NEW c \in Calls, ShortlinkFails(c) PROVE RunsInv'
  BY <1>10, RunsAnswers DEF ShortlinkFails
<1> QED
  BY <1>1, <1>2, <1>3, <1>5, <1>6, <1>7, <1>8, <1>9, <1>10 DEF ShortlinkNext, shortlinkVars, SecondPasses

LEMMA TabStep == ASSUME ShortlinkTypeOK, TabInv, [ShortlinkNext]_shortlinkVars PROVE TabInv'
<1>0. DOMAIN scall = Calls /\ DOMAIN tab = Tabs /\ dropped \in BOOLEAN /\ TotalSteps \in Nat /\ TotalSteps > 0
      /\ \A c \in Calls : scall[c].step \in Nat
  BY ShortlinkAssumption DEF ShortlinkTypeOK, Steps
<1>1. CASE UNCHANGED <<scall, row, tab, dropped>>
  BY <1>1 DEF TabInv, OneTab
<1>2. CASE dropped'
  BY <1>2 DEF TabInv
<1>3. ASSUME NEW c \in Calls, NEW s, Answers(c, s), dropped' = dropped, row' = row,
             OneTab /\ scall[c].tab \in Tabs /\ s.step > 0 =>
                s.step = tab[scall[c].tab].step /\ s.token = tab[scall[c].tab].token
      PROVE  TabInv'
  <2>1. /\ scall'[c].pc = "idle" /\ \A d \in Calls : d # c => scall'[d] = scall[d]
        /\ \A t \in Tabs : tab'[t] = IF t = scall[c].tab THEN s ELSE tab[t]
    BY <1>0, <1>3 DEF Answers, SIdle, SCall
  <2> QED
    BY <1>3, <2>1 DEF TabInv, OneTab
<1>4. \A c \in Calls : scall[c].tab \in Tabs =>
         Kept(c).step = tab[scall[c].tab].step /\ Kept(c).token = tab[scall[c].tab].token
  BY DEF Kept, ShortlinkTypeOK
<1>5. NoSession.step = 0
  BY DEF NoSession, Tab
<1>6. CASE ServerStarts
  <2>1. /\ dropped' = (dropped \/ \E c \in Calls : scall[c].pc # "idle")
        /\ row'.step = row.step /\ row'.token = row.token
        /\ \A c \in Calls : scall'[c].pc = "idle"
        /\ \A t \in Tabs : tab'[t].step = tab[t].step /\ tab'[t].token = tab[t].token
    BY <1>6 DEF ServerStarts, CompletionRow, SIdle, SCall, ShortlinkTypeOK
  <2> QED
    BY <2>1 DEF TabInv, OneTab
<1>7. ASSUME NEW c \in Calls, NEW t \in Tabs, handleStart(c, t) \/ handleNext(c, t) PROVE TabInv'
  <2>1. /\ scall'[c].tab = t /\ \A d \in Calls : d # c => scall'[d] = scall[d]
        /\ \A u \in Tabs : tab'[u].step = tab[u].step /\ tab'[u].token = tab[u].token
        /\ UNCHANGED <<row, dropped>>
    BY <1>7 DEF handleStart, handleNext, Sends, SCall, ShortlinkTypeOK
  <2> QED
    BY <2>1 DEF TabInv, OneTab
<1>8. ASSUME NEW c \in Calls, startShortlinkReads(c) PROVE TabInv'
  <2>1. CASE WithinLimit
    <3>1. /\ scall'[c].tab = scall[c].tab /\ scall[c].pc # "idle" /\ \A d \in Calls : d # c => scall'[d] = scall[d]
          /\ UNCHANGED <<row, dropped, tab>>
      BY <1>8, <2>1 DEF startShortlinkReads, ShortlinkTypeOK
    <3> QED
      BY <3>1 DEF TabInv, OneTab
  <2>2. CASE ~WithinLimit
    BY <1>3, <1>4, <1>8, <2>2 DEF startShortlinkReads
  <2> QED
    BY <2>1, <2>2
<1>9. ASSUME NEW c \in Calls, NEW s, Answers(c, s), dropped' = dropped, scall[c].pc # "idle",
             s.step > 0 => s.token = row'.token /\ s.step = IF row'.step = 0 THEN 1 ELSE row'.step
      PROVE  TabInv'
  <2>1. /\ scall'[c].pc = "idle" /\ \A d \in Calls : d # c => scall'[d] = scall[d]
        /\ \A t \in Tabs : tab'[t] = IF t = scall[c].tab THEN s ELSE tab[t]
    BY <1>0, <1>9 DEF Answers, SIdle, SCall
  <2>2. OneTab /\ ~dropped => \A t \in Tabs : tab'[t] = s
    BY <1>9, <2>1 DEF TabInv, OneTab
  <2> QED
    BY <1>9, <2>1, <2>2 DEF TabInv, OneTab
<1>10. ASSUME NEW c \in Calls, startShortlink(c) PROVE TabInv'
  <2>1. /\ Answers(c, Tab(1, Token(1, second), second, FALSE)) /\ dropped' = dropped /\ scall[c].pc # "idle"
        /\ row'.step = 0 /\ row'.token = Token(1, second)
    BY <1>10 DEF startShortlink, CompletionRow
  <2> QED
    BY <1>9, <2>1 DEF Tab
<1>11. ASSUME NEW c \in Calls, completeStepReads(c) PROVE TabInv'
  <2>0. UNCHANGED <<row, dropped>> /\ scall[c].pc # "idle"
    BY <1>11 DEF completeStepReads
  <2>1. CASE Answers(c, Kept(c)) \/ Answers(c, NoSession)
    BY <1>3, <1>4, <1>5, <2>0, <2>1
  <2>2. CASE UNCHANGED tab /\ scall' = [scall EXCEPT ![c].pc = "step", ![c].now = second]
    <3>1. /\ scall'[c].tab = scall[c].tab /\ \A d \in Calls : d # c => scall'[d] = scall[d]
      BY <2>2 DEF ShortlinkTypeOK
    <3> QED
      BY <2>0, <2>2, <3>1 DEF TabInv, OneTab
  <2> QED
    BY <1>11, <2>1, <2>2 DEF completeStepReads
<1>12. ASSUME NEW c \in Calls, completeShortlinkStep(c) PROVE TabInv'
  <2> DEFINE q == scall[c]
             next == NextStep(q.step)
             token == IF next = 0 THEN NoToken ELSE Token(next, q.now)
             after == IF q.step = TotalSteps THEN NoSession ELSE Tab(next, token, second, FALSE)
  <2>1. /\ q.pc = "step" /\ row'.step = next /\ row'.token = token /\ Answers(c, after) /\ UNCHANGED dropped
    BY <1>12 DEF completeShortlinkStep, CompletionRow
  <2>2. q.step # TotalSteps => next # 0
    BY <1>0 DEF NextStep
  <2> HIDE DEF next, token
  <2>3. after.step > 0 => after.token = token /\ after.step = next /\ next # 0
    BY <1>5, <2>2 DEF Tab
  <2> HIDE DEF after
  <2> QED
    BY <1>9, <2>1, <2>3
<1> QED
  BY <1>1, <1>2, <1>6, <1>7, <1>8, <1>10, <1>11, <1>12
     DEF ShortlinkNext, shortlinkVars, SecondPasses, Reload, ShortlinkFails

LEMMA ShortlinkStep == ASSUME ShortlinkInv, [ShortlinkNext]_shortlinkVars PROVE ShortlinkInv'
BY ShortlinkTypes, TokenTimesStep, RunsStep, TabStep DEF ShortlinkInv

LEMMA StepsWaitedStep ==
    ASSUME ShortlinkInv, [ShortlinkNext]_shortlinkVars, runs' > runs
    PROVE  second >= begun + TotalSteps
<1>1. PICK c \in Calls : completeShortlinkStep(c)
  <2>1. runs \in Nat /\ ~UNCHANGED runs
    BY DEF ShortlinkInv, ShortlinkTypeOK
  <2>2. \A c \in Calls, t \in Tabs : handleStart(c, t) \/ handleNext(c, t) => UNCHANGED runs
    BY DEF handleStart, handleNext, Sends
  <2>3. \A c \in Calls : startShortlinkReads(c) \/ completeStepReads(c) => UNCHANGED runs
    BY DEF startShortlinkReads, completeStepReads
  <2>4. \A c \in Calls : startShortlink(c) \/ ShortlinkFails(c) => UNCHANGED runs
    BY DEF startShortlink, ShortlinkFails
  <2>5. SecondPasses \/ ServerStarts \/ (\E t \in Tabs : Reload(t)) => UNCHANGED runs
    BY DEF SecondPasses, ServerStarts, Reload
  <2> QED
    BY <2>1, <2>2, <2>3, <2>4, <2>5 DEF ShortlinkNext, shortlinkVars
<1>2. scall[c].step = TotalSteps /\ scall[c].pc = "step"
  BY <1>1 DEF completeShortlinkStep, ShortlinkInv, ShortlinkTypeOK
<1> QED
  BY <1>2, ShortlinkAssumption DEF ShortlinkInv, TokenTimes, ShortlinkTypeOK, Seconds

LEMMA RunsLimited == ShortlinkInv => RunsAreLimited /\ TabFollowsRow
<1> SUFFICES ASSUME ShortlinkInv PROVE RunsAreLimited /\ TabFollowsRow
  OBVIOUS
<1>1. TabFollowsRow
  BY DEF ShortlinkInv, TabInv, TabFollowsRow
<1>2. boots \in Nat /\ RunsLimit \in Nat /\ row.runs \in Nat /\ runs \in Nat /\ Cardinality(Stepping) \in Nat
  <2>1. RunsLimit \in Nat
    BY CallsAreCounted, ShortlinkAssumption DEF RunsLimit
  <2>2. Cardinality(Stepping) \in Nat
    BY CallsAreCounted DEF Stepping
  <2> QED
    BY <2>1, <2>2, ShortlinkAssumption DEF ShortlinkInv, ShortlinkTypeOK
<1>3. (boots + 1) * RunsLimit = boots * RunsLimit + RunsLimit /\ boots * RunsLimit \in Nat
  BY <1>2
<1>4. runs <= (boots + 1) * RunsLimit
  BY <1>2, <1>3 DEF ShortlinkInv, RunsInv
<1> QED
  BY <1>1, <1>4 DEF RunsAreLimited, RunsLimit

\* No shortlink machine is given before its three steps have been waited for,
\* and no more of them in a day than the limit, whatever tabs, restarts and
\* lost answers do; and the tab that is alone shows the row.
THEOREM ShortlinksAreWaited ==
    ShortlinkSpec => [](ShortlinkTypeOK /\ RunsAreLimited /\ TabFollowsRow) /\ StepsAreWaited
<1>1. ShortlinkInv /\ [ShortlinkNext]_shortlinkVars => ShortlinkInv'
  BY ShortlinkStep
<1>2. ShortlinkInv /\ [ShortlinkNext]_shortlinkVars =>
         [runs' > runs => second >= begun + TotalSteps]_shortlinkVars
  BY StepsWaitedStep
<1>3. ShortlinkInv => ShortlinkTypeOK /\ RunsAreLimited /\ TabFollowsRow
  BY RunsLimited DEF ShortlinkInv
<1>4. ShortlinkSpec => []ShortlinkInv
  BY <1>1, ShortlinkBegins, PTL DEF ShortlinkSpec
<1>5. ShortlinkSpec => StepsAreWaited
  BY <1>2, <1>4, PTL DEF ShortlinkSpec, StepsAreWaited
<1> QED
  BY <1>3, <1>4, <1>5, PTL
-----------------------------------------------------------------------------
(* Watching.                                                                *)

-----------------------------------------------------------------------------
(* Requests in flight.                                                      *)

Watching == {c \in Calls : wcall[c].pc = "watch"}
Spending == {c \in Calls : wcall[c].pc \in {"watch", "claim"}}
Releasing == {c \in Calls : wcall[c].pc = "release"}
Claiming(g) == {c \in Calls : wcall[c].pc = "claim" /\ wcall[c].id = g}
Since(k) == {t \in Beats : t >= k}
RecentFrom == beat - Window + 1

\* Alone, a request is the only one; every request was checked before now, and
\* a claim is of a GPU that was released.
FlightInv ==
    /\ ~crowd => \A c, d \in Calls : wcall[c].pc # "idle" /\ wcall[d].pc # "idle" => c = d
    /\ \A c \in Calls : /\ wcall[c].now <= beat
                        /\ wcall[c].pc = "watch" => activity = "youtube"
                        /\ wcall[c].pc = "claim" => wcall[c].id \in Released

\* What was earned alone is no more than the gaps up to the last heartbeat.
EarnedInv ==
    /\ lastBeat <= beat
    /\ ~crowd => /\ seconds + Cost[activity] * Claims <= lastBeat + 1
                 /\ \A c \in Calls : wcall[c].pc = "beat" => lastBeat < wcall[c].now

\* The claims that wait have not been paid yet.
SpentInv == seconds >= Cost[activity] * (Cardinality(Spending) - Others)

\* The history has a row for each power, made no earlier, and the powers that
\* are alive or wait are within the limit.
PowersInv ==
    /\ activity # "youtube" => \A t \in Beats : powers[t] = 0
    /\ \A k \in Int : Counted(powers, Since(k)) <= Counted(history, Since(k))
    /\ activity = "youtube" =>
          Counted(powers, Since(RecentFrom)) + Cardinality(Watching) <= PerWindow[activity] + Others

GpusInv ==
    /\ Cardinality(Waiting) + Cardinality(Releasing) <= 1 + Others
    /\ \A g \in Gpus : /\ machines[g] + Cardinality(Claiming(g)) <= 1 + Others
                       /\ machines[g] > 0 <=> gpu[g].claimed # Unset

WatchInv == WatchTypeOK /\ FlightInv /\ EarnedInv /\ SpentInv /\ PowersInv /\ GpusInv

LEMMA WatchCounted ==
    /\ Watching \in SUBSET Calls /\ Spending \in SUBSET Calls /\ Releasing \in SUBSET Calls
    /\ \A g : Claiming(g) \in SUBSET Calls
    /\ \A X \in {Watching, Spending, Releasing} : IsFiniteSet(X) /\ Cardinality(X) \in Nat
    /\ \A g : IsFiniteSet(Claiming(g)) /\ Cardinality(Claiming(g)) \in Nat
    /\ Others \in Nat
<1>1. /\ Watching \in SUBSET Calls /\ Spending \in SUBSET Calls /\ Releasing \in SUBSET Calls
      /\ \A g : Claiming(g) \in SUBSET Calls
  BY DEF Watching, Spending, Releasing, Claiming
<1>2. Others \in Nat
  BY CallsAreCounted DEF Others
<1> QED
  BY <1>1, <1>2, CallsAreCounted

LEMMA TimesAre ==
    /\ Window \in Nat /\ ReleaseGap \in Nat /\ MaxGpus \in Nat /\ LastBeat \in Nat
    /\ Beats \subseteq Nat /\ 0 \in Beats /\ IsFiniteSet(Beats) /\ Gpus \subseteq Nat /\ IsFiniteSet(Gpus)
    /\ \A k : Since(k) \in SUBSET Beats /\ IsFiniteSet(Since(k))
    /\ Absent \notin Beats /\ Unset \notin Beats /\ Unset = -1
    /\ \A y \in Types : Cost[y] \in Nat /\ PerWindow[y] \in Nat
<1>1. Window \in Nat /\ ReleaseGap \in Nat /\ MaxGpus \in Nat /\ LastBeat \in Nat
  BY WatchTimeAssumption
<1>2. Beats \subseteq Nat /\ 0 \in Beats /\ Gpus \subseteq Nat /\ Absent \notin Beats /\ Unset \notin Beats /\ Unset = -1
  BY <1>1 DEF Beats, Gpus, Absent, Unset
<1>3. IsFiniteSet(Beats) /\ IsFiniteSet(Gpus)
  BY <1>1, FS_Interval DEF Beats, Gpus
<1>4. \A k : Since(k) \in SUBSET Beats
  BY DEF Since
<1>5. \A k : IsFiniteSet(Since(k))
  BY <1>3, <1>4, FS_Subset
<1>6. \A y \in Types : Cost[y] \in Nat /\ PerWindow[y] \in Nat
  BY WatchTimeAssumption
<1> QED
  BY <1>1, <1>2, <1>3, <1>4, <1>5, <1>6

\* A request that is let through joins at most all the others.
LEMMA JoinsOthers ==
    ASSUME WatchTypeOK, NEW c \in Calls, NEW q, Passes(c, q), NEW S \in SUBSET Calls,
           \A d \in S : d = c \/ wcall[d].pc # "idle"
    PROVE  Cardinality(S) <= 1 + Others' /\ Others <= Others'
<1>1. Others' = IF crowd' THEN Cardinality(Calls) - 1 ELSE 0
  BY DEF Others
<1>2. crowd => crowd'
  BY DEF Passes, WatchTypeOK
<1>3. Others <= Others'
  BY <1>1, <1>2, CallsAreCounted DEF Others
<1>4. CASE crowd'
  BY <1>1, <1>3, <1>4, CallsAreCounted
<1>5. CASE ~crowd'
  <2>1. S \subseteq {c}
    BY <1>5 DEF Passes
  <2>2. IsFiniteSet({c}) /\ Cardinality({c}) = 1
    BY FS_Singleton
  <2>3. Cardinality(S) <= 1
    BY <2>1, <2>2, FS_Subset
  <2> QED
    BY <1>1, <1>3, <1>5, <2>3
<1> QED
  BY <1>4, <1>5

LEMMA WatchBegins == WatchInit => WatchInv
<1> SUFFICES ASSUME WatchInit PROVE WatchInv
  OBVIOUS
<1>1. /\ WIdle.pc = "idle" /\ WIdle.now = 0
      /\ WIdle \in [pc: {"idle", "beat", "watch", "release", "claim"}, now: Beats, id: Gpus \cup {0}]
  BY TimesAre DEF WIdle, WCall
<1>2. \A c \in Calls : wcall[c] = WIdle
  BY DEF WatchInit
<1>3. WatchTypeOK
  <2>1. beat \in Beats /\ crowd \in BOOLEAN /\ lastBeat \in Beats \cup {Unset} /\ seconds \in Int
    <3>1. beat \in Beats /\ seconds \in Int
      BY TimesAre DEF WatchInit
    <3>2. crowd \in BOOLEAN
      BY DEF WatchInit
    <3>3. lastBeat \in Beats \cup {Unset}
      BY DEF WatchInit
    <3> QED
      BY <3>1, <3>2, <3>3
  <2>2. history \in [Beats -> Nat] /\ powers \in [Beats -> Nat] /\ machines \in [Gpus -> Nat]
    BY DEF WatchInit
  <2>3. gpu \in [Gpus -> [released: Beats, claimed: Beats \cup {Unset}] \cup {NoGpu}]
    BY DEF WatchInit
  <2>4. wcall \in [Calls -> [pc: {"idle", "beat", "watch", "release", "claim"}, now: Beats, id: Gpus \cup {0}]]
    BY <1>1 DEF WatchInit
  <2> QED
    BY <2>1, <2>2, <2>3, <2>4 DEF WatchInit, WatchTypeOK
<1>4. Watching = {} /\ Spending = {} /\ Releasing = {} /\ \A g : Claiming(g) = {}
  BY <1>1, <1>2 DEF Watching, Spending, Releasing, Claiming
<1>5. IsFiniteSet({}) /\ Cardinality({}) = 0
  BY FS_EmptySet
<1>6. Others = 0 /\ crowd = FALSE
  BY DEF WatchInit, Others
<1>7. /\ \A k : Numbered(powers, Since(k)) = {} /\ Numbered(history, Since(k)) = {}
      /\ Numbered(powers, Beats) = {} /\ Numbered(machines, Gpus) = {}
  BY DEF WatchInit, Numbered, Since
<1>8. /\ \A k : Counted(powers, Since(k)) = 0 /\ Counted(history, Since(k)) = 0
      /\ Claims = 0
  BY <1>5, <1>7 DEF Counted, Claims
<1>9. Released = {} /\ Waiting = {}
  BY DEF WatchInit, Released, Waiting
<1>a. Cost[activity] \in Nat /\ PerWindow[activity] \in Nat
  BY TimesAre DEF WatchInit
<1>b. FlightInv
  BY <1>1, <1>2, TimesAre DEF FlightInv, WatchInit
<1>c. EarnedInv
  BY <1>1, <1>2, <1>8, <1>a, TimesAre DEF EarnedInv, WatchInit
<1>d. SpentInv
  BY <1>4, <1>5, <1>6, <1>a DEF SpentInv, WatchInit
<1>e. PowersInv
  <2>1. \A t \in Beats : powers[t] = 0
    BY DEF WatchInit
  <2> QED
    BY <1>4, <1>5, <1>6, <1>8, <1>a, <2>1 DEF PowersInv
<1>f. GpusInv
  <2>1. Cardinality(Waiting) + Cardinality(Releasing) <= 1 + Others
    BY <1>4, <1>5, <1>6, <1>9
  <2>2. ASSUME NEW g \in Gpus
        PROVE  /\ machines[g] + Cardinality(Claiming(g)) <= 1 + Others
               /\ machines[g] > 0 <=> gpu[g].claimed # Unset
    <3>1. machines[g] = 0 /\ gpu[g].claimed = Unset
      BY DEF WatchInit, NoGpu, Gpu
    <3> QED
      BY <1>4, <1>5, <1>6, <3>1
  <2> QED
    BY <2>1, <2>2 DEF GpusInv
<1> QED
  BY <1>3, <1>b, <1>c, <1>d, <1>e, <1>f DEF WatchInv

\* What the requests write when they pass their checks, and when they end.
LEMMA WatchCalls ==
    /\ \A pc, now, id : LET q == WCall(pc, now, id) IN q.pc = pc /\ q.now = now /\ q.id = id
    /\ WIdle.pc = "idle" /\ WIdle.now = 0
    /\ \A pc \in {"idle", "beat", "watch", "release", "claim"}, now \in Beats, id \in Gpus \cup {0} :
          WCall(pc, now, id) \in [pc: {"idle", "beat", "watch", "release", "claim"}, now: Beats, id: Gpus \cup {0}]
<1>1. \A pc, now, id : LET q == WCall(pc, now, id) IN q.pc = pc /\ q.now = now /\ q.id = id
  BY DEF WCall
<1>2. WIdle.pc = "idle" /\ WIdle.now = 0
  BY <1>1 DEF WIdle
<1>3. \A pc \in {"idle", "beat", "watch", "release", "claim"}, now \in Beats, id \in Gpus \cup {0} :
         WCall(pc, now, id) \in [pc: {"idle", "beat", "watch", "release", "claim"}, now: Beats, id: Gpus \cup {0}]
  BY DEF WCall
<1> QED
  BY <1>1, <1>2, <1>3

LEMMA GpuRecords ==
    /\ \A r \in Beats : /\ Gpu(r, Unset) # NoGpu /\ Gpu(r, Unset).claimed = Unset
                        /\ Gpu(r, Unset) \in [released: Beats, claimed: Beats \cup {Unset}]
    /\ NoGpu.claimed = Unset /\ NoGpu.released = Absent
<1>1. \A r, u : Gpu(r, u).released = r /\ Gpu(r, u).claimed = u
  BY DEF Gpu
<1>2. \A r \in Beats : Gpu(r, Unset) \in [released: Beats, claimed: Beats \cup {Unset}]
  BY DEF Gpu
<1> QED
  BY <1>1, <1>2, TimesAre DEF NoGpu

LEMMA WatchTypes == ASSUME WatchTypeOK, FlightInv, [WatchNext]_watchVars PROVE WatchTypeOK'
<1> DEFINE WRows == [pc: {"idle", "beat", "watch", "release", "claim"}, now: Beats, id: Gpus \cup {0}]
<1>0. WIdle \in WRows /\ beat \in Beats /\ Cost[activity] \in Nat
  BY WatchCalls, TimesAre DEF WIdle, WatchTypeOK
<1>1. CASE UNCHANGED watchVars
  BY <1>1 DEF WatchTypeOK, watchVars
<1>2. CASE TimePasses
  <2>1. beat' \in Beats
    BY <1>2, TimesAre DEF TimePasses, WatchTypeOK, Beats
  <2> QED
    BY <1>2, <2>1 DEF TimePasses, WatchTypeOK
<1>3. ASSUME NEW c \in Calls, NEW pc \in {"beat", "watch", "release", "claim"}, NEW id \in Gpus \cup {0},
             Passes(c, WCall(pc, beat, id))
      PROVE  WatchTypeOK'
  <2>1. WCall(pc, beat, id) \in WRows
    BY <1>0, WatchCalls
  <2>2. wcall' \in [Calls -> WRows]
    BY <1>3, <2>1 DEF Passes, WatchTypeOK
  <2> QED
    BY <1>3, <2>2 DEF Passes, WatchTypeOK
<1>4. ASSUME NEW c \in Calls, WatchEnds(c)
      PROVE  /\ wcall' \in [Calls -> WRows] /\ UNCHANGED <<activity, beat, crowd>>
  BY <1>0, <1>4 DEF WatchEnds, WatchTypeOK
<1>5. ASSUME NEW c \in Calls, HeartbeatCommits(c) PROVE WatchTypeOK'
  BY <1>4, <1>5 DEF HeartbeatCommits, WatchTypeOK
<1>6. ASSUME NEW c \in Calls, RewardCommits(c) PROVE WatchTypeOK'
  <2>1. powers' \in [Beats -> Nat] /\ history' \in [Beats -> Nat]
    BY <1>6 DEF RewardCommits, WatchTypeOK
  <2>2. seconds' \in Int /\ WatchEnds(c)
    BY <1>0, <1>6 DEF RewardCommits, WatchTypeOK
  <2> QED
    BY <1>4, <1>6, <2>1, <2>2 DEF RewardCommits, WatchTypeOK
<1>7. ASSUME NEW c \in Calls, GpuIsReleased(c) PROVE WatchTypeOK'
  <2>1. wcall[c].now \in Beats
    BY DEF WatchTypeOK
  <2>2. gpu' \in [Gpus -> [released: Beats, claimed: Beats \cup {Unset}] \cup {NoGpu}]
    BY <1>7, <2>1, GpuRecords DEF GpuIsReleased, WatchTypeOK
  <2> QED
    BY <1>4, <1>7, <2>2 DEF GpuIsReleased, WatchTypeOK
<1>8. ASSUME NEW c \in Calls, ClaimCommits(c) PROVE WatchTypeOK'
  <2> DEFINE q == wcall[c]
  <2>1. q.now \in Beats /\ q.id \in Gpus /\ gpu[q.id] # NoGpu
    BY <1>8 DEF WatchTypeOK, FlightInv, ClaimCommits, Released
  <2>2. gpu[q.id] \in [released: Beats, claimed: Beats \cup {Unset}]
    BY <2>1 DEF WatchTypeOK
  <2>3. [gpu[q.id] EXCEPT !.claimed = q.now] \in [released: Beats, claimed: Beats \cup {Unset}]
    BY <2>1, <2>2
  <2>4. gpu' = [gpu EXCEPT ![q.id] = [gpu[q.id] EXCEPT !.claimed = q.now]]
    BY <1>8 DEF ClaimCommits
  <2>5. gpu' \in [Gpus -> [released: Beats, claimed: Beats \cup {Unset}] \cup {NoGpu}]
    BY <2>1, <2>3, <2>4 DEF WatchTypeOK
  <2>6. machines' \in [Gpus -> Nat]
    <3>1. machines[q.id] + 1 \in Nat
      BY <2>1 DEF WatchTypeOK
    <3>2. machines' = [machines EXCEPT ![q.id] = machines[q.id] + 1]
      BY <1>8 DEF ClaimCommits
    <3> QED
      BY <3>1, <3>2 DEF WatchTypeOK
  <2>7. seconds' \in Int /\ WatchEnds(c)
    BY <1>0, <1>8 DEF ClaimCommits, WatchTypeOK
  <2> QED
    BY <1>4, <1>8, <2>5, <2>6, <2>7 DEF ClaimCommits, WatchTypeOK
<1>9. ASSUME NEW c \in Calls, WatchFails(c) PROVE WatchTypeOK'
  BY <1>4, <1>9 DEF WatchFails, WatchTypeOK
<1>a. \A c \in Calls, g \in Unclaimed : Passes(c, WCall("claim", beat, g)) => WatchTypeOK'
  BY <1>3 DEF Unclaimed, Waiting, Released
<1> QED
  BY <1>1, <1>2, <1>3, <1>5, <1>6, <1>7, <1>8, <1>9, <1>a
     DEF WatchNext, processHeartbeat, claimReward, getAvailableGPUsHandler, claimGPUHandler, getStats

\* The steps, as the parts of the invariant see them.
LEMMA WatchCases ==
    ASSUME WatchTypeOK, FlightInv, WatchNext
    PROVE  \/ UNCHANGED watchVars \/ TimePasses
           \/ \E c \in Calls, pc \in {"beat", "watch", "release", "claim"}, id \in Gpus \cup {0} :
                 /\ Passes(c, WCall(pc, beat, id))
                 /\ pc = "beat" => FarEnough
                 /\ pc = "watch" => activity = "youtube" /\ HasTime /\ BelowLimit(Counted(history, Recent))
                 /\ pc = "release" => Waiting = {}
                 /\ pc = "claim" => id \in Waiting /\ HasTime
           \/ \E c \in Calls : HeartbeatCommits(c) \/ RewardCommits(c) \/ GpuIsReleased(c) \/ ClaimCommits(c) \/ WatchFails(c)
<1>1. ASSUME NEW c \in Calls, processHeartbeat(c) PROVE Passes(c, WCall("beat", beat, 0)) /\ FarEnough
  BY <1>1 DEF processHeartbeat
<1>2. ASSUME NEW c \in Calls, claimReward(c)
      PROVE  Passes(c, WCall("watch", beat, 0)) /\ activity = "youtube" /\ HasTime /\ BelowLimit(Counted(history, Recent))
  BY <1>2 DEF claimReward
<1>3. ASSUME NEW c \in Calls, getAvailableGPUsHandler(c) PROVE Passes(c, WCall("release", beat, 0)) /\ Waiting = {}
  BY <1>3 DEF getAvailableGPUsHandler, ReleaseDue
<1>4. ASSUME NEW c \in Calls, claimGPUHandler(c)
      PROVE  \E id \in Gpus \cup {0} : Passes(c, WCall("claim", beat, id)) /\ id \in Waiting /\ HasTime
  <2>1. PICK g \in Unclaimed : HasTime /\ Passes(c, WCall("claim", beat, g))
    BY <1>4 DEF claimGPUHandler
  <2>2. g \in Waiting /\ g \in Gpus \cup {0}
    BY DEF Unclaimed, Waiting, Released
  <2> QED
    BY <2>1, <2>2
<1>5. CASE \E c \in Calls : processHeartbeat(c)
  BY <1>1, <1>5
<1>6. CASE \E c \in Calls : claimReward(c)
  BY <1>2, <1>6
<1>7. CASE \E c \in Calls : getAvailableGPUsHandler(c)
  BY <1>3, <1>7
<1>8. CASE \E c \in Calls : claimGPUHandler(c)
  BY <1>4, <1>8
<1> QED
  BY <1>5, <1>6, <1>7, <1>8 DEF WatchNext, getStats

LEMMA WatchIs ==
    ASSUME WatchTypeOK
    PROVE  /\ beat \in Nat /\ beat \in Beats /\ seconds \in Int /\ lastBeat \in Int /\ lastBeat >= -1
           /\ DOMAIN wcall = Calls /\ activity \in Types
           /\ \A c \in Calls : /\ wcall[c].now \in Nat /\ wcall[c].now \in Beats
                                /\ wcall[c].pc \in {"idle", "beat", "watch", "release", "claim"}
           /\ Cost[activity] \in Nat /\ PerWindow[activity] \in Nat
           /\ \A t \in Beats : powers[t] \in Nat /\ history[t] \in Nat
           /\ \A g \in Gpus : machines[g] \in Nat
<1>1. DOMAIN wcall = Calls /\ activity \in Types /\ seconds \in Int /\ beat \in Beats /\ lastBeat \in Beats \cup {Unset}
  BY DEF WatchTypeOK
<1>2. \A c \in Calls : wcall[c] \in [pc: {"idle", "beat", "watch", "release", "claim"}, now: Beats, id: Gpus \cup {0}]
  BY DEF WatchTypeOK
<1>3. /\ \A t \in Beats : powers[t] \in Nat /\ history[t] \in Nat
      /\ \A g \in Gpus : machines[g] \in Nat
  BY DEF WatchTypeOK
<1>4. \A c \in Calls : wcall[c].now \in Beats /\ wcall[c].pc \in {"idle", "beat", "watch", "release", "claim"}
  BY <1>2
<1>5. \A x \in Beats : x \in Nat
  BY TimesAre
<1>6. Cost[activity] \in Nat /\ PerWindow[activity] \in Nat
  BY <1>1, TimesAre
<1>7. lastBeat \in Int /\ lastBeat >= -1
  BY <1>1, <1>5, TimesAre
<1> QED
  BY <1>1, <1>3, <1>4, <1>5, <1>6, <1>7

LEMMA FlightStep == ASSUME WatchTypeOK, FlightInv, [WatchNext]_watchVars PROVE FlightInv'
<1>0. beat \in Int /\ DOMAIN wcall = Calls /\ \A c \in Calls : wcall[c].now \in Int
  BY WatchIs
<1>1. CASE UNCHANGED watchVars
  BY <1>1 DEF FlightInv, watchVars, Released
<1>2. CASE TimePasses
  BY <1>0, <1>2 DEF TimePasses, FlightInv, Released
<1>3. ASSUME NEW c \in Calls, NEW pc \in {"beat", "watch", "release", "claim"}, NEW id \in Gpus \cup {0},
             Passes(c, WCall(pc, beat, id)),
             pc = "watch" => activity = "youtube",
             pc = "claim" => id \in Waiting
      PROVE  FlightInv'
  <2>1. /\ wcall'[c].pc = pc /\ wcall'[c].now = beat /\ wcall'[c].id = id
        /\ \A d \in Calls : d # c => wcall'[d] = wcall[d]
    BY <1>0, <1>3, WatchCalls DEF Passes
  <2>2. crowd' = (crowd \/ \E d \in Calls : wcall[d].pc # "idle") /\ UNCHANGED <<activity, beat, gpu>>
    BY <1>3 DEF Passes
  <2>3. Released' = Released /\ (pc = "claim" => id \in Released)
    BY <1>3, <2>2 DEF Released, Waiting
  <2>4. ~crowd' => \A d, e \in Calls : wcall'[d].pc # "idle" /\ wcall'[e].pc # "idle" => d = e
    BY <2>1, <2>2
  <2>5. ASSUME NEW d \in Calls
        PROVE  /\ wcall'[d].now <= beat'
               /\ wcall'[d].pc = "watch" => activity' = "youtube"
               /\ wcall'[d].pc = "claim" => wcall'[d].id \in Released'
    <3>1. CASE d = c
      BY <1>0, <1>3, <2>1, <2>2, <2>3, <3>1
    <3>2. CASE d # c
      BY <2>1, <2>2, <2>3, <3>2 DEF FlightInv
    <3> QED
      BY <3>1, <3>2
  <2> QED
    BY <2>4, <2>5 DEF FlightInv
\* A request ends, and released GPUs stay released.
<1>4. ASSUME NEW c \in Calls, WatchEnds(c), Released \subseteq Released' PROVE FlightInv'
  <2>1. /\ wcall'[c].pc = "idle" /\ wcall'[c].now = 0
        /\ \A d \in Calls : d # c => wcall'[d] = wcall[d]
    BY <1>0, <1>4, WatchCalls DEF WatchEnds
  <2>2. UNCHANGED <<activity, beat, crowd>> /\ beat >= 0
    BY <1>4, TimesAre DEF WatchEnds, WatchTypeOK
  <2> QED
    BY <1>4, <2>1, <2>2 DEF FlightInv
<1>5. ASSUME NEW c \in Calls, HeartbeatCommits(c) \/ RewardCommits(c) \/ WatchFails(c) PROVE FlightInv'
  <2>1. WatchEnds(c) /\ gpu' = gpu
    BY <1>5 DEF HeartbeatCommits, RewardCommits, WatchFails
  <2> QED
    BY <1>4, <2>1 DEF Released
<1>6. ASSUME NEW c \in Calls, GpuIsReleased(c) PROVE FlightInv'
  <2>1. WatchEnds(c)
    BY <1>6 DEF GpuIsReleased
  <2>2. wcall[c].now \in Beats
    BY DEF WatchTypeOK
  <2>3. ASSUME NEW g \in Released PROVE g \in Released'
    BY <1>6, <2>2, <2>3, GpuRecords DEF GpuIsReleased, Released, WatchTypeOK
  <2> QED
    BY <1>4, <2>1, <2>3
<1>7. ASSUME NEW c \in Calls, ClaimCommits(c) PROVE FlightInv'
  <2>1. WatchEnds(c) /\ wcall[c].id \in Released /\ wcall[c].now \in Beats
    BY <1>7 DEF ClaimCommits, FlightInv, WatchTypeOK
  <2>2. gpu'[wcall[c].id].claimed = wcall[c].now
    <3>1. gpu[wcall[c].id] \in [released: Beats, claimed: Beats \cup {Unset}]
      BY <2>1 DEF Released, WatchTypeOK
    <3> QED
      BY <1>7, <2>1, <3>1 DEF ClaimCommits, Released, WatchTypeOK
  <2>3. ASSUME NEW g \in Released PROVE g \in Released'
    <3>1. gpu'[g] = gpu[g] \/ g = wcall[c].id
      BY <1>7 DEF ClaimCommits, WatchTypeOK, Released
    <3>2. NoGpu.claimed # wcall[c].now
      BY <2>1, GpuRecords, TimesAre
    <3> QED
      BY <2>2, <3>1, <3>2 DEF Released
  <2> QED
    BY <1>4, <2>1, <2>3
<1> QED
  BY <1>1, <1>2, <1>3, <1>5, <1>6, <1>7, WatchCases

LEMMA ClaimsAreCounted ==
    ASSUME WatchTypeOK
    PROVE  Counted(powers, Beats) \in Nat /\ Counted(machines, Gpus) \in Nat /\ Claims \in Nat
<1>1. Counted(powers, Beats) \in Nat /\ Counted(machines, Gpus) \in Nat
  BY NumberedFinite, TimesAre, WatchIs DEF Counted
<1> QED
  BY <1>1 DEF Claims

LEMMA EarnedStep ==
    ASSUME WatchTypeOK, FlightInv, EarnedInv, [WatchNext]_watchVars PROVE EarnedInv'
<1>0. /\ beat \in Int /\ lastBeat \in Int /\ seconds \in Int /\ DOMAIN wcall = Calls /\ Claims \in Nat
      /\ Cost[activity] \in Nat /\ \A c \in Calls : wcall[c].now \in Int
  BY WatchIs, ClaimsAreCounted
<1>c. ASSUME powers' = powers, machines' = machines PROVE Claims' = Claims
  BY <1>c DEF Claims, Counted
<1>1. CASE UNCHANGED watchVars
  BY <1>1, <1>c DEF EarnedInv, watchVars
<1>2. CASE TimePasses
  BY <1>0, <1>2, <1>c DEF TimePasses, EarnedInv
<1>3. ASSUME NEW c \in Calls, NEW pc \in {"beat", "watch", "release", "claim"}, NEW id \in Gpus \cup {0},
             Passes(c, WCall(pc, beat, id)), pc = "beat" => FarEnough
      PROVE  EarnedInv'
  <2>1. /\ wcall'[c].pc = pc /\ wcall'[c].now = beat /\ \A d \in Calls : d # c => wcall'[d] = wcall[d]
        /\ UNCHANGED <<activity, beat, lastBeat, seconds, powers, machines>> /\ (~crowd' => ~crowd)
    <3>1. wcall'[c].pc = pc /\ wcall'[c].now = beat /\ \A d \in Calls : d # c => wcall'[d] = wcall[d]
      BY <1>0, <1>3, WatchCalls DEF Passes
    <3>2. UNCHANGED <<activity, beat, lastBeat, seconds, powers, machines>> /\ (~crowd' => ~crowd)
      BY <1>3 DEF Passes
    <3> QED
      BY <3>1, <3>2
  <2>2. pc = "beat" => lastBeat < beat
    BY <1>0, <1>3 DEF FarEnough, EarnedInv
  <2>3. Claims' = Claims
    BY <1>c, <2>1
  <2> QED
    BY <2>1, <2>2, <2>3 DEF EarnedInv
\* A request that ends leaves the other ones as they were.
<1>4. ASSUME NEW c \in Calls, WatchEnds(c)
      PROVE  /\ wcall'[c].pc = "idle" /\ \A d \in Calls : d # c => wcall'[d] = wcall[d]
             /\ UNCHANGED <<activity, beat, crowd>>
  BY <1>0, <1>4, WatchCalls DEF WatchEnds
<1>5. ASSUME NEW c \in Calls, HeartbeatCommits(c) PROVE EarnedInv'
  <2>1. /\ WatchEnds(c) /\ wcall[c].pc = "beat" /\ lastBeat' = wcall[c].now /\ seconds' = seconds + 1
        /\ UNCHANGED <<powers, machines>>
    BY <1>5 DEF HeartbeatCommits
  <2>2. Claims' = Claims /\ activity' = activity /\ beat' = beat /\ crowd' = crowd
    BY <1>4, <1>c, <2>1
  <2>3. lastBeat' <= beat'
    BY <2>1, <2>2 DEF FlightInv
  <2>4. ASSUME ~crowd PROVE seconds + Cost[activity] * Claims <= lastBeat + 1 /\ lastBeat < wcall[c].now
    BY <2>1, <2>4 DEF EarnedInv
  <2>5. ASSUME ~crowd, NEW d \in Calls, wcall'[d].pc = "beat" PROVE FALSE
    BY <1>4, <2>1, <2>5 DEF FlightInv
  <2>6. Cost[activity] * Claims \in Int
    BY <1>0
  <2>7. ASSUME ~crowd PROVE seconds' + Cost[activity'] * Claims' <= lastBeat' + 1
    BY <1>0, <2>1, <2>2, <2>4, <2>6, <2>7
  <2> QED
    BY <2>2, <2>3, <2>5, <2>7 DEF EarnedInv
\* A claim turns a cost into a row.
<1>6. ASSUME NEW c \in Calls, WatchEnds(c), wcall[c].pc # "idle", seconds' = seconds - Cost[activity], Claims' = Claims + 1, lastBeat' = lastBeat
      PROVE  EarnedInv'
  <2>2. UNCHANGED <<activity, beat, crowd>>
    BY <1>4, <1>6
  <2>3. \A d \in Calls : wcall'[d].pc = "beat" => wcall'[d] = wcall[d]
    BY <1>4, <1>6
  <2>4. Cost[activity] * (Claims + 1) = Cost[activity] * Claims + Cost[activity] /\ Cost[activity] * Claims \in Int
    BY <1>0, TimesOneLess
  <2>5. seconds' + Cost[activity'] * Claims' = seconds + Cost[activity] * Claims
    BY <1>0, <1>6, <2>2, <2>4
  <2> QED
    BY <1>6, <2>2, <2>3, <2>5 DEF EarnedInv
<1>7. ASSUME NEW c \in Calls, RewardCommits(c) PROVE EarnedInv'
  <2>0. wcall[c].now \in Beats /\ IsFiniteSet(Beats) /\ \A t \in Beats : powers[t] \in Nat
    BY WatchIs, TimesAre
  <2>1. powers'[wcall[c].now] = powers[wcall[c].now] + 1 /\ \A t \in Beats : t # wcall[c].now => powers'[t] = powers[t]
    BY <1>7, <2>0 DEF RewardCommits, WatchTypeOK
  <2>2. Counted(powers, Beats)' = Counted(powers, Beats) + 1
    BY <2>0, <2>1, NumberedGrows DEF Counted
  <2>3. Counted(machines, Gpus)' = Counted(machines, Gpus)
    BY <1>7 DEF RewardCommits, Counted
  <2>4. Claims' = Claims + 1
    BY <2>2, <2>3, ClaimsAreCounted DEF Claims
  <2> QED
    BY <1>6, <1>7, <2>4 DEF RewardCommits
<1>8. ASSUME NEW c \in Calls, ClaimCommits(c) PROVE EarnedInv'
  <2>0. wcall[c].id \in Gpus /\ IsFiniteSet(Gpus) /\ \A g \in Gpus : machines[g] \in Nat
    BY <1>8, WatchIs, TimesAre DEF ClaimCommits, FlightInv, Released
  <2>1. machines'[wcall[c].id] = machines[wcall[c].id] + 1 /\ \A g \in Gpus : g # wcall[c].id => machines'[g] = machines[g]
    BY <1>8, <2>0 DEF ClaimCommits, WatchTypeOK
  <2>2. Counted(machines, Gpus)' = Counted(machines, Gpus) + 1
    BY <2>0, <2>1, NumberedGrows DEF Counted
  <2>3. Counted(powers, Beats)' = Counted(powers, Beats)
    BY <1>8 DEF ClaimCommits, Counted
  <2>4. Claims' = Claims + 1
    BY <2>2, <2>3, ClaimsAreCounted DEF Claims
  <2> QED
    BY <1>6, <1>8, <2>4 DEF ClaimCommits
<1>9. ASSUME NEW c \in Calls, GpuIsReleased(c) \/ WatchFails(c) PROVE EarnedInv'
  <2>1. WatchEnds(c) /\ UNCHANGED <<lastBeat, seconds, powers, machines>>
    BY <1>9 DEF GpuIsReleased, WatchFails
  <2>2. \A d \in Calls : wcall'[d].pc = "beat" => wcall'[d] = wcall[d]
    BY <1>4, <2>1
  <2> QED
    BY <1>4, <1>c, <2>1, <2>2 DEF EarnedInv
<1> QED
  BY <1>1, <1>2, <1>3, <1>5, <1>7, <1>8, <1>9, WatchCases

LEMMA EndsTakesOut ==
    ASSUME WatchTypeOK, NEW c \in Calls, WatchEnds(c)
    PROVE  /\ Watching' = Watching \ {c} /\ Spending' = Spending \ {c} /\ Releasing' = Releasing \ {c}
           /\ \A g : Claiming(g)' = Claiming(g) \ {c}
           /\ Others' = Others /\ UNCHANGED <<activity, beat, crowd>>
<1>1. wcall'[c].pc = "idle" /\ \A d \in Calls : d # c => wcall'[d] = wcall[d]
  BY WatchIs, WatchCalls DEF WatchEnds
<1>2. Others' = Others /\ UNCHANGED <<activity, beat, crowd>>
  BY DEF WatchEnds, Others
<1>3. Watching' = Watching \ {c}
  BY <1>1 DEF Watching
<1>4. Spending' = Spending \ {c}
  BY <1>1 DEF Spending
<1>5. Releasing' = Releasing \ {c}
  BY <1>1 DEF Releasing
<1>6. \A g : Claiming(g)' = Claiming(g) \ {c}
  BY <1>1 DEF Claiming
<1> QED
  BY <1>2, <1>3, <1>4, <1>5, <1>6

\* What a request that passes joins, at most all the others join with it.
LEMMA PassesJoins ==
    ASSUME WatchTypeOK, NEW c \in Calls, NEW pc \in {"beat", "watch", "release", "claim"}, NEW id,
           Passes(c, WCall(pc, beat, id))
    PROVE  /\ Others <= Others'
           /\ pc # "watch" => Watching' = Watching
           /\ pc \notin {"watch", "claim"} => Spending' = Spending
           /\ pc # "release" => Releasing' = Releasing
           /\ \A g : pc # "claim" \/ g # id => Claiming(g)' = Claiming(g)
           /\ Cardinality(Watching') <= 1 + Others' /\ Cardinality(Spending') <= 1 + Others'
           /\ Cardinality(Releasing') <= 1 + Others' /\ \A g : Cardinality(Claiming(g)') <= 1 + Others'
<1>1. /\ wcall[c].pc = "idle" /\ wcall'[c].pc = pc /\ wcall'[c].id = id
      /\ \A d \in Calls : d # c => wcall'[d] = wcall[d]
  BY WatchIs, WatchCalls DEF Passes
<1>2. /\ pc # "watch" => Watching' = Watching
      /\ pc \notin {"watch", "claim"} => Spending' = Spending
      /\ pc # "release" => Releasing' = Releasing
  BY <1>1 DEF Watching, Spending, Releasing
<1>3. \A g : pc # "claim" \/ g # id => Claiming(g)' = Claiming(g)
  BY <1>1 DEF Claiming
<1>4. ASSUME NEW S \in SUBSET Calls, \A d \in S : wcall'[d].pc # "idle" PROVE Cardinality(S) <= 1 + Others'
  BY <1>1, <1>4, JoinsOthers
<1>5. Others <= Others'
  <2>1. {} \in SUBSET Calls /\ \A d \in {} : d = c \/ wcall[d].pc # "idle"
    OBVIOUS
  <2> QED
    BY <2>1, JoinsOthers
<1>6. /\ Watching' \in SUBSET Calls /\ \A d \in Watching' : wcall'[d].pc # "idle"
      /\ Spending' \in SUBSET Calls /\ \A d \in Spending' : wcall'[d].pc # "idle"
      /\ Releasing' \in SUBSET Calls /\ \A d \in Releasing' : wcall'[d].pc # "idle"
  BY DEF Watching, Spending, Releasing
<1>7. \A g : Claiming(g)' \in SUBSET Calls /\ \A d \in Claiming(g)' : wcall'[d].pc # "idle"
  BY DEF Claiming
<1> QED
  BY <1>2, <1>3, <1>4, <1>5, <1>6, <1>7

LEMMA SpentStep ==
    ASSUME WatchTypeOK, FlightInv, SpentInv, [WatchNext]_watchVars PROVE SpentInv'
<1>0. /\ Cost[activity] \in Nat /\ seconds \in Int /\ Others \in Nat
      /\ Cardinality(Spending) \in Int /\ Cardinality(Spending') \in Int /\ Others' \in Int
  <2>1. Spending \in SUBSET Calls /\ Spending' \in SUBSET Calls
    BY DEF Spending
  <2>2. Others \in Int /\ Others' \in Int
    BY CallsAreCounted DEF Others
  <2> QED
    BY <2>1, <2>2, WatchIs, CallsAreCounted, WatchCounted
\* Nothing is spent, and the claims that wait are no more than they were.
<1>1. ASSUME seconds' >= seconds, seconds' \in Int, activity' = activity,
             Cardinality(Spending') - Others' <= Cardinality(Spending) - Others
      PROVE  SpentInv'
  <2>1. /\ Cost[activity] * (Cardinality(Spending') - Others') <= Cost[activity] * (Cardinality(Spending) - Others)
        /\ Cost[activity] * (Cardinality(Spending') - Others') \in Int
        /\ Cost[activity] * (Cardinality(Spending) - Others) \in Int
    BY <1>0, <1>1, TimesGrowsInt
  <2>2. seconds' >= Cost[activity] * (Cardinality(Spending') - Others')
    BY <1>0, <1>1, <2>1 DEF SpentInv
  <2> QED
    BY <1>1, <2>2 DEF SpentInv
<1>2. CASE UNCHANGED watchVars \/ TimePasses
  <2>1. UNCHANGED <<activity, seconds, wcall, crowd>>
    BY <1>2 DEF watchVars, TimePasses
  <2>2. Spending' = Spending /\ Others' = Others
    BY <2>1 DEF Spending, Others
  <2> QED
    BY <1>0, <1>1, <2>1, <2>2
<1>3. ASSUME NEW c \in Calls, NEW pc \in {"beat", "watch", "release", "claim"}, NEW id \in Gpus \cup {0},
             Passes(c, WCall(pc, beat, id)), pc \in {"watch", "claim"} => HasTime
      PROVE  SpentInv'
  <2>1. UNCHANGED <<activity, seconds>>
    BY <1>3 DEF Passes
  <2>2. CASE pc \in {"watch", "claim"}
    <3>1. Cardinality(Spending') - Others' <= 1
      BY <1>0, <1>3, PassesJoins
    <3>2. Cost[activity] * (Cardinality(Spending') - Others') <= Cost[activity] * 1
          /\ Cost[activity] * (Cardinality(Spending') - Others') \in Int
      BY <1>0, <3>1, TimesGrowsInt
    <3>3. seconds >= Cost[activity]
      BY <1>3, <2>2 DEF HasTime
    <3>4. seconds >= Cost[activity] * (Cardinality(Spending') - Others')
      BY <1>0, <3>2, <3>3
    <3> QED
      BY <2>1, <3>4 DEF SpentInv
  <2>3. CASE pc \notin {"watch", "claim"}
    <3>1. Spending' = Spending /\ Others <= Others'
      BY <1>3, <2>3, PassesJoins
    <3> QED
      BY <1>0, <1>1, <2>1, <3>1
  <2> QED
    BY <2>2, <2>3
<1>4. ASSUME NEW c \in Calls, WatchEnds(c), seconds' \in {seconds, seconds + 1} PROVE SpentInv'
  <2>1. Spending' = Spending \ {c} /\ Others' = Others /\ activity' = activity
    BY <1>4, EndsTakesOut
  <2>2. Cardinality(Spending') <= Cardinality(Spending)
    BY <2>1, OneFewer, WatchCounted
  <2>3. Cardinality(Spending') - Others' <= Cardinality(Spending) - Others
    BY <1>0, <2>1, <2>2
  <2> QED
    BY <1>0, <1>1, <1>4, <2>1, <2>3
<1>5. ASSUME NEW c \in Calls, RewardCommits(c) \/ ClaimCommits(c) PROVE SpentInv'
  <2>0. WatchEnds(c) /\ wcall[c].pc \in {"watch", "claim"} /\ seconds' = seconds - Cost[activity]
    BY <1>5 DEF RewardCommits, ClaimCommits
  <2>1. Spending' = Spending \ {c} /\ Others' = Others /\ activity' = activity
    BY <2>0, EndsTakesOut
  <2>2. Cardinality(Spending') = Cardinality(Spending) - 1
    <3>1. c \in Spending
      BY <2>0 DEF Spending
    <3> QED
      BY <2>1, <3>1, OneFewer, WatchCounted
  <2> DEFINE k == Cardinality(Spending) - Others
  <2>3. k \in Int /\ Cardinality(Spending') - Others' = k - 1 /\ seconds >= Cost[activity] * k
    BY <1>0, <2>1, <2>2 DEF SpentInv
  <2>4. Cost[activity] * (k - 1) = Cost[activity] * k - Cost[activity] /\ Cost[activity] * k \in Int
    <3> HIDE DEF k
    <3> QED
      BY <1>0, <2>3, TimesOneLess
  <2>5. seconds' >= Cost[activity] * (Cardinality(Spending') - Others')
    <3> HIDE DEF k
    <3> QED
      BY <1>0, <2>0, <2>3, <2>4
  <2> QED
    BY <2>1, <2>5 DEF SpentInv
<1>6. ASSUME NEW c \in Calls, HeartbeatCommits(c) \/ GpuIsReleased(c) \/ WatchFails(c) PROVE SpentInv'
  BY <1>4, <1>6 DEF HeartbeatCommits, GpuIsReleased, WatchFails
<1> QED
  BY <1>2, <1>3, <1>5, <1>6, WatchCases

LEMMA GpusStep ==
    ASSUME WatchTypeOK, FlightInv, GpusInv, [WatchNext]_watchVars PROVE GpusInv'
<1>0. /\ \A g \in Gpus : machines[g] \in Nat
      /\ \A g : Cardinality(Claiming(g)) \in Nat /\ Cardinality(Claiming(g)') \in Nat
      /\ Cardinality(Releasing) \in Nat /\ Cardinality(Releasing') \in Nat /\ Others \in Nat /\ Others' \in Int
  <2>1. /\ \A g : Claiming(g) \in SUBSET Calls /\ Claiming(g)' \in SUBSET Calls
        /\ Releasing \in SUBSET Calls /\ Releasing' \in SUBSET Calls
    BY DEF Claiming, Releasing
  <2>2. Others \in Nat /\ Others' \in Int
    BY CallsAreCounted DEF Others
  <2> QED
    BY <2>1, <2>2, WatchIs, CallsAreCounted
<1>w. Waiting \in SUBSET Gpus /\ IsFiniteSet(Waiting) /\ Cardinality(Waiting) \in Nat
  <2>1. Waiting \in SUBSET Gpus /\ IsFiniteSet(Gpus)
    BY TimesAre DEF Waiting, Released
  <2> QED
    BY <2>1, FS_Subset, FS_CardinalityType
\* No GPU is written, and no more requests wait to write one, unless all join.
<1>1. ASSUME UNCHANGED <<gpu, machines>>, Others <= Others',
             Cardinality(Releasing') <= Cardinality(Releasing) \/ (Waiting = {} /\ Cardinality(Releasing') <= 1 + Others'),
             \A g \in Gpus : \/ Cardinality(Claiming(g)') <= Cardinality(Claiming(g))
                             \/ machines[g] = 0 /\ Cardinality(Claiming(g)') <= 1 + Others'
      PROVE  GpusInv'
  <2>1. Waiting' = Waiting
    BY <1>1 DEF Waiting, Released
  <2>2. Cardinality(Waiting) + Cardinality(Releasing') <= 1 + Others'
    <3>1. CASE Waiting = {}
      <4>1. Cardinality(Waiting) = 0
        BY <3>1, FS_EmptySet
      <4> QED
        BY <1>0, <1>1, <4>1 DEF GpusInv
    <3>2. CASE Waiting # {}
      BY <1>0, <1>1, <1>w, <3>2 DEF GpusInv
    <3> QED
      BY <3>1, <3>2
  <2>3. ASSUME NEW g \in Gpus PROVE machines[g] + Cardinality(Claiming(g)') <= 1 + Others'
    BY <1>0, <1>1 DEF GpusInv
  <2> QED
    BY <1>1, <2>1, <2>2, <2>3 DEF GpusInv
<1>2. CASE UNCHANGED watchVars \/ TimePasses
  <2>1. UNCHANGED <<gpu, machines, wcall, crowd>>
    BY <1>2 DEF watchVars, TimePasses
  <2>2. Releasing' = Releasing /\ Others' = Others /\ \A g : Claiming(g)' = Claiming(g)
    BY <2>1 DEF Releasing, Others, Claiming
  <2> QED
    BY <1>0, <1>1, <2>1, <2>2
<1>3. ASSUME NEW c \in Calls, NEW pc \in {"beat", "watch", "release", "claim"}, NEW id \in Gpus \cup {0},
             Passes(c, WCall(pc, beat, id)), pc = "release" => Waiting = {}, pc = "claim" => id \in Waiting
      PROVE  GpusInv'
  <2>1. UNCHANGED <<gpu, machines>>
    BY <1>3 DEF Passes
  <2>2. ASSUME NEW g \in Gpus
        PROVE  \/ Cardinality(Claiming(g)') <= Cardinality(Claiming(g))
               \/ machines[g] = 0 /\ Cardinality(Claiming(g)') <= 1 + Others'
    <3>1. CASE pc = "claim" /\ g = id
      <4>1. gpu[g].claimed = Unset
        BY <1>3, <3>1 DEF Waiting
      <4>2. machines[g] = 0
        BY <1>0, <4>1 DEF GpusInv
      <4> QED
        BY <1>3, <4>2, PassesJoins
    <3>2. CASE pc # "claim" \/ g # id
      <4>1. Claiming(g)' = Claiming(g)
        BY <1>3, <3>2, PassesJoins
      <4> QED
        BY <1>0, <4>1
    <3> QED
      BY <3>1, <3>2
  <2>3. Others <= Others' /\ Cardinality(Releasing') <= 1 + Others' /\ (pc # "release" => Releasing' = Releasing)
    BY <1>3, PassesJoins
  <2>4. Cardinality(Releasing') <= Cardinality(Releasing) \/ (Waiting = {} /\ Cardinality(Releasing') <= 1 + Others')
    BY <1>0, <1>3, <2>3
  <2> QED
    BY <1>1, <2>1, <2>2, <2>3, <2>4
<1>e. ASSUME NEW c \in Calls, WatchEnds(c)
      PROVE  /\ Others' = Others
             /\ Cardinality(Releasing') <= Cardinality(Releasing)
             /\ wcall[c].pc = "release" => Cardinality(Releasing') = Cardinality(Releasing) - 1
             /\ \A g : /\ Cardinality(Claiming(g)') <= Cardinality(Claiming(g))
                       /\ wcall[c].pc = "claim" /\ wcall[c].id = g => Cardinality(Claiming(g)') = Cardinality(Claiming(g)) - 1
  <2>1. Others' = Others /\ Releasing' = Releasing \ {c} /\ \A g : Claiming(g)' = Claiming(g) \ {c}
    BY <1>e, EndsTakesOut
  <2>2. Releasing \in SUBSET Calls /\ \A g : Claiming(g) \in SUBSET Calls
    BY WatchCounted
  <2>3. /\ wcall[c].pc = "release" => c \in Releasing
        /\ \A g : wcall[c].pc = "claim" /\ wcall[c].id = g => c \in Claiming(g)
    BY DEF Releasing, Claiming
  <2>4. /\ Cardinality(Releasing') <= Cardinality(Releasing)
        /\ wcall[c].pc = "release" => Cardinality(Releasing') = Cardinality(Releasing) - 1
    BY <2>1, <2>2, <2>3, OneFewer
  <2>5. ASSUME NEW g
        PROVE  /\ Cardinality(Claiming(g)') <= Cardinality(Claiming(g))
               /\ wcall[c].pc = "claim" /\ wcall[c].id = g => Cardinality(Claiming(g)') = Cardinality(Claiming(g)) - 1
    BY <2>1, <2>2, <2>3, OneFewer
  <2> QED
    BY <2>1, <2>4, <2>5
<1>4. ASSUME NEW c \in Calls, HeartbeatCommits(c) \/ RewardCommits(c) \/ WatchFails(c) PROVE GpusInv'
  <2>1. WatchEnds(c) /\ UNCHANGED <<gpu, machines>>
    BY <1>4 DEF HeartbeatCommits, RewardCommits, WatchFails
  <2> QED
    BY <1>0, <1>1, <1>e, <2>1
\* The GPU released waits, and its request no longer does.
<1>5. ASSUME NEW c \in Calls, GpuIsReleased(c) PROVE GpusInv'
  <2>0. WatchEnds(c) /\ wcall[c].pc = "release" /\ machines' = machines /\ wcall[c].now \in Beats
    BY <1>5, WatchIs DEF GpuIsReleased
  <2>1. PICK g \in Gpus \ Released : gpu' = [gpu EXCEPT ![g] = Gpu(wcall[c].now, Unset)]
    BY <1>5 DEF GpuIsReleased
  <2>2. gpu'[g] = Gpu(wcall[c].now, Unset) /\ gpu[g] = NoGpu /\ \A h \in Gpus : h # g => gpu'[h] = gpu[h]
    BY <2>1 DEF Released, WatchTypeOK
  <2>3. gpu'[g].claimed = Unset /\ gpu[g].claimed = Unset
    BY <2>0, <2>2, GpuRecords
  <2>4. Waiting' \subseteq Waiting \cup {g}
    BY <2>2 DEF Waiting, Released
  <2> DEFINE X == Waiting \cup {g}
  <2>5. IsFiniteSet(X) /\ (Cardinality(X) = Cardinality(Waiting) \/ Cardinality(X) = Cardinality(Waiting) + 1)
    BY <1>w, FS_AddElement
  <2>6. Cardinality(Waiting') <= Cardinality(X) /\ Cardinality(Waiting') \in Nat
    <3> HIDE DEF X
    <3>1. Waiting' \subseteq X
      BY <2>4 DEF X
    <3> QED
      BY <2>5, <3>1, FS_Subset, FS_CardinalityType
  <2>7. Cardinality(Waiting') + Cardinality(Releasing') <= 1 + Others'
    <3> HIDE DEF X
    <3> QED
      BY <1>0, <1>e, <1>w, <2>0, <2>5, <2>6 DEF GpusInv
  <2>8. ASSUME NEW h \in Gpus
        PROVE  /\ machines'[h] + Cardinality(Claiming(h)') <= 1 + Others'
               /\ machines'[h] > 0 <=> gpu'[h].claimed # Unset
    <3>1. machines[h] + Cardinality(Claiming(h)') <= 1 + Others'
      BY <1>0, <1>e, <2>0 DEF GpusInv
    <3>2. gpu'[h].claimed = gpu[h].claimed
      BY <2>2, <2>3
    <3> QED
      BY <2>0, <3>1, <3>2 DEF GpusInv
  <2> QED
    BY <2>7, <2>8 DEF GpusInv
<1>6. ASSUME NEW c \in Calls, ClaimCommits(c) PROVE GpusInv'
  <2>0. WatchEnds(c) /\ wcall[c].pc = "claim" /\ wcall[c].now \in Beats
    BY <1>6, WatchIs DEF ClaimCommits
  <2>1. PICK g \in Gpus : g = wcall[c].id /\ g \in Released
    BY <2>0 DEF FlightInv, Released
  <2>2. gpu[g] \in [released: Beats, claimed: Beats \cup {Unset}]
    BY <2>1 DEF Released, WatchTypeOK
  <2>3. gpu'[g].claimed = wcall[c].now /\ \A h \in Gpus : h # g => gpu'[h] = gpu[h]
    BY <1>6, <2>1, <2>2 DEF ClaimCommits, WatchTypeOK
  <2>4. machines'[g] = machines[g] + 1 /\ \A h \in Gpus : h # g => machines'[h] = machines[h]
    BY <1>6, <2>1 DEF ClaimCommits, WatchTypeOK
  <2>5. gpu'[g].claimed # Unset
    BY <2>0, <2>3, TimesAre
  <2>6. Waiting' \subseteq Waiting
    BY <2>3, <2>5 DEF Waiting, Released
  <2>7. Cardinality(Waiting') <= Cardinality(Waiting) /\ Cardinality(Waiting') \in Nat
    BY <1>w, <2>6, FS_Subset, FS_CardinalityType
  <2>8. Cardinality(Waiting') + Cardinality(Releasing') <= 1 + Others'
    BY <1>0, <1>e, <1>w, <2>0, <2>7 DEF GpusInv
  <2>9. ASSUME NEW h \in Gpus
        PROVE  /\ machines'[h] + Cardinality(Claiming(h)') <= 1 + Others'
               /\ machines'[h] > 0 <=> gpu'[h].claimed # Unset
    <3>1. CASE h = g
      <4>1. Cardinality(Claiming(g)') = Cardinality(Claiming(g)) - 1
        BY <1>e, <2>0, <2>1
      <4> QED
        BY <1>0, <1>e, <2>0, <2>4, <2>5, <3>1, <4>1 DEF GpusInv
    <3>2. CASE h # g
      BY <1>0, <1>e, <2>0, <2>3, <2>4, <3>2 DEF GpusInv
    <3> QED
      BY <3>1, <3>2
  <2> QED
    BY <2>8, <2>9 DEF GpusInv
<1> QED
  BY <1>2, <1>3, <1>4, <1>5, <1>6, WatchCases

LEMMA RecentIsSince == ASSUME WatchTypeOK PROVE Recent = Since(RecentFrom) /\ RecentFrom \in Int
<1>1. beat \in Nat /\ Window \in Nat /\ \A t \in Beats : t \in Nat
  BY TimesAre, WatchIs
<1>2. RecentFrom = beat - Window + 1 /\ RecentFrom \in Int
  BY <1>1 DEF RecentFrom
<1>3. \A t \in Beats : t + Window > beat <=> t >= RecentFrom
  BY <1>1, <1>2
<1> QED
  BY <1>2, <1>3 DEF Recent, Since

LEMMA RowsAreCounted ==
    ASSUME WatchTypeOK
    PROVE  \A k : Counted(powers, Since(k)) \in Nat /\ Counted(history, Since(k)) \in Nat
<1> SUFFICES ASSUME NEW k PROVE Counted(powers, Since(k)) \in Nat /\ Counted(history, Since(k)) \in Nat
  OBVIOUS
<1>1. IsFiniteSet(Since(k)) /\ Since(k) \in SUBSET Beats
  BY TimesAre
<1>2. \A t \in Since(k) : powers[t] \in Nat /\ history[t] \in Nat
  BY <1>1, WatchIs
<1> QED
  BY <1>1, <1>2, NumberedFinite DEF Counted

LEMMA PowersStep ==
    ASSUME WatchTypeOK, FlightInv, PowersInv, [WatchNext]_watchVars PROVE PowersInv'
<1>0. /\ PerWindow[activity] \in Nat /\ Others \in Nat /\ Others' \in Int
      /\ Cardinality(Watching) \in Nat /\ Cardinality(Watching') \in Nat
      /\ \A k : Counted(powers, Since(k)) \in Nat /\ Counted(history, Since(k)) \in Nat
      /\ RecentFrom \in Int /\ beat \in Nat
  <2>1. Watching \in SUBSET Calls /\ Watching' \in SUBSET Calls
    BY DEF Watching
  <2>2. Others \in Nat /\ Others' \in Int
    BY CallsAreCounted DEF Others
  <2> QED
    BY <2>1, <2>2, WatchIs, CallsAreCounted, RowsAreCounted, RecentIsSince
\* No row is made.
<1>1. ASSUME UNCHANGED <<activity, powers, history>>,
             activity = "youtube" => Counted(powers, Since(RecentFrom')) + Cardinality(Watching') <= PerWindow[activity] + Others'
      PROVE  PowersInv'
  <2>1. \A k : Counted(powers, Since(k))' = Counted(powers, Since(k)) /\ Counted(history, Since(k))' = Counted(history, Since(k))
    BY <1>1 DEF Counted, Since
  <2>2. Counted(powers, Since(RecentFrom))' = Counted(powers, Since(RecentFrom'))
    BY <1>1 DEF Counted, Since
  <2> QED
    BY <1>1, <2>1, <2>2 DEF PowersInv
<1>2. CASE UNCHANGED watchVars
  <2>1. RecentFrom' = RecentFrom /\ Watching' = Watching /\ Others' = Others
    BY <1>2 DEF watchVars, RecentFrom, Watching, Others
  <2> QED
    BY <1>1, <1>2, <2>1 DEF watchVars, PowersInv
<1>3. CASE TimePasses
  <2>1. Watching' = Watching /\ Others' = Others /\ UNCHANGED <<activity, powers, history>>
    BY <1>3 DEF TimePasses, Watching, Others
  <2>2. RecentFrom' = RecentFrom + 1
    BY <1>0, <1>3, TimesAre DEF TimePasses, RecentFrom
  <2>3. Since(RecentFrom') \subseteq Since(RecentFrom)
    <3>1. \A t \in Beats : t \in Nat
      BY TimesAre
    <3>2. \A t \in Beats : t >= RecentFrom' => t >= RecentFrom
      BY <1>0, <2>2, <3>1
    <3> QED
      BY <3>2 DEF Since
  <2> DEFINE old == Since(RecentFrom)
             new == Since(RecentFrom')
  <2>4. IsFiniteSet(old) /\ \A t \in old : powers[t] \in Nat
    BY TimesAre, WatchIs DEF Since
  <2>5. Counted(powers, new) <= Counted(powers, old)
    BY <2>3, <2>4, NumberedAbove DEF Counted
  <2>6. Counted(powers, new) \in Nat /\ Counted(powers, old) \in Nat
    BY <1>0
  <2>7. activity = "youtube" => Counted(powers, new) + Cardinality(Watching') <= PerWindow[activity] + Others'
    <3>1. activity = "youtube" => Counted(powers, old) + Cardinality(Watching) <= PerWindow[activity] + Others
      BY DEF PowersInv
    <3> HIDE DEF old, new
    <3> QED
      BY <1>0, <2>1, <2>5, <2>6, <3>1
  <2> QED
    BY <1>1, <2>1, <2>7
<1>4. ASSUME NEW c \in Calls, NEW pc \in {"beat", "watch", "release", "claim"}, NEW id \in Gpus \cup {0},
             Passes(c, WCall(pc, beat, id)),
             pc = "watch" => activity = "youtube" /\ BelowLimit(Counted(history, Recent))
      PROVE  PowersInv'
  <2>1. UNCHANGED <<activity, powers, history, beat>> /\ RecentFrom' = RecentFrom
    BY <1>4 DEF Passes, RecentFrom
  <2>2. Others <= Others' /\ Cardinality(Watching') <= 1 + Others' /\ (pc # "watch" => Watching' = Watching)
    BY <1>4, PassesJoins
  <2>3. Counted(powers, Since(RecentFrom)) <= Counted(history, Since(RecentFrom))
    BY <1>0 DEF PowersInv
  <2>4. pc = "watch" => Counted(history, Since(RecentFrom)) < PerWindow[activity]
    BY <1>4, RecentIsSince DEF BelowLimit
  <2>5. activity = "youtube" => Counted(powers, Since(RecentFrom)) + Cardinality(Watching') <= PerWindow[activity] + Others'
    <3>1. CASE pc = "watch"
      BY <1>0, <2>2, <2>3, <2>4, <3>1
    <3>2. CASE pc # "watch"
      BY <1>0, <2>2, <3>2 DEF PowersInv
    <3> QED
      BY <3>1, <3>2
  <2> QED
    BY <1>1, <2>1, <2>5
<1>5. ASSUME NEW c \in Calls, HeartbeatCommits(c) \/ GpuIsReleased(c) \/ ClaimCommits(c) \/ WatchFails(c) PROVE PowersInv'
  <2>1. WatchEnds(c) /\ UNCHANGED <<powers, history>>
    BY <1>5 DEF HeartbeatCommits, GpuIsReleased, ClaimCommits, WatchFails
  <2>2. Watching' = Watching \ {c} /\ Others' = Others /\ UNCHANGED <<activity, beat>>
    BY <2>1, EndsTakesOut
  <2>3. Cardinality(Watching') <= Cardinality(Watching) /\ RecentFrom' = RecentFrom
    BY <2>2, OneFewer, WatchCounted DEF RecentFrom
  <2>4. activity = "youtube" => Counted(powers, Since(RecentFrom)) + Cardinality(Watching') <= PerWindow[activity] + Others'
    BY <1>0, <2>2, <2>3 DEF PowersInv
  <2> QED
    BY <1>1, <2>1, <2>2, <2>3, <2>4
\* The power is dated by the check, its row of the history by the commit.
<1>6. ASSUME NEW c \in Calls, RewardCommits(c) PROVE PowersInv'
  <2>0. WatchEnds(c) /\ wcall[c].pc = "watch" /\ activity = "youtube"
    BY <1>6 DEF RewardCommits, FlightInv
  <2>1. PICK now \in Beats : now = wcall[c].now /\ now <= beat
    BY WatchIs DEF FlightInv
  <2>2. powers'[now] = powers[now] + 1 /\ \A t \in Beats : t # now => powers'[t] = powers[t]
    BY <1>6, <2>1 DEF RewardCommits, WatchTypeOK
  <2>3. history'[beat] = history[beat] + 1 /\ \A t \in Beats : t # beat => history'[t] = history[t]
    BY <1>6 DEF RewardCommits, WatchTypeOK
  <2>4. Watching' = Watching \ {c} /\ Others' = Others /\ UNCHANGED <<activity, beat>>
    BY <2>0, EndsTakesOut
  <2>5. Cardinality(Watching') = Cardinality(Watching) - 1 /\ RecentFrom' = RecentFrom
    <3>1. c \in Watching
      BY <2>0 DEF Watching
    <3> QED
      BY <2>4, <3>1, OneFewer, WatchCounted DEF RecentFrom
  <2>6. ASSUME NEW k \in Int
        PROVE  /\ now \in Since(k) => /\ beat \in Since(k)
                                      /\ Counted(powers, Since(k))' = Counted(powers, Since(k)) + 1
               /\ now \notin Since(k) => Counted(powers, Since(k))' = Counted(powers, Since(k))
               /\ beat \in Since(k) => Counted(history, Since(k))' = Counted(history, Since(k)) + 1
               /\ beat \notin Since(k) => Counted(history, Since(k))' = Counted(history, Since(k))
    <3>0. /\ IsFiniteSet(Since(k)) /\ Since(k) \subseteq Beats /\ Since(k)' = Since(k)
          /\ \A t \in Since(k) : powers[t] \in Nat /\ history[t] \in Nat
      BY TimesAre, WatchIs DEF Since
    <3>1. now \in Since(k) => beat \in Since(k)
      BY <2>1, TimesAre, WatchIs DEF Since
    <3>2. now \in Since(k) => Counted(powers, Since(k))' = Counted(powers, Since(k)) + 1
      BY <2>2, <3>0, NumberedGrows DEF Counted
    <3>3. now \notin Since(k) => Counted(powers, Since(k))' = Counted(powers, Since(k))
      BY <2>2, <3>0, NumberedSame DEF Counted
    <3>4. beat \in Since(k) => Counted(history, Since(k))' = Counted(history, Since(k)) + 1
      BY <2>3, <3>0, NumberedGrows DEF Counted
    <3>5. beat \notin Since(k) => Counted(history, Since(k))' = Counted(history, Since(k))
      BY <2>3, <3>0, NumberedSame DEF Counted
    <3> QED
      BY <3>1, <3>2, <3>3, <3>4, <3>5
  <2>7. \A k \in Int : Counted(powers, Since(k))' <= Counted(history, Since(k))'
    <3> SUFFICES ASSUME NEW k \in Int PROVE Counted(powers, Since(k))' <= Counted(history, Since(k))'
      OBVIOUS
    <3>1. Counted(powers, Since(k)) <= Counted(history, Since(k))
      BY DEF PowersInv
    <3> QED
      BY <1>0, <2>6, <3>1
  <2>8. Counted(powers, Since(RecentFrom))' + Cardinality(Watching') <= PerWindow[activity] + Others'
    <3>1. Counted(powers, Since(RecentFrom)) + Cardinality(Watching) <= PerWindow[activity] + Others
      BY <2>0 DEF PowersInv
    <3>2. PICK k \in Int : k = RecentFrom
      BY <1>0
    <3>3. Counted(powers, Since(RecentFrom))' = Counted(powers, Since(k))'
      BY <2>5, <3>2
    <3>4. Counted(powers, Since(k))' <= Counted(powers, Since(k)) + 1 /\ Counted(powers, Since(k))' \in Nat
      BY <1>0, <2>6
    <3> QED
      BY <1>0, <2>4, <2>5, <3>1, <3>2, <3>3, <3>4
  <2> QED
    BY <2>0, <2>4, <2>7, <2>8 DEF PowersInv
<1> QED
  BY <1>2, <1>3, <1>4, <1>5, <1>6, WatchCases

LEMMA WatchStep == ASSUME WatchInv, [WatchNext]_watchVars PROVE WatchInv'
BY WatchTypes, FlightStep, EarnedStep, SpentStep, PowersStep, GpusStep DEF WatchInv

LEMMA WatchingIsPaid ==
    ASSUME WatchInv
    PROVE  TimeIsEarned /\ TimeCoversClaims /\ LivePowersAreLimited /\ MachinesMatchClaims /\ GpusWaitInTurn
<1>0. /\ Others \in Nat /\ Cardinality(Spending) \in Nat /\ Cardinality(Watching) \in Nat /\ Cardinality(Releasing) \in Nat
      /\ \A g : Cardinality(Claiming(g)) \in Nat
      /\ seconds \in Int /\ Cost[activity] \in Nat /\ Claims \in Nat /\ beat \in Int /\ lastBeat \in Int
      /\ \A g \in Gpus : machines[g] \in Nat
  BY WatchCounted, WatchIs, ClaimsAreCounted DEF WatchInv
<1>1. TimeIsEarned
  <2>1. Cost[activity] * Claims \in Int
    BY <1>0
  <2>2. crowd \/ seconds + Cost[activity] * Claims <= lastBeat + 1
    BY DEF WatchInv, EarnedInv
  <2>3. lastBeat <= beat
    BY DEF WatchInv, EarnedInv
  <2> QED
    BY <1>0, <2>1, <2>2, <2>3 DEF TimeIsEarned
<1>2. TimeCoversClaims
  <2>1. seconds >= Cost[activity] * (Cardinality(Spending) - Others)
    BY DEF WatchInv, SpentInv
  <2>2. /\ Cost[activity] * (-Others) <= Cost[activity] * (Cardinality(Spending) - Others)
        /\ Cost[activity] * (-Others) \in Int /\ Cost[activity] * (Cardinality(Spending) - Others) \in Int
    BY <1>0, TimesGrowsInt
  <2>3. Cost[activity] * (-Others) = -(Cost[activity] * Others)
    BY <1>0, TimesOneLess
  <2> QED
    BY <1>0, <2>1, <2>2, <2>3 DEF TimeCoversClaims
<1>3. LivePowersAreLimited
  <2>0. PerWindow["youtube"] \in Nat /\ Recent \in SUBSET Beats /\ IsFiniteSet(Recent)
    <3>1. "youtube" \in Types
      BY DEF Types
    <3>2. Recent \in SUBSET Beats /\ IsFiniteSet(Beats)
      BY TimesAre DEF Recent
    <3> QED
      BY <3>1, <3>2, TimesAre, FS_Subset
  <2>1. CASE activity = "youtube"
    <3>1. Counted(powers, Since(RecentFrom)) + Cardinality(Watching) <= PerWindow["youtube"] + Others
      BY <2>1 DEF WatchInv, PowersInv
    <3>2. Counted(powers, Since(RecentFrom)) \in Nat /\ Recent = Since(RecentFrom)
      BY RowsAreCounted, RecentIsSince DEF WatchInv
    <3> QED
      BY <1>0, <2>0, <3>1, <3>2 DEF LivePowersAreLimited
  <2>2. CASE activity # "youtube"
    <3>1. \A t \in Recent : powers[t] = 0
      BY <2>0, <2>2 DEF WatchInv, PowersInv
    <3>2. Numbered(powers, Recent) = {}
      BY <3>1 DEF Numbered
    <3>3. Counted(powers, Recent) = 0
      BY <3>2, FS_EmptySet DEF Counted
    <3> QED
      BY <1>0, <2>0, <3>3 DEF LivePowersAreLimited
  <2> QED
    BY <2>1, <2>2
<1>4. MachinesMatchClaims
  BY <1>0 DEF WatchInv, GpusInv, MachinesMatchClaims
<1>5. GpusWaitInTurn
  <2>1. Waiting \in SUBSET Gpus /\ IsFiniteSet(Gpus)
    BY TimesAre DEF Waiting, Released
  <2>2. Cardinality(Waiting) \in Nat
    BY <2>1, FS_Subset, FS_CardinalityType
  <2> QED
    BY <1>0, <2>2 DEF WatchInv, GpusInv, GpusWaitInTurn
<1> QED
  BY <1>1, <1>2, <1>3, <1>4, <1>5

\* Focused time is earned in real time and covers the claims, the powers alive
\* stay within the daily limit, and each GPU gives one machine in its turn, up
\* to one more for each request that may have overlapped.
THEOREM WatchIsFair ==
    WatchSpec => [](/\ WatchTypeOK
                    /\ TimeIsEarned /\ TimeCoversClaims /\ LivePowersAreLimited
                    /\ MachinesMatchClaims /\ GpusWaitInTurn)
<1>1. WatchInv /\ [WatchNext]_watchVars => WatchInv'
  BY WatchStep
<1>2. WatchInv => /\ WatchTypeOK
                  /\ TimeIsEarned /\ TimeCoversClaims /\ LivePowersAreLimited
                  /\ MachinesMatchClaims /\ GpusWaitInTurn
  BY WatchingIsPaid DEF WatchInv
<1> QED
  BY <1>1, <1>2, WatchBegins, PTL DEF WatchSpec
-----------------------------------------------------------------------------
(* The daily check-in.                                                      *)

Paid(h) == h \in 1 .. Len(payments)

\* Where the hashes are: a payment is held by one page at most, and a hash
\* that a page has not posted is known to nobody else.
HashesInv ==
    /\ \A p \in Pages : page[p].pc \in {"loading", "shown"} <=> page[p].hash = 0
    /\ \A p \in Pages : page[p].hash # 0 => Paid(page[p].hash)
    /\ \A p, q \in Pages : page[p].hash # 0 /\ page[p].hash = page[q].hash => p = q
    /\ \A c \in Calls : kcall[c].pc # "idle" => Paid(kcall[c].hash)
    /\ \A r \in checkins : Paid(r.hash)
    /\ \A p \in Pages : page[p].pc = "paying" =>
          /\ \A c \in Calls : kcall[c].pc # "idle" => kcall[c].hash # page[p].hash
          /\ \A r \in checkins : r.hash # page[p].hash
    /\ \A c, d \in Calls : c # d /\ kcall[c].pc # "idle" /\ kcall[d].pc # "idle" /\ kcall[c].hash = kcall[d].hash
          => kcall[c].hash \in reposted
    /\ \A c \in Calls, r \in checkins : kcall[c].pc # "idle" /\ r.hash = kcall[c].hash => r.hash \in reposted

\* Rows are of the day of the payment or of a later one.
DaysInv ==
    /\ \A h \in 1 .. Len(payments) : payments[h] <= today
    /\ \A r \in checkins : payments[r.hash] <= r.day /\ r.day <= today
    /\ \A c \in Calls : kcall[c].pc \in {"look", "create"} =>
          payments[kcall[c].hash] <= kcall[c].day /\ kcall[c].day <= today

CheckinInv == CheckinTypeOK /\ HashesInv /\ DaysInv

LEMMA CheckinBegins == CheckinInit => CheckinInv
<1> SUFFICES ASSUME CheckinInit PROVE CheckinInv
  OBVIOUS
<1>1. /\ today = 0 /\ 0 \in Dates /\ payments = <<>> /\ checkins = {} /\ lost = {} /\ reposted = {}
      /\ \A p \in Pages : page[p] = Page("loading", FALSE, 0)
      /\ \A c \in Calls : kcall[c] = KIdle
      /\ DOMAIN page = Pages /\ DOMAIN kcall = Calls
  BY CheckinAssumption DEF CheckinInit, Dates
<1>2. CheckinTypeOK
  <2>1. payments \in Seq(Dates) /\ Len(payments) = 0 /\ 0 <= MaxPayments
    BY <1>1, CheckinAssumption
  <2>2. Page("loading", FALSE, 0) \in [pc: {"loading", "shown", "paying", "confirming"}, checked: BOOLEAN, hash: Hashes \cup {0}]
    BY DEF Page
  <2>3. KIdle \in [pc: {"idle", "sent", "look", "create"}, page: Pages \cup {None}, day: Dates, hash: Hashes \cup {0}]
    BY <1>1 DEF KIdle, KCall
  <2> QED
    BY <1>1, <2>1, <2>2, <2>3 DEF CheckinInit, CheckinTypeOK
<1>3. HashesInv
  BY <1>1 DEF HashesInv, Page, KIdle, KCall
<1>4. DaysInv
  BY <1>1 DEF DaysInv, KIdle, KCall
<1> QED
  BY <1>2, <1>3, <1>4 DEF CheckinInv

\* What an answer changes.
LEMMA TellsWhat ==
    ASSUME CheckinTypeOK, NEW c \in Calls, NEW ok \in BOOLEAN, Tells(c, ok)
    PROVE  /\ kcall' = [kcall EXCEPT ![c] = KIdle] /\ kcall'[c].pc = "idle"
           /\ \A d \in Calls : d # c => kcall'[d] = kcall[d]
           /\ DOMAIN page' = Pages
           /\ \A p \in Pages :
                 \/ page'[p] = page[p]
                 \/ /\ page'[p].pc = (IF ok THEN "loading" ELSE "shown") /\ page'[p].hash = 0
                    /\ page[p].pc = "confirming" /\ page[p].hash = kcall[c].hash /\ kcall[c].page = p
                    /\ ~ok => lost' = lost \cup {payments[kcall[c].hash]}
           /\ lost' = lost \/ lost' = lost \cup {payments[kcall[c].hash]}
<1> DEFINE p == kcall[c].page
           heard == p # None /\ page[p].pc = "confirming" /\ page[p].hash = kcall[c].hash
           after == Page(IF ok THEN "loading" ELSE "shown", FALSE, 0)
<1>1. /\ kcall' = [kcall EXCEPT ![c] = KIdle]
      /\ page' = IF ~heard THEN page ELSE [page EXCEPT ![p] = after]
      /\ lost' = IF heard /\ ~ok THEN lost \cup {payments[kcall[c].hash]} ELSE lost
  BY DEF Tells
<1>2. DOMAIN kcall = Calls /\ DOMAIN page = Pages /\ KIdle.pc = "idle"
  BY DEF CheckinTypeOK, KIdle, KCall
<1>3. after.pc = (IF ok THEN "loading" ELSE "shown") /\ after.hash = 0
  BY DEF Page
<1> HIDE DEF after
<1>4. CASE heard
  BY <1>1, <1>2, <1>3, <1>4
<1>5. CASE ~heard
  BY <1>1, <1>2, <1>5
<1> QED
  BY <1>4, <1>5

LEMMA CheckinTypes == ASSUME CheckinTypeOK, HashesInv, [CheckinNext]_checkinVars PROVE CheckinTypeOK'
<1> DEFINE PageRows == [pc: {"loading", "shown", "paying", "confirming"}, checked: BOOLEAN, hash: Hashes \cup {0}]
           KRows == [pc: {"idle", "sent", "look", "create"}, page: Pages \cup {None}, day: Dates, hash: Hashes \cup {0}]
<1>0. /\ today \in Dates /\ 0 \in Dates /\ Dates \subseteq Nat /\ payments \in Seq(Dates) /\ KIdle \in KRows
      /\ \A h : Paid(h) => payments[h] \in Dates /\ h \in Hashes
      /\ \A pc \in {"loading", "shown"}, b \in BOOLEAN : Page(pc, b, 0) \in PageRows
  BY CheckinAssumption DEF CheckinTypeOK, Dates, KIdle, KCall, Paid, Hashes, Page
<1>1. CASE UNCHANGED checkinVars
  BY <1>1 DEF CheckinTypeOK, checkinVars
<1>2. CASE NightPasses
  BY <1>2, CheckinAssumption DEF NightPasses, CheckinTypeOK, Dates
<1>3. ASSUME NEW p \in Pages, openPage(p) PROVE CheckinTypeOK'
  <2>1. page[p].hash # 0 => payments[page[p].hash] \in Dates
    BY <1>0 DEF HashesInv
  <2> QED
    BY <1>0, <1>3, <2>1 DEF openPage, CheckinTypeOK
<1>4. ASSUME NEW p \in Pages, fetchStatus(p) PROVE CheckinTypeOK'
  BY <1>0, <1>4 DEF fetchStatus, CheckinTypeOK, CheckedOn
<1>5. ASSUME NEW p \in Pages, handlePayCheckin(p) PROVE CheckinTypeOK'
  <2>1. payments' \in Seq(Dates) /\ Len(payments') = Len(payments) + 1 /\ Len(payments) \in Nat
    BY <1>0, <1>5 DEF handlePayCheckin
  <2>2. Page("paying", FALSE, Len(payments) + 1) \in PageRows
    BY <1>5, <2>1, CheckinAssumption DEF Page, Hashes, handlePayCheckin
  <2>3. Len(payments') <= MaxPayments
    BY <1>5, <2>1, CheckinAssumption DEF handlePayCheckin
  <2>4. page' \in [Pages -> PageRows]
    BY <1>5, <2>2 DEF handlePayCheckin, CheckinTypeOK
  <2> QED
    BY <1>5, <2>1, <2>3, <2>4 DEF handlePayCheckin, CheckinTypeOK
<1>6. ASSUME NEW p \in Pages, NEW c \in Calls, confirmPayment(p, c) \/ Repost(p, c) PROVE CheckinTypeOK'
  <2>1. KCall("sent", p, 0, page[p].hash) \in KRows
    BY <1>0 DEF KCall, CheckinTypeOK
  <2>2. kcall' \in [Calls -> KRows] /\ page' \in [Pages -> PageRows]
    <3>1. CASE confirmPayment(p, c)
      BY <2>1, <3>1 DEF confirmPayment, CheckinTypeOK
    <3>2. CASE Repost(p, c)
      BY <2>1, <3>2 DEF Repost, CheckinTypeOK
    <3> QED
      BY <1>6, <3>1, <3>2
  <2>3. reposted' \subseteq Hashes
    <3>1. page[p].pc = "confirming" => page[p].hash \in Hashes
      BY <1>0 DEF HashesInv
    <3> QED
      BY <1>6, <3>1 DEF confirmPayment, Repost, CheckinTypeOK
  <2> QED
    BY <1>6, <2>2, <2>3 DEF confirmPayment, Repost, CheckinTypeOK
<1>7. ASSUME NEW c \in Calls, confirmCheckin(c) PROVE CheckinTypeOK'
  BY <1>7 DEF confirmCheckin, CheckinTypeOK
<1>8. ASSUME NEW c \in Calls, kcall[c].pc # "idle", NEW ok \in BOOLEAN, Tells(c, ok)
      PROVE  kcall' \in [Calls -> KRows] /\ page' \in [Pages -> PageRows] /\ lost' \subseteq Dates
  <2>1. payments[kcall[c].hash] \in Dates /\ lost \subseteq Dates
    BY <1>0, <1>8 DEF HashesInv, CheckinTypeOK
  <2>2. page' \in [Pages -> PageRows]
    BY <1>0, <1>8 DEF Tells, CheckinTypeOK
  <2>3. lost' = lost \/ lost' = lost \cup {payments[kcall[c].hash]}
    BY <1>8, TellsWhat
  <2>4. kcall' \in [Calls -> KRows] /\ lost' \subseteq Dates
    BY <1>0, <1>8, <2>1, <2>3 DEF Tells, CheckinTypeOK
  <2> QED
    BY <2>2, <2>3, <2>4
<1>9. ASSUME NEW c \in Calls, CheckinReads(c) PROVE CheckinTypeOK'
  <2>1. CASE \E ok \in BOOLEAN : Tells(c, ok)
    BY <1>8, <1>9, <2>1 DEF CheckinReads, CheckinTypeOK
  <2>2. CASE kcall' = [kcall EXCEPT ![c].pc = "create"] /\ UNCHANGED <<page, lost>>
    BY <1>9, <2>2 DEF CheckinReads, CheckinTypeOK
  <2> QED
    BY <1>9, <2>1, <2>2 DEF CheckinReads
<1>10. ASSUME NEW c \in Calls, CheckinCreates(c) PROVE CheckinTypeOK'
  <2>1. RowOf(kcall[c]) \in [day: Dates, hash: Hashes]
    BY <1>0, <1>10 DEF RowOf, Row, CheckinCreates, CheckinTypeOK, HashesInv
  <2> QED
    BY <1>8, <1>10, <2>1 DEF CheckinCreates, CheckinTypeOK
<1>11. ASSUME NEW c \in Calls, CheckinFails(c) PROVE CheckinTypeOK'
  BY <1>8, <1>11 DEF CheckinFails, CheckinTypeOK
<1> QED
  BY <1>1, <1>2, <1>3, <1>4, <1>5, <1>6, <1>7, <1>9, <1>10, <1>11 DEF CheckinNext

LEMMA HashesAnswered ==
    ASSUME CheckinTypeOK, HashesInv, NEW c \in Calls, NEW ok \in BOOLEAN, Tells(c, ok),
           UNCHANGED <<payments, reposted>>,
           \A r \in checkins' : r \in checkins \/ (r.hash = kcall[c].hash /\ kcall[c].pc # "idle")
    PROVE  HashesInv'
<1>1. /\ kcall'[c].pc = "idle" /\ \A d \in Calls : d # c => kcall'[d] = kcall[d]
      /\ \A p \in Pages : \/ page'[p] = page[p]
                          \/ page'[p].pc \in {"loading", "shown"} /\ page'[p].hash = 0
  BY TellsWhat DEF Page
<1>2. \A h : Paid(h)' <=> Paid(h)
  BY DEF Paid
<1>3. /\ \A p \in Pages : page'[p].pc \in {"loading", "shown"} <=> page'[p].hash = 0
      /\ \A p \in Pages : page'[p].hash # 0 => Paid(page[p].hash)'
      /\ \A p, q \in Pages : page'[p].hash # 0 /\ page'[p].hash = page'[q].hash => p = q
  BY <1>1, <1>2 DEF HashesInv
<1>4. \A p \in Pages : page'[p].pc = "paying" =>
          /\ \A d \in Calls : kcall'[d].pc # "idle" => kcall'[d].hash # page'[p].hash
          /\ \A r \in checkins' : r.hash # page'[p].hash
  BY <1>1 DEF HashesInv
<1>5. /\ \A d \in Calls : kcall'[d].pc # "idle" => Paid(kcall[d].hash)'
      /\ \A r \in checkins' : Paid(r.hash)'
  BY <1>1, <1>2 DEF HashesInv
<1>6. \A d \in Calls, r \in checkins' : kcall'[d].pc # "idle" /\ r.hash = kcall'[d].hash => r.hash \in reposted'
  BY <1>1 DEF HashesInv
<1>7. \A d, e \in Calls : d # e /\ kcall'[d].pc # "idle" /\ kcall'[e].pc # "idle" /\ kcall'[d].hash = kcall'[e].hash
          => kcall'[d].hash \in reposted'
  BY <1>1 DEF HashesInv
<1> QED
  BY <1>3, <1>4, <1>5, <1>6, <1>7 DEF HashesInv

LEMMA HashesStep == ASSUME CheckinTypeOK, HashesInv, [CheckinNext]_checkinVars PROVE HashesInv'
<1>0. DOMAIN page = Pages /\ DOMAIN kcall = Calls
  BY DEF CheckinTypeOK
<1>1. CASE UNCHANGED <<payments, checkins, page, kcall, reposted>>
  BY <1>1 DEF HashesInv, Paid
<1>2. ASSUME NEW p \in Pages, openPage(p) \/ fetchStatus(p) PROVE HashesInv'
  <2>1. /\ page'[p].pc \in {"loading", "shown"} /\ page'[p].hash = 0 /\ \A q \in Pages : q # p => page'[q] = page[q]
        /\ UNCHANGED <<payments, checkins, kcall, reposted>>
    BY <1>0, <1>2 DEF openPage, fetchStatus, Page
  <2>2. \A h : Paid(h)' <=> Paid(h)
    BY <2>1 DEF Paid
  <2> QED
    BY <2>1, <2>2 DEF HashesInv
<1>3. ASSUME NEW p \in Pages, handlePayCheckin(p) PROVE HashesInv'
  <2> DEFINE n == Len(payments) + 1
  <2>1. /\ page'[p].pc = "paying" /\ page'[p].hash = n /\ \A q \in Pages : q # p => page'[q] = page[q]
        /\ UNCHANGED <<checkins, kcall, reposted>> /\ Len(payments') = n /\ Len(payments) \in Nat
    BY <1>0, <1>3 DEF handlePayCheckin, Page, CheckinTypeOK
  <2>2. n \in 1 .. Len(payments') /\ ~Paid(n) /\ n # 0 /\ \A h : Paid(h) => h \in 1 .. Len(payments')
    BY <2>1 DEF Paid
  <2> HIDE DEF n
  <2>3. \A q \in Pages : q # p => page[q].hash # n
    BY <2>2 DEF HashesInv
  <2>4. \A c \in Calls : kcall[c].pc # "idle" => kcall[c].hash # n
    BY <2>2 DEF HashesInv
  <2>5. \A r \in checkins : r.hash # n
    BY <2>2 DEF HashesInv
  <2>6. (\A h : Paid(h) <=> h \in 1 .. Len(payments))' /\ \A h : Paid(h) => h \in 1 .. Len(payments')
    BY <2>2 DEF Paid
  <2>7. /\ \A q \in Pages : page'[q].hash # 0 => page'[q].hash \in 1 .. Len(payments')
        /\ \A c \in Calls : kcall'[c].pc # "idle" => kcall'[c].hash \in 1 .. Len(payments')
        /\ \A r \in checkins' : r.hash \in 1 .. Len(payments')
    BY <2>1, <2>2, <2>6 DEF HashesInv
  <2>8. \A q \in Pages : page'[q].pc \in {"loading", "shown"} <=> page'[q].hash = 0
    BY <2>1, <2>2 DEF HashesInv
  <2>9. \A q, t \in Pages : page'[q].hash # 0 /\ page'[q].hash = page'[t].hash => q = t
    BY <2>1, <2>3 DEF HashesInv
  <2>10. \A q \in Pages : page'[q].pc = "paying" =>
          /\ \A c \in Calls : kcall'[c].pc # "idle" => kcall'[c].hash # page'[q].hash
          /\ \A r \in checkins' : r.hash # page'[q].hash
    BY <2>1, <2>4, <2>5 DEF HashesInv
  <2> QED
    BY <2>1, <2>7, <2>8, <2>9, <2>10 DEF HashesInv, Paid
<1>4. ASSUME NEW p \in Pages, NEW c \in Calls, confirmPayment(p, c) PROVE HashesInv'
  <2> DEFINE h == page[p].hash
  <2>1. /\ page[p].pc = "paying" /\ page'[p].pc = "confirming" /\ page'[p].hash = h
        /\ \A q \in Pages : q # p => page'[q] = page[q]
        /\ kcall[c].pc = "idle" /\ kcall'[c].pc = "sent" /\ kcall'[c].hash = h
        /\ \A d \in Calls : d # c => kcall'[d] = kcall[d]
        /\ UNCHANGED <<payments, checkins, reposted>>
    BY <1>0, <1>4 DEF confirmPayment, KCall, CheckinTypeOK
  <2>2. \A g : Paid(g)' <=> Paid(g)
    BY <2>1 DEF Paid
  <2>3. /\ h # 0 /\ Paid(h) /\ \A q \in Pages : page[q].hash = h => q = p
        /\ \A d \in Calls : kcall[d].pc # "idle" => kcall[d].hash # h
        /\ \A r \in checkins : r.hash # h
    BY <2>1 DEF HashesInv
  <2> HIDE DEF h
  <2> QED
    BY <2>1, <2>2, <2>3 DEF HashesInv
<1>5. ASSUME NEW p \in Pages, NEW c \in Calls, Repost(p, c) PROVE HashesInv'
  <2> DEFINE h == page[p].hash
  <2>1. /\ page[p].pc = "confirming" /\ UNCHANGED <<payments, checkins, page>>
        /\ kcall[c].pc = "idle" /\ kcall'[c].pc = "sent" /\ kcall'[c].hash = h
        /\ \A d \in Calls : d # c => kcall'[d].pc = kcall[d].pc /\ kcall'[d].hash = kcall[d].hash
        /\ reposted' = reposted \cup {h}
    BY <1>0, <1>5 DEF Repost, KCall, CheckinTypeOK
  <2>2. \A g : Paid(g)' <=> Paid(g)
    BY <2>1 DEF Paid
  <2>3. h # 0 /\ Paid(h) /\ \A q \in Pages : page[q].hash = h => q = p
    BY <2>1 DEF HashesInv
  <2> HIDE DEF h
  <2> QED
    BY <2>1, <2>2, <2>3 DEF HashesInv, h
<1>6. ASSUME NEW c \in Calls, UNCHANGED <<payments, checkins, page, reposted>>,
             \A d \in Calls : d # c => kcall'[d] = kcall[d],
             kcall[c].pc # "idle", kcall'[c].hash = kcall[c].hash
      PROVE  HashesInv'
  <2>1. \A g : Paid(g)' <=> Paid(g)
    BY <1>6 DEF Paid
  <2>2. \A d \in Calls : kcall'[d].hash = kcall[d].hash /\ (kcall'[d].pc # "idle" => kcall[d].pc # "idle")
    BY <1>6
  <2> QED
    BY <1>6, <2>1, <2>2 DEF HashesInv
<1>7. ASSUME NEW c \in Calls, confirmCheckin(c) PROVE HashesInv'
  <2>1. kcall'[c].hash = kcall[c].hash /\ \A d \in Calls : d # c => kcall'[d] = kcall[d]
    BY <1>7 DEF confirmCheckin, CheckinTypeOK
  <2> QED
    BY <1>6, <1>7, <2>1 DEF confirmCheckin
<1>8. ASSUME NEW c \in Calls, CheckinReads(c) PROVE HashesInv'
  <2>1. CASE \E ok \in BOOLEAN : Tells(c, ok)
    BY <1>8, <2>1, HashesAnswered DEF CheckinReads
  <2>2. CASE kcall' = [kcall EXCEPT ![c].pc = "create"] /\ UNCHANGED <<page, lost>>
    <3>1. kcall'[c].hash = kcall[c].hash /\ \A d \in Calls : d # c => kcall'[d] = kcall[d]
      BY <2>2 DEF CheckinTypeOK
    <3> QED
      BY <1>6, <1>8, <2>2, <3>1 DEF CheckinReads
  <2> QED
    BY <1>8, <2>1, <2>2 DEF CheckinReads
<1>9. ASSUME NEW c \in Calls, CheckinCreates(c) PROVE HashesInv'
  <2>1. \A r \in checkins' : r \in checkins \/ (r.hash = kcall[c].hash /\ kcall[c].pc # "idle")
    BY <1>9 DEF CheckinCreates, RowOf, Row
  <2> QED
    BY <1>9, <2>1, HashesAnswered DEF CheckinCreates
<1>10. ASSUME NEW c \in Calls, CheckinFails(c) PROVE HashesInv'
  BY <1>10, HashesAnswered DEF CheckinFails
<1> QED
  BY <1>1, <1>2, <1>3, <1>4, <1>5, <1>7, <1>8, <1>9, <1>10 DEF CheckinNext, checkinVars, NightPasses

LEMMA DaysStep == ASSUME CheckinTypeOK, HashesInv, DaysInv, [CheckinNext]_checkinVars PROVE DaysInv'
<1>0. /\ DOMAIN page = Pages /\ DOMAIN kcall = Calls /\ today \in Nat /\ payments \in Seq(Dates) /\ today \in Dates /\ Len(payments) \in Nat
      /\ \A h \in 1 .. Len(payments) : payments[h] \in Nat
      /\ \A c \in Calls : kcall[c].day \in Nat
      /\ \A r \in checkins : r.day \in Nat
  <2>1. Dates \subseteq Nat /\ payments \in Seq(Dates)
    BY DEF CheckinTypeOK, Dates
  <2>2. \A h \in 1 .. Len(payments) : payments[h] \in Dates
    BY <2>1
  <2>3. Len(payments) \in Nat
    BY <2>1
  <2>4. (\A c \in Calls : kcall[c].day \in Dates) /\ (\A r \in checkins : r.day \in Dates) /\ today \in Dates
    BY DEF CheckinTypeOK
  <2> QED
    BY <2>1, <2>2, <2>3, <2>4 DEF CheckinTypeOK
<1>1. CASE UNCHANGED <<today, payments, checkins, kcall>>
  BY <1>1 DEF DaysInv
<1>2. CASE NightPasses
  BY <1>0, <1>2 DEF NightPasses, DaysInv
<1>3. ASSUME NEW p \in Pages, handlePayCheckin(p) PROVE DaysInv'
  <2>1. /\ UNCHANGED <<today, checkins, kcall>> /\ Len(payments') = Len(payments) + 1
        /\ payments'[Len(payments) + 1] = today
        /\ \A h \in 1 .. Len(payments) : payments'[h] = payments[h]
    BY <1>0, <1>3 DEF handlePayCheckin
  <2>2. \A r \in checkins : payments'[r.hash] = payments[r.hash]
    BY <2>1 DEF HashesInv, Paid
  <2>3. \A c \in Calls : kcall[c].pc # "idle" => payments'[kcall[c].hash] = payments[kcall[c].hash]
    BY <2>1 DEF HashesInv, Paid
  <2>4. \A h \in 1 .. Len(payments') : payments'[h] <= today'
    BY <1>0, <2>1 DEF DaysInv
  <2> QED
    BY <2>1, <2>2, <2>3, <2>4 DEF DaysInv
<1>4. ASSUME NEW p \in Pages, NEW c \in Calls, confirmPayment(p, c) \/ Repost(p, c) PROVE DaysInv'
  <2>1. /\ UNCHANGED <<today, payments, checkins>> /\ kcall'[c].pc = "sent"
        /\ \A d \in Calls : d # c => kcall'[d].pc = kcall[d].pc /\ kcall'[d].hash = kcall[d].hash /\ kcall'[d].day = kcall[d].day
    BY <1>0, <1>4 DEF confirmPayment, Repost, KCall, CheckinTypeOK
  <2> QED
    BY <2>1 DEF DaysInv
<1>5. ASSUME NEW c \in Calls, confirmCheckin(c) PROVE DaysInv'
  <2>1. /\ UNCHANGED <<today, payments, checkins>> /\ kcall[c].pc = "sent"
        /\ kcall'[c].day = today /\ kcall'[c].hash = kcall[c].hash
        /\ \A d \in Calls : d # c => kcall'[d] = kcall[d]
    BY <1>5 DEF confirmCheckin, CheckinTypeOK
  <2>2. payments[kcall[c].hash] <= today
    BY <2>1 DEF HashesInv, DaysInv, Paid
  <2> QED
    BY <1>0, <2>1, <2>2 DEF DaysInv
<1>6. ASSUME NEW c \in Calls, UNCHANGED <<today, payments>>, kcall[c].pc \in {"look", "create"},
             \A d \in Calls : d # c => kcall'[d] = kcall[d],
             kcall'[c].pc = "idle" \/ (kcall'[c].day = kcall[c].day /\ kcall'[c].hash = kcall[c].hash),
             checkins' \subseteq checkins \cup {Row(kcall[c].day, kcall[c].hash)}
      PROVE  DaysInv'
  <2>1. payments[kcall[c].hash] <= kcall[c].day /\ kcall[c].day <= today
    BY <1>6 DEF DaysInv
  <2>2. \A r \in checkins' : payments[r.hash] <= r.day /\ r.day <= today
    BY <1>6, <2>1 DEF DaysInv, Row
  <2> QED
    BY <1>6, <2>1, <2>2 DEF DaysInv
<1>7. ASSUME NEW c \in Calls, CheckinReads(c) PROVE DaysInv'
  <2>1. CASE \E ok \in BOOLEAN : Tells(c, ok)
    BY <1>6, <1>7, <2>1, TellsWhat DEF CheckinReads
  <2>2. CASE kcall' = [kcall EXCEPT ![c].pc = "create"] /\ UNCHANGED <<page, lost>>
    <3>1. /\ kcall'[c].hash = kcall[c].hash /\ kcall'[c].day = kcall[c].day
          /\ \A d \in Calls : d # c => kcall'[d] = kcall[d]
      BY <2>2 DEF CheckinTypeOK
    <3> QED
      BY <1>6, <1>7, <2>2, <3>1 DEF CheckinReads
  <2> QED
    BY <1>7, <2>1, <2>2 DEF CheckinReads
<1>8. ASSUME NEW c \in Calls, CheckinCreates(c) \/ CheckinFails(c) PROVE DaysInv'
  <2>1. \E ok \in BOOLEAN : Tells(c, ok)
    BY <1>8 DEF CheckinCreates, CheckinFails
  <2> QED
    BY <1>6, <1>8, <2>1, TellsWhat DEF CheckinCreates, CheckinFails, RowOf
<1> QED
  BY <1>1, <1>2, <1>3, <1>4, <1>5, <1>7, <1>8 DEF CheckinNext, checkinVars, openPage, fetchStatus

\* A confirmation answered with ok.
LEMMA OkCheckedIn ==
    ASSUME CheckinInv, [CheckinNext]_checkinVars, NEW c \in Calls,
           kcall[c].page \in Pages, kcall'[c] # kcall[c],
           page[kcall[c].page].pc = "confirming", page'[kcall[c].page].pc = "loading"
    PROVE  \/ \E r \in checkins' : r.day = kcall[c].day
           \/ kcall[c].hash \in reposted
<1> DEFINE q == kcall[c]
<1>0. CheckinTypeOK /\ HashesInv /\ DOMAIN kcall = Calls /\ DOMAIN page = Pages
  BY DEF CheckinInv, CheckinTypeOK
<1>1. ASSUME NEW d \in Calls, NEW ok \in BOOLEAN, Tells(d, ok) PROVE d = c /\ ok
  BY <1>0, <1>1, TellsWhat
<1>2. ASSUME UNCHANGED page \/ UNCHANGED kcall PROVE FALSE
  BY <1>2
<1>3. ASSUME NEW p \in Pages, NEW d \in Calls, confirmPayment(p, d) PROVE FALSE
  BY <1>0, <1>3 DEF confirmPayment
<1>4. ASSUME NEW d \in Calls, CheckinReads(d)
      PROVE  \E r \in checkins' : r.day = q.day
  <2>1. (CheckedOn(kcall[d].day) /\ Tells(d, TRUE)) \/ Tells(d, FALSE)
    BY <1>2, <1>4 DEF CheckinReads
  <2>2. d = c /\ CheckedOn(q.day)
    BY <1>1, <2>1
  <2> QED
    BY <1>4, <2>2 DEF CheckinReads, CheckedOn
<1>5. ASSUME NEW d \in Calls, CheckinCreates(d)
      PROVE  \/ \E r \in checkins' : r.day = q.day
             \/ q.hash \in reposted
  <2>1. d = c /\ q.pc = "create"
    BY <1>1, <1>5 DEF CheckinCreates
  <2>2. CASE \E r \in checkins : r.hash = q.hash
    BY <1>0, <2>1, <2>2 DEF HashesInv
  <2>3. CASE CheckedOn(q.day)
    BY <1>5, <2>1, <2>3 DEF CheckinCreates, CheckedOn
  <2>4. CASE ~CheckedOn(q.day) /\ ~\E r \in checkins : r.hash = q.hash
    <3>1. RowOf(q) \in checkins'
      BY <1>5, <2>1, <2>4 DEF CheckinCreates
    <3>2. RowOf(q).day = q.day
      BY DEF RowOf, Row
    <3> QED
      BY <3>1, <3>2
  <2> QED
    BY <2>2, <2>3, <2>4
<1>6. ASSUME NEW d \in Calls, CheckinFails(d) PROVE FALSE
  BY <1>1, <1>6 DEF CheckinFails
<1> QED
  BY <1>2, <1>3, <1>4, <1>5, <1>6
     DEF CheckinNext, checkinVars, NightPasses, openPage, fetchStatus, handlePayCheckin, Repost, confirmCheckin

-----------------------------------------------------------------------------
PaidOn(d) == {h \in 1 .. Len(payments) : payments[h] = d}

\* The pages that may still pay today: all of them as long as nobody has
\* checked in, but those that hold a payment of today; then only those that
\* show an older status.
Ready ==
    {p \in Pages : IF CheckedOn(today) THEN page[p].pc = "shown" /\ ~page[p].checked
                   ELSE page[p].hash # 0 => payments[page[p].hash] # today}

PaidInv ==
    lost = {} =>
        /\ \A d \in Dates : Cardinality(PaidOn(d)) <= Cardinality(Pages)
        /\ Cardinality(PaidOn(today)) + Cardinality(Ready) <= Cardinality(Pages)

LEMMA PaidCounted ==
    ASSUME CheckinTypeOK
    PROVE  /\ Cardinality(Pages) \in Nat
           /\ \A S \in SUBSET Pages : IsFiniteSet(S) /\ Cardinality(S) \in Nat /\ Cardinality(S) <= Cardinality(Pages)
           /\ \A d : IsFiniteSet(PaidOn(d)) /\ Cardinality(PaidOn(d)) \in Nat
<1>1. Len(payments) \in Nat
  BY DEF CheckinTypeOK
<1>2. IsFiniteSet(1 .. Len(payments))
  BY <1>1, FS_Interval
<1>3. \A d : IsFiniteSet(PaidOn(d))
  BY <1>2, FS_Subset DEF PaidOn
<1>4. \A S \in SUBSET Pages : IsFiniteSet(S) /\ Cardinality(S) <= Cardinality(Pages)
  BY CheckinAssumption, FS_Subset
<1> QED
  BY <1>3, <1>4, CheckinAssumption, FS_CardinalityType

LEMMA PaidBegins == CheckinInit => PaidInv
<1> SUFFICES ASSUME CheckinInit PROVE PaidInv
  OBVIOUS
<1>1. CheckinTypeOK /\ payments = <<>>
  BY CheckinBegins DEF CheckinInv, CheckinInit
<1>2. \A d : PaidOn(d) = {}
  BY <1>1 DEF PaidOn
<1>3. \A d : Cardinality(PaidOn(d)) = 0
  BY <1>2, FS_EmptySet
<1> QED
  BY <1>1, <1>3, PaidCounted DEF PaidInv, Ready

\* A step that pays nothing and makes no page ready.
LEMMA PaidStays ==
    ASSUME CheckinTypeOK, PaidInv, UNCHANGED <<payments, today>>, lost' = {} => lost = {} /\ Ready' \subseteq Ready
    PROVE  PaidInv'
<1>1. SUFFICES ASSUME lost' = {} PROVE PaidInv'
  BY DEF PaidInv
<1>2. lost = {} /\ Ready' \subseteq Ready /\ Ready \subseteq Pages
  BY <1>1 DEF Ready
<1>3. Cardinality(Ready') <= Cardinality(Ready) /\ Cardinality(Ready') \in Nat /\ Cardinality(Ready) \in Nat
  BY <1>2, PaidCounted, FS_Subset
<1>4. \A d : PaidOn(d)' = PaidOn(d)
  BY DEF PaidOn
<1>5. Cardinality(PaidOn(today)) \in Nat /\ Cardinality(Pages) \in Nat
  BY PaidCounted
<1> QED
  BY <1>2, <1>3, <1>4, <1>5 DEF PaidInv

LEMMA PaidStep == ASSUME CheckinInv, CheckinInv', PaidInv, [CheckinNext]_checkinVars PROVE PaidInv'
<1>0. /\ CheckinTypeOK /\ HashesInv /\ DaysInv /\ DOMAIN page = Pages /\ DOMAIN kcall = Calls
      /\ today \in Nat /\ Len(payments) \in Nat /\ payments \in Seq(Dates) /\ today \in Dates
      /\ \A h \in 1 .. Len(payments) : payments[h] \in Nat
  <2>1. CheckinTypeOK /\ HashesInv /\ DaysInv
    BY DEF CheckinInv
  <2>2. payments \in Seq(Dates) /\ today \in Dates /\ DOMAIN page = Pages /\ DOMAIN kcall = Calls
    BY <2>1 DEF CheckinTypeOK
  <2>3. \A h \in 1 .. Len(payments) : payments[h] \in Dates
    BY <2>2
  <2> QED
    BY <2>1, <2>2, <2>3 DEF Dates
<1>1. CASE UNCHANGED <<today, payments, checkins, page, lost>>
  BY <1>0, <1>1, PaidStays DEF Ready, CheckedOn
<1>2. CASE NightPasses
  <2>1. today' = today + 1 /\ UNCHANGED <<payments, lost>> /\ today' \in Dates
    BY <1>2 DEF NightPasses, CheckinInv, CheckinTypeOK
  <2>2. \A d : PaidOn(d)' = PaidOn(d)
    BY <2>1 DEF PaidOn
  <2>3. PaidOn(today') = {}
    BY <1>0, <2>1 DEF PaidOn, DaysInv
  <2>4. Ready' \in SUBSET Pages
    BY DEF Ready
  <2>5. PaidOn(today)' = PaidOn(today')
    BY <2>1 DEF PaidOn
  <2>6. Cardinality(PaidOn(today)') = 0 /\ Cardinality(Ready') \in Nat /\ Cardinality(Ready') <= Cardinality(Pages)
        /\ Cardinality(Pages) \in Nat
    BY <1>0, <2>3, <2>4, <2>5, FS_EmptySet, PaidCounted
  <2> QED
    BY <2>1, <2>2, <2>6 DEF PaidInv
<1>3. ASSUME NEW p \in Pages, openPage(p) PROVE PaidInv'
  <2>1. /\ UNCHANGED <<today, payments, checkins>> /\ page'[p].pc = "loading" /\ page'[p].hash = 0
        /\ \A r \in Pages : r # p => page'[r] = page[r]
        /\ (lost' = {} => lost = {} /\ page[p].hash = 0)
    BY <1>0, <1>3 DEF openPage, Page
  <2>2. lost' = {} => Ready' \subseteq Ready
    BY <2>1 DEF Ready, CheckedOn
  <2> QED
    BY <1>0, <2>1, <2>2, PaidStays
<1>4. ASSUME NEW p \in Pages, fetchStatus(p) PROVE PaidInv'
  <2>1. /\ UNCHANGED <<today, payments, checkins, lost>> /\ page'[p].checked = CheckedOn(today) /\ page'[p].hash = 0
        /\ page[p].hash = 0
        /\ \A r \in Pages : r # p => page'[r] = page[r]
    BY <1>0, <1>4 DEF fetchStatus, Page, HashesInv
  <2>2. Ready' \subseteq Ready
    BY <2>1 DEF Ready, CheckedOn
  <2> QED
    BY <1>0, <2>1, <2>2, PaidStays
<1>5. ASSUME NEW p \in Pages, handlePayCheckin(p) PROVE PaidInv'
  <2> DEFINE n == Len(payments) + 1
  <2>1. /\ UNCHANGED <<today, checkins, lost>> /\ page'[p].pc = "paying" /\ page'[p].hash = n
        /\ page[p].hash = 0 /\ page[p].pc = "shown" /\ ~page[p].checked
        /\ \A r \in Pages : r # p => page'[r] = page[r]
        /\ Len(payments') = n /\ payments'[n] = today /\ n \in Nat /\ n # 0
        /\ \A h \in 1 .. Len(payments) : payments'[h] = payments[h]
    BY <1>0, <1>5 DEF handlePayCheckin, Payable, Page, HashesInv
  <2>2. p \in Ready
    BY <2>1 DEF Ready
  <2>3. \A r \in Pages : page[r].hash # 0 => payments'[page[r].hash] = payments[page[r].hash]
    BY <1>0, <2>1 DEF HashesInv, Paid
  <2> HIDE DEF n
  <2>4. Ready' = Ready \ {p}
    BY <2>1, <2>2, <2>3 DEF Ready, CheckedOn
  <2>5. Cardinality(Ready') = Cardinality(Ready) - 1 /\ Cardinality(Ready) \in Nat
    <3>1. IsFiniteSet(Ready) /\ Cardinality(Ready) \in Nat
      BY <1>0, PaidCounted DEF Ready
    <3> QED
      BY <2>2, <2>4, <3>1, FS_RemoveElement
  <2>6. PaidOn(today)' = PaidOn(today) \cup {n} /\ n \notin PaidOn(today)
    <3>1. 1 .. n = (1 .. Len(payments)) \cup {n} /\ n \notin 1 .. Len(payments)
      BY <1>0 DEF n
    <3> QED
      BY <2>1, <3>1 DEF PaidOn
  <2>7. Cardinality(PaidOn(today)') = Cardinality(PaidOn(today)) + 1 /\ Cardinality(PaidOn(today)) \in Nat
    BY <1>0, <2>6, PaidCounted, FS_AddElement
  <2>8. \A d : d # today => PaidOn(d)' = PaidOn(d)
    <3>1. 1 .. n = (1 .. Len(payments)) \cup {n} /\ n \notin 1 .. Len(payments)
      BY <1>0 DEF n
    <3> QED
      BY <2>1, <3>1 DEF PaidOn
  <2>9. Cardinality(Ready') \in Nat
    BY <1>0, PaidCounted DEF Ready
  <2>10. Cardinality(Pages) \in Nat
    BY <1>0, PaidCounted
  <2>11. ASSUME lost' = {}, NEW d \in Dates PROVE Cardinality(PaidOn(d)') <= Cardinality(Pages)
    <3>1. CASE d = today
      <4>1. PaidOn(d)' = PaidOn(today)'
        BY <2>1, <3>1 DEF PaidOn
      <4> QED
        BY <2>1, <2>5, <2>7, <2>9, <2>10, <2>11, <4>1 DEF PaidInv
    <3>2. CASE d # today
      BY <2>1, <2>8, <2>11, <3>2 DEF PaidInv
    <3> QED
      BY <3>1, <3>2
  <2>12. ASSUME lost' = {} PROVE Cardinality(PaidOn(today)') + Cardinality(Ready') <= Cardinality(Pages)
    BY <2>1, <2>5, <2>7, <2>10, <2>12 DEF PaidInv
  <2> QED
    BY <2>11, <2>12 DEF PaidInv
<1>6. ASSUME NEW p \in Pages, NEW c \in Calls, confirmPayment(p, c) PROVE PaidInv'
  <2>1. /\ UNCHANGED <<today, payments, checkins, lost>> /\ page'[p].pc = "confirming" /\ page'[p].hash = page[p].hash
        /\ \A r \in Pages : r # p => page'[r] = page[r]
    BY <1>0, <1>6 DEF confirmPayment, CheckinTypeOK
  <2>2. Ready' \subseteq Ready
    BY <2>1 DEF Ready, CheckedOn
  <2> QED
    BY <1>0, <2>1, <2>2, PaidStays
\* An answer, after which nobody is ready who holds a payment of today.
<1>7. ASSUME NEW c \in Calls, NEW ok \in BOOLEAN, Tells(c, ok), UNCHANGED <<today, payments>>,
             checkins \subseteq checkins',
             ok /\ payments[kcall[c].hash] = today => CheckedOn(today)'
      PROVE  PaidInv'
  <2>1. SUFFICES ASSUME lost' = {} PROVE lost = {} /\ Ready' \subseteq Ready
    BY <1>0, <1>7, PaidStays
  <2>2. lost = {} /\ lost' # lost \cup {payments[kcall[c].hash]}
    BY <1>0, <1>7, <2>1, TellsWhat
  <2>3. \A p \in Pages : \/ page'[p] = page[p]
                         \/ /\ ok /\ page'[p].pc = "loading" /\ page'[p].hash = 0 /\ page[p].hash = kcall[c].hash
    <3> SUFFICES ASSUME NEW p \in Pages, page'[p] # page[p]
                 PROVE  ok /\ page'[p].pc = "loading" /\ page'[p].hash = 0 /\ page[p].hash = kcall[c].hash
      OBVIOUS
    <3>1. /\ page'[p].pc = (IF ok THEN "loading" ELSE "shown") /\ page'[p].hash = 0
          /\ page[p].hash = kcall[c].hash
          /\ ~ok => lost' = lost \cup {payments[kcall[c].hash]}
      BY <1>0, <1>7, TellsWhat
    <3> QED
      BY <2>2, <3>1
  <2>4. CheckedOn(today)' = \E r \in checkins' : r.day = today
    BY <1>7 DEF CheckedOn
  <2>5. CASE CheckedOn(today)'
    <3>1. \A p \in Ready' : p \in Pages /\ page'[p].pc = "shown" /\ ~page'[p].checked
      BY <2>5 DEF Ready
    <3>2. \A p \in Ready' : page'[p] = page[p] /\ page[p].hash = 0
      BY <1>0, <2>3, <3>1 DEF HashesInv
    <3> QED
      BY <2>2, <3>1, <3>2 DEF Ready
  <2>6. CASE ~CheckedOn(today)'
    <3>1. ~CheckedOn(today)
      BY <1>7, <2>4, <2>6 DEF CheckedOn
    <3>2. ok => payments[kcall[c].hash] # today
      BY <1>7, <2>6
    <3> QED
      BY <1>7, <2>2, <2>3, <2>6, <3>1, <3>2 DEF Ready
  <2> QED
    BY <2>5, <2>6
<1>8. ASSUME NEW c \in Calls, kcall[c].pc \in {"look", "create"}, payments[kcall[c].hash] = today
      PROVE  kcall[c].day = today /\ \A r \in checkins : r.hash = kcall[c].hash => r.day = today
  BY <1>0, <1>8 DEF DaysInv, CheckinTypeOK, Dates
<1>9. ASSUME NEW c \in Calls, CheckinReads(c) PROVE PaidInv'
  <2>1. CASE CheckedOn(kcall[c].day) /\ Tells(c, TRUE)
    <3>1. payments[kcall[c].hash] = today => CheckedOn(today)'
      BY <1>8, <1>9, <2>1 DEF CheckinReads, CheckedOn
    <3> QED
      BY <1>7, <1>9, <2>1, <3>1 DEF CheckinReads
  <2>2. CASE Tells(c, FALSE)
    BY <1>7, <1>9, <2>2 DEF CheckinReads
  <2>3. CASE UNCHANGED <<page, lost>>
    BY <1>0, <1>9, <2>3, PaidStays DEF CheckinReads, Ready, CheckedOn
  <2> QED
    BY <1>9, <2>1, <2>2, <2>3 DEF CheckinReads
<1>10. ASSUME NEW c \in Calls, CheckinCreates(c) PROVE PaidInv'
  <2>1. kcall[c].pc = "create" /\ Tells(c, TRUE) /\ UNCHANGED <<today, payments>> /\ checkins \subseteq checkins'
    BY <1>10 DEF CheckinCreates
  <2>2. ASSUME payments[kcall[c].hash] = today PROVE CheckedOn(today)'
    <3>1. kcall[c].day = today
      BY <1>8, <2>1, <2>2
    <3>2. CASE CheckedOn(today)
      BY <2>1, <3>2 DEF CheckedOn
    <3>3. CASE \E r \in checkins : r.hash = kcall[c].hash
      BY <1>8, <2>1, <2>2, <3>3 DEF CheckedOn
    <3>4. CASE ~CheckedOn(today) /\ ~\E r \in checkins : r.hash = kcall[c].hash
      <4>1. RowOf(kcall[c]) \in checkins' /\ RowOf(kcall[c]).day = today
        BY <1>10, <3>1, <3>4 DEF CheckinCreates, RowOf, Row
      <4> QED
        BY <2>1, <4>1 DEF CheckedOn
    <3> QED
      BY <3>2, <3>3, <3>4
  <2> QED
    BY <1>7, <2>1, <2>2
<1>11. ASSUME NEW c \in Calls, CheckinFails(c) PROVE PaidInv'
  BY <1>7, <1>11 DEF CheckinFails
<1> QED
  BY <1>1, <1>2, <1>3, <1>4, <1>5, <1>6, <1>9, <1>10, <1>11
     DEF CheckinNext, checkinVars, Repost, confirmCheckin

LEMMA PaidOnce == PaidInv => OnePaymentADay
BY DEF PaidInv, OnePaymentADay, PaidOn
-----------------------------------------------------------------------------
(* The streak.                                                              *)

RunBack(days, f, last) == [d \in -2 .. last |-> IF d \in days THEN 1 + f[d - 1] ELSE 0]

LEMMA RunBackIs == ASSUME NEW days \in SUBSET Dates PROVE \E f : f = RunBack(days, f, LastDay)
<1> DEFINE Bad == {k \in Nat : ~\E f : f = RunBack(days, f, k - 2)}
<1>1. SUFFICES Bad = {}
  <2>1. LastDay + 2 \in Nat /\ LastDay = (LastDay + 2) - 2
    BY CheckinAssumption
  <2> QED
    BY <2>1
<1>2. SUFFICES ASSUME Bad # {} PROVE FALSE
  OBVIOUS
<1>3. PICK k \in Bad : \A b \in Bad : k <= b
  <2> HIDE DEF Bad
  <2>1. Bad \subseteq Nat
    BY DEF Bad
  <2> QED
    BY <1>2, <2>1, LeastThereIs
<1>4. CASE k = 0
  <2>1. -2 .. -2 = {-2} /\ -2 \notin days
    BY DEF Dates
  <2>2. [d \in {-2} |-> 0] = RunBack(days, [d \in {-2} |-> 0], -2)
    BY <2>1 DEF RunBack
  <2> QED
    BY <1>3, <1>4, <2>2
<1>5. CASE k # 0
  <2>1. k \in Nat /\ k - 1 \in Nat /\ k - 1 \notin Bad
    BY <1>3, <1>5
  <2>2. PICK f : f = RunBack(days, f, k - 3)
    BY <2>1
  <2> DEFINE g == [d \in -2 .. k - 2 |-> IF d \in days THEN 1 + f[d - 1] ELSE 0]
  <2>3. \A d \in -2 .. k - 3 : g[d] = f[d]
    BY <2>1, <2>2 DEF RunBack
  <2>4. \A d \in -2 .. k - 2 : d \in days => d - 1 \in -2 .. k - 3
    BY <2>1 DEF Dates
  <2>5. g = RunBack(days, g, k - 2)
    BY <2>3, <2>4 DEF RunBack
  <2> QED
    BY <1>3, <2>5
<1> QED
  BY <1>4, <1>5

\* What the run from a day is.
LEMMA RunBackCounts ==
    ASSUME NEW days \in SUBSET Dates, NEW f, f = RunBack(days, f, LastDay)
    PROVE  \A d \in -1 .. LastDay :
              /\ f[d] \in 0 .. d + 1 /\ d - f[d] \notin days
              /\ \A i \in 0 .. f[d] - 1 : d - i \in days
<1> DEFINE RunIs(d) == /\ f[d] \in 0 .. d + 1 /\ d - f[d] \notin days
                       /\ \A i \in 0 .. f[d] - 1 : d - i \in days
           Bad == {k \in Nat : k - 1 <= LastDay /\ ~RunIs(k - 1)}
<1>1. SUFFICES ASSUME Bad # {} PROVE FALSE
  <2> SUFFICES ASSUME NEW d \in -1 .. LastDay, ~RunIs(d) PROVE d + 1 \in Bad
    OBVIOUS
  <2> HIDE DEF RunIs
  <2>1. d + 1 \in Nat /\ (d + 1) - 1 = d /\ d <= LastDay
    BY CheckinAssumption
  <2> QED
    BY <2>1
<1>2. PICK k \in Bad : \A b \in Bad : k <= b
  <2> HIDE DEF Bad
  <2>1. Bad \subseteq Nat
    BY DEF Bad
  <2> QED
    BY <1>1, <2>1, LeastThereIs
<1>3. k \in Nat /\ LastDay \in Nat /\ k - 1 \in -2 .. LastDay /\ k - 2 \in -2 .. LastDay /\ ~RunIs(k - 1)
  BY <1>2, CheckinAssumption
<1>4. f[k - 1] = IF k - 1 \in days THEN 1 + f[k - 2] ELSE 0
  BY <1>3 DEF RunBack
<1>5. k - 1 \in days
  <2> SUFFICES ASSUME k - 1 \notin days PROVE RunIs(k - 1)
    BY <1>3
  <2> QED
    BY <1>3, <1>4
<1>6. k # 0 /\ k - 1 \in Nat /\ k - 1 \notin Bad
  BY <1>2, <1>3, <1>5 DEF Dates
<1>7. RunIs(k - 2)
  <2>1. (k - 1) - 1 = k - 2
    BY <1>3
  <2> HIDE DEF RunIs
  <2> QED
    BY <1>3, <1>6, <2>1
<1>8. f[k - 1] = 1 + f[k - 2] /\ f[k - 2] \in 0 .. k - 1
  BY <1>3, <1>4, <1>5, <1>7
<1>9. f[k - 1] \in 0 .. (k - 1) + 1 /\ (k - 1) - f[k - 1] \notin days
  BY <1>3, <1>7, <1>8
<1>10. ASSUME NEW i \in 0 .. f[k - 1] - 1 PROVE (k - 1) - i \in days
  <2>1. CASE i = 0
    BY <1>3, <1>5, <2>1
  <2>2. CASE i # 0
    <3>1. i - 1 \in 0 .. f[k - 2] - 1 /\ (k - 2) - (i - 1) = (k - 1) - i
      BY <1>3, <1>8, <2>2
    <3> QED
      BY <1>7, <3>1
  <2> QED
    BY <2>1, <2>2
<1> QED
  BY <1>3, <1>9, <1>10

LEMMA StreakRuns == CheckinInv => StreakIsARun
<1> SUFFICES ASSUME CheckinInv PROVE StreakIsARun
  OBVIOUS
<1> DEFINE D == {r.day : r \in checkins}
           f == CHOOSE run : run = RunBack(Newest, run, LastDay)
           n == f[today]
           all == {m \in 0 .. today + 1 : \A i \in 0 .. m - 1 : CheckedOn(today - i)}
           longest == CHOOSE m \in all : \A o \in all : o <= m
<1>1. /\ today \in Nat /\ today <= LastDay /\ LastDay \in Nat /\ Take \in Nat \ {0}
      /\ D \subseteq 0 .. today
  BY CheckinAssumption DEF CheckinInv, CheckinTypeOK, DaysInv, Dates
<1>2. Newest \subseteq D /\ \A d \in D : d \in Newest <=> Cardinality({e \in D : e > d}) < Take
  BY DEF Newest
<1>3. Streak = n
  BY DEF Streak, RunBack, StreakFrom
<1>4. f = RunBack(Newest, f, LastDay) /\ Newest \in SUBSET Dates
  <2>1. Newest \in SUBSET Dates
    BY <1>1, <1>2 DEF Dates
  <2> QED
    BY <2>1, RunBackIs
<1> HIDE DEF f
<1>5. n \in 0 .. today + 1 /\ today - n \notin Newest /\ \A i \in 0 .. n - 1 : today - i \in Newest
  <2>1. today \in -1 .. LastDay
    BY <1>1
  <2>2. \A d \in -1 .. LastDay :
              /\ f[d] \in 0 .. d + 1 /\ d - f[d] \notin Newest
              /\ \A i \in 0 .. f[d] - 1 : d - i \in Newest
    BY <1>4, RunBackCounts
  <2> QED
    BY <2>1, <2>2
<1> HIDE DEF n
<1>6. \A d : CheckedOn(d) <=> d \in D
  BY DEF CheckedOn
<1> HIDE DEF D
\* A day that the run reaches is among the newest as long as it is one of Take.
<1>7. ASSUME NEW j \in 0 .. today + 1, \A i \in 0 .. j - 1 : today - i \in D, today - j \in D
      PROVE  today - j \in Newest <=> j < Take
  <2>1. {e \in D : e > today - j} = (today - j + 1) .. today
    <3>1. ASSUME NEW e \in (today - j + 1) .. today PROVE e \in D /\ e > today - j
      <4>1. today - e \in 0 .. j - 1 /\ today - (today - e) = e
        BY <1>1, <1>7, <3>1
      <4>2. today - (today - e) \in D
        BY <1>7, <4>1
      <4> QED
        BY <1>1, <1>7, <3>1, <4>1, <4>2
    <3>2. ASSUME NEW e \in D, e > today - j PROVE e \in (today - j + 1) .. today
      BY <1>1, <1>7, <3>2
    <3> QED
      BY <3>1, <3>2
  <2>2. today - j + 1 \in Int /\ Cardinality((today - j + 1) .. today) = j
    <3>1. today - j + 1 \in Int /\ today \in Int
      BY <1>1, <1>7
    <3>2. Cardinality((today - j + 1) .. today) = IF today - j + 1 > today THEN 0 ELSE today - (today - j + 1) + 1
      BY <3>1, FS_Interval
    <3> QED
      BY <1>1, <1>7, <3>1, <3>2
  <2> QED
    BY <1>2, <1>7, <2>1, <2>2
<1>8. n <= Take
  <2>1. CASE n = 0
    BY <1>1, <2>1
  <2>2. CASE n # 0
    <3>1. n - 1 \in 0 .. today + 1 /\ n - 1 \in 0 .. n - 1
      BY <1>1, <1>5, <2>2
    <3>2. today - (n - 1) \in Newest /\ today - (n - 1) \in D
      BY <1>2, <1>5, <3>1
    <3>3. \A i \in 0 .. (n - 1) - 1 : today - i \in D
      BY <1>1, <1>2, <1>5
    <3>4. n - 1 < Take
      BY <1>7, <3>1, <3>2, <3>3
    <3> QED
      BY <1>1, <1>5, <3>4
  <2> QED
    BY <2>1, <2>2
<1>9. n \in all
  BY <1>1, <1>2, <1>5, <1>6
<1>10. longest \in all /\ \A o \in all : o <= longest
  <2>1. all \in SUBSET (0 .. today + 1) /\ today + 1 \in Nat
    BY <1>1
  <2>2. IsFiniteSet(0 .. today + 1)
    BY <2>1, FS_Interval
  <2>3. IsFiniteSet(all) /\ all \subseteq Nat /\ all # {}
    BY <1>9, <2>1, <2>2, FS_Subset
  <2>4. \E a \in all : \A b \in all : b <= a
    <3> HIDE DEF all
    <3> QED
      BY <2>3, LargestThereIs
  <2> HIDE DEF all
  <2> QED
    BY <2>4
<1>11. CASE today - n \notin D
  <2>1. \A m \in all : m <= n
    <3> SUFFICES ASSUME NEW m \in all, m > n PROVE FALSE
      BY <1>1, <1>5
    <3>1. n \in 0 .. m - 1
      BY <1>1, <1>5
    <3> QED
      BY <1>6, <1>11, <3>1
  <2>2. longest = n
    <3> HIDE DEF all, longest
    <3>1. longest \in Int /\ n \in Int /\ longest <= n /\ n <= longest
      <4>1. \A m \in all : m \in Int
        BY <1>1 DEF all
      <4> QED
        BY <1>9, <1>10, <2>1, <4>1
    <3> QED
      BY <3>1
  <2>3. Streak = IF longest > Take THEN Take ELSE longest
    <3> HIDE DEF longest
    <3> QED
      BY <1>1, <1>3, <1>5, <1>8, <2>2
  <2> QED
    BY <2>3 DEF StreakIsARun
<1>12. CASE today - n \in D
  <2>1. \A i \in 0 .. n - 1 : today - i \in D
    BY <1>2, <1>5
  <2>2. ~(n < Take)
    BY <1>5, <1>7, <1>12, <2>1
  <2>3. n = Take
    BY <1>1, <1>5, <1>8, <2>2
  <2>4. longest >= n /\ longest \in Int
    <3>1. \A m \in all : m \in Int
      BY <1>1
    <3> HIDE DEF all, longest
    <3> QED
      BY <1>9, <1>10, <3>1, <1>5, <1>1
  <2>5. Streak = IF longest > Take THEN Take ELSE longest
    <3> HIDE DEF longest
    <3> QED
      BY <1>1, <1>3, <1>5, <2>3, <2>4
  <2> QED
    BY <2>5 DEF StreakIsARun
<1> QED
  BY <1>11, <1>12

\* A page that is told its check-in is done has left a row for the day, whoever
\* took the row's keys meanwhile; a user who loses no payment pays once a day on
\* each page; and the streak is the run of days that ends today.
THEOREM CheckinsCount ==
    CheckinSpec => [](CheckinTypeOK /\ OnePaymentADay /\ StreakIsARun) /\ OkMeansCheckedIn
<1>1. CheckinInit => CheckinInv /\ PaidInv
  BY CheckinBegins, PaidBegins
<1>2. CheckinInv /\ [CheckinNext]_checkinVars => CheckinInv'
  <2> SUFFICES ASSUME CheckinInv, [CheckinNext]_checkinVars PROVE CheckinInv'
    OBVIOUS
  <2>1. CheckinTypeOK /\ HashesInv /\ DaysInv
    BY DEF CheckinInv
  <2>2. CheckinTypeOK' /\ HashesInv' /\ DaysInv'
    BY <2>1, CheckinTypes, HashesStep, DaysStep
  <2> QED
    BY <2>2 DEF CheckinInv
<1>3. CheckinInv /\ PaidInv /\ [CheckinNext]_checkinVars => (CheckinInv /\ PaidInv)'
  BY <1>2, PaidStep
<1>4. CheckinInv /\ [CheckinNext]_checkinVars =>
         [\A c \in Calls :
            LET q == kcall[c] IN
            (q.page # None /\ kcall'[c] # q /\ page[q.page].pc = "confirming"
                /\ page'[q.page].pc = "loading")
            => \/ \E r \in checkins' : r.day = q.day
               \/ q.hash \in reposted]_checkinVars
  <2> SUFFICES ASSUME CheckinInv, [CheckinNext]_checkinVars, NEW c \in Calls,
                      kcall[c].page # None, kcall'[c] # kcall[c],
                      page[kcall[c].page].pc = "confirming", page'[kcall[c].page].pc = "loading"
               PROVE  \/ \E r \in checkins' : r.day = kcall[c].day
                      \/ kcall[c].hash \in reposted
    OBVIOUS
  <2>1. kcall[c].page \in Pages
    BY DEF CheckinInv, CheckinTypeOK
  <2> QED
    BY <2>1, OkCheckedIn
<1>5. CheckinSpec => [](CheckinInv /\ PaidInv)
  BY <1>1, <1>3, PTL DEF CheckinSpec
<1>6. CheckinSpec => OkMeansCheckedIn
  BY <1>4, <1>5, PTL DEF CheckinSpec, OkMeansCheckedIn
<1>7. CheckinInv /\ PaidInv => CheckinTypeOK /\ OnePaymentADay /\ StreakIsARun
  BY PaidOnce, StreakRuns DEF CheckinInv
<1> QED
  BY <1>5, <1>6, <1>7, PTL

-----------------------------------------------------------------------------
(* The games a player wins powers in.                                       *)

\* The wins that wait for their row, the sessions and the starts of a game.
WaitingWins(g, T) == {c \in Calls : gcall[c].pc = "win" /\ gcall[c].game = g /\ gcall[c].at \in T}
LiveOf(g) == {s \in Sockets : session[s] # None /\ session[s].game = g}
StartsOf(g) == {c \in Calls : gcall[c].pc = "start" /\ gcall[c].game = g}
MostWins == Cardinality(Sockets) + (IF crossed THEN Cardinality(Calls) ELSE 0)

\* Once a game was finished in a cooldown, it can be won in it by the sessions
\* that are live and the starts that wait, and by nobody else.
SpacedInv ==
    \A g \in Slugs, t \in Moments :
        LET T == CooldownFrom(t)
            won == Cardinality(WonIn(g, T)) + Cardinality(WaitingWins(g, T))
        IN  /\ IsFiniteSet(WonIn(g, T))
            /\ lastFinish[g] <= moment
            /\ lastFinish[g] < t => WonIn(g, T) = {} /\ WaitingWins(g, T) = {}
            /\ won <= MostWins
            /\ lastFinish[g] >= t /\ moment < t + GameCooldown =>
                  won + Cardinality(LiveOf(g)) + Cardinality(StartsOf(g)) <= MostWins

StartsInv ==
    \A c \in Calls : gcall[c].pc # "idle" =>
        /\ gcall[c].socket \in Sockets /\ gcall[c].game \in Slugs
        /\ gcall[c].pc = "start" => gcall[c].socket \in online \cup orphans

GamesInv == GamesTypeOK /\ SpacedInv /\ StartsInv /\ SessionsAreLive

LEMMA GamesCounted ==
    ASSUME GamesTypeOK
    PROVE  /\ Cardinality(Sockets) \in Nat
           /\ \A S \in SUBSET Sockets : IsFiniteSet(S) /\ Cardinality(S) \in Nat /\ Cardinality(S) <= Cardinality(Sockets)
           /\ \A g : /\ IsFiniteSet(LiveOf(g)) /\ Cardinality(LiveOf(g)) \in Nat
                     /\ Cardinality(LiveOf(g)) <= Cardinality(Sockets)
           /\ \A g : IsFiniteSet(StartsOf(g)) /\ Cardinality(StartsOf(g)) \in Nat /\ Cardinality(StartsOf(g)) <= Cardinality(Calls)
           /\ \A g, T : IsFiniteSet(WaitingWins(g, T)) /\ Cardinality(WaitingWins(g, T)) \in Nat
           /\ MostWins \in Nat
<1>1. \A S \in SUBSET Sockets : IsFiniteSet(S) /\ Cardinality(S) \in Nat /\ Cardinality(S) <= Cardinality(Sockets)
  BY GamesAssumption, FS_Subset, FS_CardinalityType
<1>2. /\ \A g : LiveOf(g) \in SUBSET Sockets
      /\ \A g : StartsOf(g) \in SUBSET Calls
      /\ \A g, T : WaitingWins(g, T) \in SUBSET Calls
  BY DEF LiveOf, StartsOf, WaitingWins
<1>3. Cardinality(Sockets) \in Nat
  BY <1>1
<1> QED
  BY <1>1, <1>2, <1>3, CallsAreCounted DEF MostWins

LEMMA GamesBegins == GamesInit => GamesInv
<1> SUFFICES ASSUME GamesInit PROVE GamesInv
  OBVIOUS
<1>1. GIdle \in [pc: {"idle", "start", "win"}, socket: Sockets \cup {None}, game: Slugs \cup {"none"}, at: Moments]
  BY GamesAssumption DEF GIdle, GCall, Moments
<1>2. GamesTypeOK
  <2>1. moment \in Moments /\ online \subseteq Sockets /\ orphans \subseteq Sockets /\ crossed \in BOOLEAN
    <3>1. LastMoment \in Nat /\ 0 \in 0 .. LastMoment
      BY GamesAssumption
    <3>2. moment \in Moments
      BY <3>1 DEF GamesInit, Moments
    <3>3. online \subseteq Sockets /\ orphans \subseteq Sockets
      BY DEF GamesInit
    <3>4. crossed \in BOOLEAN
      BY DEF GamesInit
    <3> QED
      BY <3>2, <3>3, <3>4
  <2>2. wins \in [Slugs -> [Moments -> Nat]]
    BY DEF GamesInit
  <2>3. gcall \in [Calls -> [pc: {"idle", "start", "win"}, socket: Sockets \cup {None}, game: Slugs \cup {"none"}, at: Moments]]
    BY <1>1 DEF GamesInit
  <2> QED
    BY <2>1, <2>2, <2>3 DEF GamesInit, GamesTypeOK
<1>3. /\ \A g \in Slugs, t \in Moments : WonIn(g, CooldownFrom(t)) = {} /\ lastFinish[g] = -1 /\ t \in Nat
      /\ \A g, T : WaitingWins(g, T) = {}
      /\ moment = 0
  BY DEF GamesInit, WonIn, Numbered, CooldownFrom, WaitingWins, GIdle, GCall, Moments, Unfinished
<1>4. IsFiniteSet({}) /\ Cardinality({}) = 0
  BY FS_EmptySet
<1>5. SpacedInv
  BY <1>2, <1>3, <1>4, GamesCounted DEF SpacedInv
<1> QED
  BY <1>2, <1>5 DEF GamesInv, StartsInv, SessionsAreLive, GamesInit, GIdle, GCall

LEMMA GamesTypes == ASSUME GamesTypeOK, StartsInv, [GamesNext]_gamesVars PROVE GamesTypeOK'
<1> DEFINE GRows == [pc: {"idle", "start", "win"}, socket: Sockets \cup {None}, game: Slugs \cup {"none"}, at: Moments]
<1>0. /\ GIdle \in GRows /\ Unfinished \in Moments \cup {Unfinished} /\ 0 \in Moments /\ moment \in Moments
      /\ \A pc \in {"start", "win"}, s \in Sockets, g \in Slugs, m \in Moments : GCall(pc, s, g, m) \in GRows
  BY GamesAssumption DEF GIdle, GCall, Moments, GamesTypeOK
<1>1. CASE UNCHANGED gamesVars
  BY <1>1 DEF GamesTypeOK, gamesVars
<1>2. CASE MomentPasses
  BY <1>2, GamesAssumption DEF MomentPasses, GamesTypeOK, Moments
<1>3. ASSUME NEW c \in Calls, NEW s \in Sockets, NEW g \in Slugs, gameStart(c, s, g) PROVE GamesTypeOK'
  BY <1>0, <1>3 DEF gameStart, GamesTypeOK
<1>4. ASSUME NEW s \in Sockets, NEW ok \in BOOLEAN, session[s] # None, finishGame(s, ok) PROVE GamesTypeOK'
  <2>1. session[s].game \in Slugs
    BY <1>4 DEF GamesTypeOK
  <2>2. lastFinish' \in [Slugs -> Moments \cup {Unfinished}]
    BY <1>0, <1>4, <2>1 DEF finishGame, FinishRecorded, GamesTypeOK
  <2>3. gcall' \in [Calls -> GRows]
    BY <1>0, <1>4, <2>1 DEF finishGame, GamesTypeOK
  <2> QED
    BY <1>4, <2>2, <2>3 DEF finishGame, GamesTypeOK
<1>5. ASSUME NEW s \in Sockets, disconnect(s) PROVE GamesTypeOK'
  BY <1>5 DEF disconnect, GamesTypeOK
<1>6. ASSUME NEW c \in Calls, GameStarted(c) PROVE GamesTypeOK'
  <2>1. Session(gcall[c].game, moment) \in [game: Slugs, since: Moments]
    BY <1>0, <1>6 DEF GameStarted, Session, StartsInv
  <2> QED
    BY <1>0, <1>6, <2>1 DEF GameStarted, GamesTypeOK
<1>7. ASSUME NEW c \in Calls, StartFails(c) \/ PowerFails(c) PROVE GamesTypeOK'
  BY <1>0, <1>7 DEF StartFails, PowerFails, GamesTypeOK
<1>8. ASSUME NEW c \in Calls, PowerGiven(c) PROVE GamesTypeOK'
  <2>1. gcall[c].game \in Slugs /\ gcall[c].at \in Moments
    BY <1>8 DEF PowerGiven, StartsInv, GamesTypeOK
  <2>2. wins' \in [Slugs -> [Moments -> Nat]]
    BY <1>8, <2>1 DEF PowerGiven, GamesTypeOK
  <2> QED
    BY <1>0, <1>8, <2>2 DEF PowerGiven, GamesTypeOK
<1>9. CASE Restart
  BY <1>0, <1>9 DEF Restart, GamesTypeOK
<1> QED
  BY <1>1, <1>2, <1>3, <1>4, <1>5, <1>6, <1>7, <1>8, <1>9 DEF GamesNext, actionWins, gameEnd

LEMMA StartsStep == ASSUME GamesTypeOK, StartsInv, [GamesNext]_gamesVars PROVE StartsInv'
<1>0. DOMAIN gcall = Calls /\ GIdle.pc = "idle" /\ DOMAIN session = Sockets
      /\ \A pc, s, h, t : LET q == GCall(pc, s, h, t) IN q.pc = pc /\ q.socket = s /\ q.game = h
  BY DEF GamesTypeOK, GIdle, GCall
\* Some requests end, and no socket is forgotten.
<1>1. ASSUME online \cup orphans \subseteq online' \cup orphans',
             \A c \in Calls : gcall'[c] = gcall[c] \/ gcall'[c].pc = "idle"
      PROVE  StartsInv'
  BY <1>1 DEF StartsInv
<1>2. ASSUME NEW c \in Calls, NEW s \in Sockets, NEW g \in Slugs, gameStart(c, s, g) PROVE StartsInv'
  <2>1. /\ gcall'[c].socket = s /\ gcall'[c].game = g /\ s \in online
        /\ \A d \in Calls : d # c => gcall'[d] = gcall[d]
    BY <1>0, <1>2 DEF gameStart
  <2> QED
    BY <1>2, <2>1 DEF gameStart, StartsInv
<1>3. ASSUME NEW s \in Sockets, NEW ok \in BOOLEAN, session[s] # None, finishGame(s, ok) PROVE StartsInv'
  <2>0. session[s].game \in Slugs
    BY <1>3 DEF GamesTypeOK
  <2>1. \A d \in Calls : \/ gcall'[d] = gcall[d]
                         \/ gcall'[d].socket = s /\ gcall'[d].game \in Slugs /\ gcall'[d].pc = "win"
    BY <1>0, <1>3, <2>0 DEF finishGame
  <2> QED
    BY <1>3, <2>1 DEF finishGame, StartsInv
<1>4. ASSUME NEW s \in Sockets, disconnect(s) PROVE StartsInv'
  <2>1. \A c \in Calls : gcall[c].pc = "start" => gcall[c].socket \in online' \cup orphans'
    BY <1>4 DEF disconnect, StartsInv
  <2> QED
    BY <1>4, <2>1 DEF disconnect, StartsInv
<1>5. ASSUME NEW c \in Calls, GameStarted(c) \/ StartFails(c) \/ PowerGiven(c) \/ PowerFails(c) PROVE StartsInv'
  <2>1. gcall' = [gcall EXCEPT ![c] = GIdle] /\ UNCHANGED <<online, orphans>>
    BY <1>5 DEF GameStarted, StartFails, PowerGiven, PowerFails
  <2> QED
    BY <1>0, <1>1, <2>1
<1>6. CASE Restart
  BY <1>0, <1>6 DEF Restart, StartsInv
<1> QED
  BY <1>1, <1>2, <1>3, <1>4, <1>5, <1>6 DEF GamesNext, gamesVars, MomentPasses, actionWins, gameEnd

LEMMA LiveStep == ASSUME GamesTypeOK, StartsInv, SessionsAreLive, [GamesNext]_gamesVars PROVE SessionsAreLive'
<1>0. DOMAIN session = Sockets
  BY DEF GamesTypeOK
<1>1. CASE UNCHANGED <<session, online, orphans>>
  BY <1>1 DEF SessionsAreLive
<1>2. ASSUME NEW s \in Sockets, NEW ok \in BOOLEAN, finishGame(s, ok) PROVE SessionsAreLive'
  BY <1>0, <1>2 DEF finishGame, SessionsAreLive
<1>3. ASSUME NEW s \in Sockets, disconnect(s) PROVE SessionsAreLive'
  <2>1. /\ session'[s] = None /\ \A t \in Sockets : t # s => session'[t] = session[t] /\ (t \in online => t \in online')
        /\ orphans \subseteq orphans'
    BY <1>0, <1>3 DEF disconnect
  <2> QED
    BY <2>1 DEF SessionsAreLive
<1>4. ASSUME NEW c \in Calls, GameStarted(c) PROVE SessionsAreLive'
  BY <1>0, <1>4 DEF GameStarted, StartsInv, SessionsAreLive
<1>5. CASE Restart
  BY <1>5 DEF Restart, SessionsAreLive
<1> QED
  BY <1>1, <1>2, <1>3, <1>4, <1>5
     DEF GamesNext, gamesVars, MomentPasses, actionWins, gameEnd, gameStart, StartFails, PowerGiven, PowerFails

\* A step after which no game is nearer to its most wins.
LEMMA SpacedStays ==
    ASSUME GamesTypeOK, GamesTypeOK', SpacedInv, UNCHANGED <<wins, lastFinish, crossed>>, moment' >= moment,
           \A g, T : WaitingWins(g, T)' \subseteq WaitingWins(g, T),
           \A g \in Slugs : /\ Cardinality(LiveOf(g)') + Cardinality(StartsOf(g)')
                                 <= Cardinality(LiveOf(g)) + Cardinality(StartsOf(g))
                            \/ Cooled(g)
    PROVE  SpacedInv'
<1> SUFFICES ASSUME NEW g \in Slugs, NEW t \in Moments
             PROVE  LET T == CooldownFrom(t)
                        won == Cardinality(WonIn(g, T)') + Cardinality(WaitingWins(g, T)')
                    IN  /\ IsFiniteSet(WonIn(g, T)')
                        /\ lastFinish'[g] <= moment'
                        /\ lastFinish'[g] < t => WonIn(g, T)' = {} /\ WaitingWins(g, T)' = {}
                        /\ won <= MostWins'
                        /\ lastFinish'[g] >= t /\ moment' < t + GameCooldown =>
                              won + Cardinality(LiveOf(g)') + Cardinality(StartsOf(g)') <= MostWins'
  BY DEF SpacedInv, CooldownFrom
<1> DEFINE T == CooldownFrom(t)
           W == Cardinality(WonIn(g, T))
           K == Cardinality(WaitingWins(g, T))
           N == Cardinality(LiveOf(g)) + Cardinality(StartsOf(g))
           M == Cardinality(LiveOf(g)') + Cardinality(StartsOf(g)')
<1>1. WonIn(g, T)' = WonIn(g, T)
  BY DEF WonIn, Numbered, CooldownFrom
<1>2. MostWins' = MostWins /\ MostWins \in Nat /\ N \in Nat
  BY GamesCounted DEF MostWins
<1>3. M \in Nat
  <2>1. LiveOf(g)' \in SUBSET Sockets /\ StartsOf(g)' \in SUBSET Calls
    BY DEF LiveOf, StartsOf
  <2> QED
    BY <2>1, GamesCounted, CallsAreCounted
<1>4. /\ IsFiniteSet(WonIn(g, T)) /\ lastFinish[g] <= moment /\ W + K <= MostWins
      /\ lastFinish[g] < t => WonIn(g, T) = {} /\ WaitingWins(g, T) = {}
      /\ lastFinish[g] >= t /\ moment < t + GameCooldown => W + K + Cardinality(LiveOf(g)) + Cardinality(StartsOf(g)) <= MostWins
  BY DEF SpacedInv
<1>5. W \in Nat /\ K \in Nat
  BY <1>4, FS_CardinalityType, GamesCounted
<1>6. Cardinality(WaitingWins(g, T)') <= K /\ Cardinality(WaitingWins(g, T)') \in Nat
  <2>1. WaitingWins(g, T)' \subseteq WaitingWins(g, T)
    OBVIOUS
  <2> QED
    BY <2>1, GamesCounted, FS_Subset, FS_CardinalityType
<1>7. /\ moment \in Nat /\ moment' \in Nat /\ t \in Nat /\ lastFinish[g] \in Int /\ GameCooldown \in Nat
      /\ Cardinality(LiveOf(g)) \in Nat /\ Cardinality(StartsOf(g)) \in Nat
      /\ Cardinality(LiveOf(g)') \in Int /\ Cardinality(StartsOf(g)') \in Int
  <2>1. LiveOf(g)' \in SUBSET Sockets /\ StartsOf(g)' \in SUBSET Calls
    BY DEF LiveOf, StartsOf
  <2>2. moment \in Moments /\ moment' \in Moments /\ lastFinish[g] \in Moments \cup {Unfinished}
    BY DEF GamesTypeOK
  <2> QED
    BY <2>1, <2>2, GamesCounted, CallsAreCounted, GamesAssumption DEF Moments, Unfinished
<1>8. ASSUME lastFinish[g] >= t, moment' < t + GameCooldown
      PROVE  W + Cardinality(WaitingWins(g, T)') + Cardinality(LiveOf(g)') + Cardinality(StartsOf(g)') <= MostWins
  <2>1. ~Cooled(g) /\ moment < t + GameCooldown
    BY <1>7, <1>8 DEF Cooled, Unfinished
  <2>2. M <= N
    BY <2>1
  <2>3. W + K + N <= MostWins
    BY <1>4, <1>5, <1>7, <1>8, <2>1
  <2> HIDE DEF W, K
  <2> QED
    BY <1>2, <1>3, <1>5, <1>6, <1>7, <2>2, <2>3
<1>9. W + Cardinality(WaitingWins(g, T)') <= MostWins
  BY <1>2, <1>4, <1>5, <1>6
<1> QED
  BY <1>1, <1>2, <1>4, <1>6, <1>7, <1>8, <1>9

\* What a finish of the game that s plays does to the count of its wins.
LEMMA FinishSpaced ==
    ASSUME GamesTypeOK, GamesTypeOK', SpacedInv, StartsInv, NEW s \in Sockets, session[s] # None, NEW ok \in BOOLEAN,
           finishGame(s, ok)
    PROVE  SpacedInv'
<1> DEFINE g0 == session[s].game
<1>0. g0 \in Slugs /\ DOMAIN session = Sockets /\ DOMAIN gcall = Calls /\ DOMAIN lastFinish = Slugs /\ moment \in Moments
  BY DEF GamesTypeOK
<1>1. /\ lastFinish'[g0] = moment /\ \A g \in Slugs : g # g0 => lastFinish'[g] = lastFinish[g]
      /\ session'[s] = None /\ \A u \in Sockets : u # s => session'[u] = session[u]
      /\ wins' = wins /\ moment' = moment
  BY <1>0 DEF finishGame, FinishRecorded
\* At most one request starts to wait, with a win of this moment.
<1>2. PICK c \in Calls : /\ gcall[c].pc = "idle" \/ gcall'[c] = gcall[c]
                         /\ gcall'[c] = gcall[c] \/ gcall'[c] = GCall("win", s, g0, moment)
                         /\ \A d \in Calls : d # c => gcall'[d] = gcall[d]
  <2>1. CASE ok /\ moment - session[s].since >= MinPlay
    <3>1. PICK c \in Calls : gcall[c].pc = "idle" /\ gcall' = [gcall EXCEPT ![c] = GCall("win", s, g0, moment)]
      BY <2>1 DEF finishGame
    <3> QED
      BY <1>0, <3>1
  <2>2. CASE ~(ok /\ moment - session[s].since >= MinPlay)
    <3>1. gcall' = gcall
      BY <2>2 DEF finishGame
    <3> QED
      BY <3>1, RequestsAssumption
  <2> QED
    BY <2>1, <2>2
<1>3. LET q == GCall("win", s, g0, moment) IN q.pc = "win" /\ q.game = g0 /\ q.at = moment
  BY DEF GCall
<1> SUFFICES ASSUME NEW g \in Slugs, NEW t \in Moments
             PROVE  LET T == CooldownFrom(t)
                        won == Cardinality(WonIn(g, T)') + Cardinality(WaitingWins(g, T)')
                    IN  /\ IsFiniteSet(WonIn(g, T)')
                        /\ lastFinish'[g] <= moment'
                        /\ lastFinish'[g] < t => WonIn(g, T)' = {} /\ WaitingWins(g, T)' = {}
                        /\ won <= MostWins'
                        /\ lastFinish'[g] >= t /\ moment' < t + GameCooldown =>
                              won + Cardinality(LiveOf(g)') + Cardinality(StartsOf(g)') <= MostWins'
  BY DEF SpacedInv, CooldownFrom
<1> DEFINE T == CooldownFrom(t)
           W == Cardinality(WonIn(g, T))
           K == Cardinality(WaitingWins(g, T))
           L == Cardinality(LiveOf(g))
           S == Cardinality(StartsOf(g))
           K1 == Cardinality(WaitingWins(g, T)')
           L1 == Cardinality(LiveOf(g)')
           S1 == Cardinality(StartsOf(g)')
<1>4. WonIn(g, T)' = WonIn(g, T)
  BY <1>1 DEF WonIn, Numbered, CooldownFrom
<1>5. StartsOf(g)' = StartsOf(g)
  BY <1>2, <1>3 DEF StartsOf
<1>6. /\ IsFiniteSet(WonIn(g, T)) /\ lastFinish[g] <= moment /\ W + K <= MostWins
      /\ lastFinish[g] < t => WonIn(g, T) = {} /\ WaitingWins(g, T) = {}
      /\ lastFinish[g] >= t /\ moment < t + GameCooldown => W + K + L + S <= MostWins
  BY DEF SpacedInv
<1>7. W \in Nat /\ K \in Nat /\ L \in Nat /\ S \in Nat /\ S <= Cardinality(Calls) /\ MostWins \in Nat
  BY <1>6, FS_CardinalityType, GamesCounted
<1>8. /\ moment \in Nat /\ t \in Nat /\ lastFinish[g] \in Int /\ GameCooldown \in Nat
  <2>2. moment \in Moments /\ lastFinish[g] \in Moments \cup {Unfinished}
    BY DEF GamesTypeOK
  <2> QED
    BY <2>2, GamesAssumption DEF Moments, Unfinished
<1>9. MostWins <= MostWins' /\ MostWins' \in Nat
  <2>1. crossed => crossed'
    BY DEF finishGame
  <2> QED
    BY <2>1, GamesCounted, CallsAreCounted DEF MostWins
<1>a. CASE g # g0
  <2>1. WaitingWins(g, T)' = WaitingWins(g, T)
    BY <1>2, <1>3, <1>a DEF WaitingWins
  <2>2. LiveOf(g)' = LiveOf(g)
    BY <1>1, <1>a DEF LiveOf
  <2>3. lastFinish'[g] = lastFinish[g] /\ moment' = moment
    BY <1>1, <1>a
  <2> HIDE DEF W, K, L, S
  <2> QED
    BY <1>4, <1>5, <1>6, <1>7, <1>8, <1>9, <2>1, <2>2, <2>3 DEF W, K, L, S
<1>b. CASE g = g0
  <2>1. lastFinish'[g] = moment /\ moment' = moment
    BY <1>1, <1>b
  <2>2. /\ s \in LiveOf(g) /\ LiveOf(g)' = LiveOf(g) \ {s}
    BY <1>1, <1>b DEF LiveOf
  <2>3. L1 = L - 1 /\ L <= Cardinality(Sockets)
    BY <2>2, GamesCounted, FS_RemoveElement
  <2>4. moment \notin T => WaitingWins(g, T)' = WaitingWins(g, T)
    BY <1>2, <1>3 DEF WaitingWins
  <2>5. K1 <= K + 1 /\ K1 \in Nat
    <3>1. WaitingWins(g, T)' \subseteq WaitingWins(g, T) \cup {c}
      BY <1>2 DEF WaitingWins
    <3>2. IsFiniteSet(WaitingWins(g, T) \cup {c}) /\ Cardinality(WaitingWins(g, T) \cup {c}) \in Nat
          /\ Cardinality(WaitingWins(g, T) \cup {c}) <= K + 1
      <4>1. IsFiniteSet(WaitingWins(g, T)) /\ K \in Nat
        BY GamesCounted
      <4> QED
        BY <4>1, FS_AddElement
    <3>3. K1 <= Cardinality(WaitingWins(g, T) \cup {c}) /\ K1 \in Nat
      BY <3>1, <3>2, FS_Subset, FS_CardinalityType
    <3> QED
      BY <1>7, <3>2, <3>3
  <2>6. moment \in T <=> t <= moment /\ moment < t + GameCooldown
    BY <1>0 DEF CooldownFrom
  <2>7. lastFinish[g] < t => W = 0 /\ K = 0
    BY <1>6, FS_EmptySet
  \* A start that waits while the game is finished crosses it.
  <2>8. S > 0 => MostWins' = Cardinality(Sockets) + Cardinality(Calls)
    <3>1. StartsOf(g) # {} => crossed'
      BY DEF StartsOf, finishGame
    <3>2. S > 0 => StartsOf(g) # {}
      BY FS_EmptySet
    <3> QED
      BY <3>1, <3>2 DEF MostWins
  <2>9. Cardinality(Sockets) \in Nat /\ Cardinality(Calls) \in Nat /\ Cardinality(Sockets) <= MostWins'
    BY GamesCounted, CallsAreCounted DEF MostWins
  <2>a. moment < t => WonIn(g, T)' = {} /\ WaitingWins(g, T)' = {}
    BY <1>4, <1>6, <1>8, <2>4, <2>6
  <2>b. ASSUME t <= moment, moment < t + GameCooldown PROVE W + K1 + L1 + S <= MostWins'
    <3>1. CASE lastFinish[g] >= t
      <4>1. W + K + L + S <= MostWins
        BY <1>6, <2>b, <3>1
      <4> HIDE DEF W, K, L, S, K1, L1
      <4> QED
        BY <1>7, <1>9, <2>3, <2>5, <4>1
    <3>2. CASE lastFinish[g] < t
      <4>1. W = 0 /\ K = 0
        BY <2>7, <3>2
      <4> HIDE DEF W, K, L, S, K1, L1
      <4> QED
        BY <1>7, <1>9, <2>3, <2>5, <2>8, <2>9, <4>1
    <3> QED
      BY <1>8, <3>1, <3>2
  <2>c. W + K1 <= MostWins'
    <3>1. CASE moment \in T
      <4>1. LiveOf(g)' \in SUBSET Sockets
        BY DEF LiveOf
      <4>2. L1 \in Nat
        BY <4>1, GamesCounted
      <4> HIDE DEF W, K, L, S, K1, L1
      <4> QED
        BY <1>7, <1>9, <2>5, <2>6, <2>b, <3>1, <4>2
    <3>2. CASE moment \notin T
      <4>1. K1 = K
        BY <2>4, <3>2
      <4> HIDE DEF W, K, K1
      <4> QED
        BY <1>6, <1>7, <1>9, <4>1 DEF W, K
    <3> QED
      BY <3>1, <3>2
  <2> HIDE DEF W, K, L, S, K1, L1, S1
  <2>d. S1 = S
    BY <1>5 DEF S, S1
  <2>e. lastFinish'[g] >= t /\ moment' < t + GameCooldown => W + K1 + L1 + S1 <= MostWins'
    BY <2>1, <2>b, <2>d
  <2>f. lastFinish'[g] < t => WonIn(g, T)' = {} /\ WaitingWins(g, T)' = {}
    BY <2>1, <2>a
  <2>g. lastFinish'[g] <= moment' /\ IsFiniteSet(WonIn(g, T)')
    BY <1>4, <1>6, <1>8, <2>1
  <2> QED
    BY <1>4, <2>c, <2>e, <2>f, <2>g DEF W, K1, L1, S1
<1> QED
  BY <1>a, <1>b

\* A power written is a win that no longer waits.
LEMMA GivenSpaced ==
    ASSUME GamesTypeOK, SpacedInv, StartsInv, NEW c \in Calls, PowerGiven(c)
    PROVE  SpacedInv'
<1> DEFINE g0 == gcall[c].game
           a0 == gcall[c].at
<1>0. g0 \in Slugs /\ a0 \in Moments /\ DOMAIN gcall = Calls /\ GIdle.pc = "idle" /\ wins[g0] \in [Moments -> Nat]
  BY DEF PowerGiven, StartsInv, GamesTypeOK, GIdle, GCall
<1>1. /\ gcall'[c].pc = "idle" /\ \A d \in Calls : d # c => gcall'[d] = gcall[d]
      /\ gcall[c].pc = "win"
      /\ UNCHANGED <<moment, session, lastFinish, crossed>>
  BY <1>0 DEF PowerGiven
<1>2. /\ wins'[g0][a0] = wins[g0][a0] + 1
      /\ \A u \in Moments : u # a0 => wins'[g0][u] = wins[g0][u]
      /\ \A g \in Slugs : g # g0 => wins'[g] = wins[g]
  BY <1>0 DEF PowerGiven, GamesTypeOK
<1> SUFFICES ASSUME NEW g \in Slugs, NEW t \in Moments
             PROVE  LET T == CooldownFrom(t)
                        won == Cardinality(WonIn(g, T)') + Cardinality(WaitingWins(g, T)')
                    IN  /\ IsFiniteSet(WonIn(g, T)')
                        /\ lastFinish'[g] <= moment'
                        /\ lastFinish'[g] < t => WonIn(g, T)' = {} /\ WaitingWins(g, T)' = {}
                        /\ won <= MostWins'
                        /\ lastFinish'[g] >= t /\ moment' < t + GameCooldown =>
                              won + Cardinality(LiveOf(g)') + Cardinality(StartsOf(g)') <= MostWins'
  BY DEF SpacedInv, CooldownFrom
<1> DEFINE T == CooldownFrom(t)
           W == Cardinality(WonIn(g, T))
           K == Cardinality(WaitingWins(g, T))
           W1 == Cardinality(WonIn(g, T)')
           K1 == Cardinality(WaitingWins(g, T)')
<1>3. LiveOf(g)' = LiveOf(g) /\ StartsOf(g)' = StartsOf(g) /\ MostWins' = MostWins
  BY <1>1 DEF LiveOf, StartsOf, MostWins
<1>4. /\ IsFiniteSet(WonIn(g, T)) /\ lastFinish[g] <= moment /\ W + K <= MostWins
      /\ lastFinish[g] < t => WonIn(g, T) = {} /\ WaitingWins(g, T) = {}
      /\ lastFinish[g] >= t /\ moment < t + GameCooldown => W + K + Cardinality(LiveOf(g)) + Cardinality(StartsOf(g)) <= MostWins
  BY DEF SpacedInv
<1>5. CASE g # g0 \/ a0 \notin T
  <2>1. WonIn(g, T)' = WonIn(g, T)
    BY <1>2, <1>5 DEF WonIn, Numbered, CooldownFrom
  <2>2. WaitingWins(g, T)' = WaitingWins(g, T)
    BY <1>1, <1>5 DEF WaitingWins
  <2> QED
    BY <1>1, <1>3, <1>4, <2>1, <2>2
<1>6. CASE g = g0 /\ a0 \in T
  <2> DEFINE n == wins[g0][a0] + 1
  <2>0. wins[g0][a0] \in Nat
    BY <1>0
  <2>1. WonIn(g, T)' = WonIn(g, T) \cup {<<a0, n>>} /\ <<a0, n>> \notin WonIn(g, T)
    <3>1. 1 .. n = (1 .. wins[g0][a0]) \cup {n} /\ n \notin 1 .. wins[g0][a0]
      BY <2>0
    <3>2. WonIn(g, T)' = UNION {{u} \X (1 .. wins'[g][u]) : u \in T}
      BY DEF WonIn, Numbered, CooldownFrom
    <3>3. \A u \in T : {u} \X (1 .. wins'[g][u]) = IF u = a0 THEN ({u} \X (1 .. wins[g][u])) \cup {<<a0, n>>}
                                                             ELSE {u} \X (1 .. wins[g][u])
      <4>1. ASSUME NEW u \in T, u # a0 PROVE {u} \X (1 .. wins'[g][u]) = {u} \X (1 .. wins[g][u])
        BY <1>2, <1>6, <4>1 DEF CooldownFrom
      <4>2. {a0} \X (1 .. wins'[g][a0]) = ({a0} \X (1 .. wins[g][a0])) \cup {<<a0, n>>}
        BY <1>2, <1>6, <3>1
      <4> QED
        BY <4>1, <4>2
    <3>4. WonIn(g, T) = UNION {{u} \X (1 .. wins[g][u]) : u \in T}
      BY DEF WonIn, Numbered
    <3>5. <<a0, n>> \notin WonIn(g, T)
      BY <1>6, <3>1, <3>4
    <3>6. ASSUME NEW x PROVE x \in WonIn(g, T)' <=> x \in WonIn(g, T) \cup {<<a0, n>>}
      BY <1>6, <3>2, <3>3, <3>4
    <3> QED
      BY <3>5, <3>6
  <2>2. W1 = W + 1 /\ IsFiniteSet(WonIn(g, T)')
    <3>1. IsFiniteSet(WonIn(g, T))
      BY <1>4
    <3> QED
      BY <2>1, <3>1, FS_AddElement
  <2>3. WaitingWins(g, T)' = WaitingWins(g, T) \ {c} /\ c \in WaitingWins(g, T)
    BY <1>1, <1>6 DEF WaitingWins
  <2>4. K1 = K - 1
    <3>1. IsFiniteSet(WaitingWins(g, T))
      BY GamesCounted
    <3> QED
      BY <2>3, <3>1, FS_RemoveElement
  <2>5. W \in Nat /\ K \in Nat
    BY <1>4, FS_CardinalityType, GamesCounted
  <2>6. ~(lastFinish[g] < t)
    BY <1>4, <2>3
  <2>7. W1 + K1 = W + K
    BY <2>2, <2>4, <2>5
  <2> HIDE DEF W, K, W1, K1
  <2> QED
    BY <1>1, <1>3, <1>4, <2>2, <2>6, <2>7 DEF W, K, W1, K1
<1> QED
  BY <1>5, <1>6

LEMMA SpacedStep ==
    ASSUME GamesTypeOK, GamesTypeOK', SpacedInv, StartsInv, [GamesNext]_gamesVars
    PROVE  SpacedInv'
<1>0. DOMAIN gcall = Calls /\ DOMAIN session = Sockets /\ GIdle.pc = "idle"
      /\ \A pc, s, h, t : LET q == GCall(pc, s, h, t) IN q.pc = pc /\ q.socket = s /\ q.game = h
      /\ \A g, m : Session(g, m).game = g
      /\ moment \in Int
  BY DEF GamesTypeOK, GIdle, GCall, Session, Moments
<1>l. ASSUME session' = session PROVE \A g : LiveOf(g)' = LiveOf(g)
  BY <1>l DEF LiveOf
<1>s. ASSUME gcall' = gcall PROVE \A g, T : StartsOf(g)' = StartsOf(g) /\ WaitingWins(g, T)' = WaitingWins(g, T)
  BY <1>s DEF StartsOf, WaitingWins
<1>n. \A g : /\ Cardinality(LiveOf(g)) \in Nat /\ Cardinality(StartsOf(g)) \in Nat
             /\ IsFiniteSet(LiveOf(g)) /\ IsFiniteSet(StartsOf(g))
  BY GamesCounted
<1>1. CASE UNCHANGED gamesVars
  <2>1. gcall' = gcall /\ session' = session
    BY <1>1 DEF gamesVars
  <2>2. UNCHANGED <<wins, lastFinish, crossed>> /\ moment' >= moment
    BY <1>0, <1>1 DEF gamesVars
  <2>3. ASSUME NEW g
        PROVE  Cardinality(LiveOf(g)') + Cardinality(StartsOf(g)') <= Cardinality(LiveOf(g)) + Cardinality(StartsOf(g))
    <3>1. LiveOf(g)' = LiveOf(g) /\ StartsOf(g)' = StartsOf(g)
      BY <1>l, <1>s, <2>1
    <3> QED
      BY <1>n, <3>1
  <2> QED
    BY <1>s, <2>1, <2>2, <2>3, SpacedStays
<1>2. CASE MomentPasses
  <2>1. gcall' = gcall /\ session' = session
    BY <1>2 DEF MomentPasses
  <2>2. UNCHANGED <<wins, lastFinish, crossed>> /\ moment' >= moment
    BY <1>0, <1>2 DEF MomentPasses
  <2>3. ASSUME NEW g
        PROVE  Cardinality(LiveOf(g)') + Cardinality(StartsOf(g)') <= Cardinality(LiveOf(g)) + Cardinality(StartsOf(g))
    <3>1. LiveOf(g)' = LiveOf(g) /\ StartsOf(g)' = StartsOf(g)
      BY <1>l, <1>s, <2>1
    <3> QED
      BY <1>n, <3>1
  <2> QED
    BY <1>s, <2>1, <2>2, <2>3, SpacedStays
\* A start that begins to wait is for a game that has cooled.
<1>3. ASSUME NEW c \in Calls, NEW s \in Sockets, NEW h \in Slugs, gameStart(c, s, h) PROVE SpacedInv'
  <2>1. /\ gcall[c].pc = "idle" /\ gcall'[c].pc = "start" /\ gcall'[c].game = h
        /\ \A d \in Calls : d # c => gcall'[d] = gcall[d]
        /\ Cooled(h) /\ session' = session
    BY <1>0, <1>3 DEF gameStart
  <2>2. UNCHANGED <<wins, lastFinish, crossed>> /\ moment' >= moment
    BY <1>0, <1>3 DEF gameStart
  <2>3. \A g, T : WaitingWins(g, T)' \subseteq WaitingWins(g, T)
    BY <2>1 DEF WaitingWins
  <2>4. \A g : g # h => StartsOf(g)' = StartsOf(g)
    BY <2>1 DEF StartsOf
  <2>5. \A g \in Slugs : \/ Cardinality(LiveOf(g)') + Cardinality(StartsOf(g)') <= Cardinality(LiveOf(g)) + Cardinality(StartsOf(g))
                         \/ Cooled(g)
    BY <1>l, <1>n, <2>1, <2>4
  <2> QED
    BY <2>2, <2>3, <2>5, SpacedStays
<1>4. ASSUME NEW s \in Sockets, NEW ok \in BOOLEAN, session[s] # None, finishGame(s, ok) PROVE SpacedInv'
  BY <1>4, FinishSpaced
<1>5. ASSUME NEW s \in Sockets, disconnect(s) PROVE SpacedInv'
  <2>1. /\ gcall' = gcall
        /\ session'[s] = None /\ \A u \in Sockets : u # s => session'[u] = session[u]
    BY <1>0, <1>5 DEF disconnect
  <2>2. UNCHANGED <<wins, lastFinish, crossed>> /\ moment' >= moment
    BY <1>0, <1>5 DEF disconnect
  <2>3. \A g : LiveOf(g)' \subseteq LiveOf(g)
    BY <2>1 DEF LiveOf
  <2>4. \A g : Cardinality(LiveOf(g)') \in Nat /\ Cardinality(LiveOf(g)') <= Cardinality(LiveOf(g))
    BY <1>n, <2>3, FS_Subset, FS_CardinalityType
  <2>5. \A g : Cardinality(LiveOf(g)') + Cardinality(StartsOf(g)') <= Cardinality(LiveOf(g)) + Cardinality(StartsOf(g))
    BY <1>n, <1>s, <2>1, <2>4
  <2> QED
    BY <1>s, <2>1, <2>2, <2>5, SpacedStays
\* A start that ends is at most one more session.
<1>6. ASSUME NEW c \in Calls, GameStarted(c) PROVE SpacedInv'
  <2>0. PICK h \in Slugs, s \in Sockets : h = gcall[c].game /\ s = gcall[c].socket
    BY <1>6 DEF GameStarted, StartsInv
  <2>1. /\ gcall[c].pc = "start" /\ gcall'[c].pc = "idle" /\ \A d \in Calls : d # c => gcall'[d] = gcall[d]
        /\ session'[s].game = h /\ \A u \in Sockets : u # s => session'[u] = session[u]
    BY <1>0, <1>6, <2>0 DEF GameStarted
  <2>2. UNCHANGED <<wins, lastFinish, crossed>> /\ moment' >= moment
    BY <1>0, <1>6 DEF GameStarted
  <2>3. \A g, T : WaitingWins(g, T)' \subseteq WaitingWins(g, T)
    BY <2>1 DEF WaitingWins
  <2>4. ASSUME NEW g, g # h
        PROVE  Cardinality(LiveOf(g)') + Cardinality(StartsOf(g)') <= Cardinality(LiveOf(g)) + Cardinality(StartsOf(g))
    <3>1. LiveOf(g)' \subseteq LiveOf(g) /\ StartsOf(g)' = StartsOf(g)
      BY <2>0, <2>1, <2>4 DEF LiveOf, StartsOf
    <3>2. Cardinality(LiveOf(g)') \in Nat /\ Cardinality(LiveOf(g)') <= Cardinality(LiveOf(g))
      BY <1>n, <3>1, FS_Subset, FS_CardinalityType
    <3> QED
      BY <1>n, <3>1, <3>2
  <2>5. Cardinality(LiveOf(h)') + Cardinality(StartsOf(h)') <= Cardinality(LiveOf(h)) + Cardinality(StartsOf(h))
    <3>0. LiveOf(h)' \subseteq LiveOf(h) \cup {s}
      BY <2>1 DEF LiveOf
    <3>1. StartsOf(h)' = StartsOf(h) \ {c} /\ c \in StartsOf(h)
      <4>1. c \in StartsOf(h)
        BY <2>0, <2>1 DEF StartsOf
      <4>2. \A d \in Calls : d \in StartsOf(h)' <=> d \in StartsOf(h) /\ d # c
        BY <2>1 DEF StartsOf
      <4> QED
        BY <4>1, <4>2 DEF StartsOf
    <3>2. IsFiniteSet(LiveOf(h)) /\ IsFiniteSet(StartsOf(h)) /\ Cardinality(LiveOf(h)) \in Nat /\ Cardinality(StartsOf(h)) \in Nat
      BY <1>n
    <3>3. Cardinality(StartsOf(h)') = Cardinality(StartsOf(h)) - 1
      BY <3>1, <3>2, FS_RemoveElement
    <3> DEFINE X == LiveOf(h) \cup {s}
    <3>4. IsFiniteSet(X) /\ (Cardinality(X) = Cardinality(LiveOf(h)) \/ Cardinality(X) = Cardinality(LiveOf(h)) + 1)
      BY <3>2, FS_AddElement
    <3>5. LiveOf(h)' \subseteq X
      BY <3>0
    <3> HIDE DEF X
    <3>6. Cardinality(LiveOf(h)') \in Nat /\ Cardinality(LiveOf(h)') <= Cardinality(X)
      BY <3>4, <3>5, FS_Subset, FS_CardinalityType
    <3> QED
      BY <3>2, <3>3, <3>4, <3>6
  <2>6. ASSUME NEW g
        PROVE  Cardinality(LiveOf(g)') + Cardinality(StartsOf(g)') <= Cardinality(LiveOf(g)) + Cardinality(StartsOf(g))
    BY <2>4, <2>5
  <2> QED
    BY <2>2, <2>3, <2>6, SpacedStays
<1>7. ASSUME NEW c \in Calls, StartFails(c) \/ PowerFails(c) PROVE SpacedInv'
  <2>1. gcall'[c].pc = "idle" /\ \A d \in Calls : d # c => gcall'[d] = gcall[d]
    BY <1>0, <1>7 DEF StartFails, PowerFails
  <2>2. UNCHANGED <<wins, lastFinish, crossed, session>> /\ moment' >= moment
    BY <1>0, <1>7 DEF StartFails, PowerFails
  <2>3. \A g, T : WaitingWins(g, T)' \subseteq WaitingWins(g, T) /\ StartsOf(g)' \subseteq StartsOf(g)
    BY <2>1 DEF WaitingWins, StartsOf
  <2>4. \A g : Cardinality(StartsOf(g)') \in Nat /\ Cardinality(StartsOf(g)') <= Cardinality(StartsOf(g))
    BY <1>n, <2>3, FS_Subset, FS_CardinalityType
  <2>5. \A g : Cardinality(LiveOf(g)') + Cardinality(StartsOf(g)') <= Cardinality(LiveOf(g)) + Cardinality(StartsOf(g))
    BY <1>l, <1>n, <2>2, <2>4
  <2> QED
    BY <2>2, <2>3, <2>5, SpacedStays
<1>8. ASSUME NEW c \in Calls, PowerGiven(c) PROVE SpacedInv'
  BY <1>8, GivenSpaced
<1>9. CASE Restart
  <2>1. /\ \A g \in Slugs : lastFinish'[g] = -1
        /\ \A g \in Slugs, u \in Moments : wins'[g][u] = 0
        /\ \A c \in Calls : gcall'[c].pc = "idle"
        /\ moment' = moment /\ moment \in Nat /\ Moments \subseteq Nat
    BY <1>0, <1>9 DEF Restart, Unfinished, Moments, GamesTypeOK
  <2>2. ASSUME NEW g \in Slugs, NEW t \in Moments
        PROVE  LET T == CooldownFrom(t) IN WonIn(g, T)' = {} /\ WaitingWins(g, T)' = {}
    <3>1. \A u \in CooldownFrom(t) : wins'[g][u] = 0
      BY <2>1 DEF CooldownFrom
    <3>2. WonIn(g, CooldownFrom(t))' = UNION {{u} \X (1 .. wins'[g][u]) : u \in CooldownFrom(t)}
      BY DEF WonIn, Numbered, CooldownFrom
    <3>3. WaitingWins(g, CooldownFrom(t))' = {}
      BY <2>1 DEF WaitingWins
    <3> QED
      BY <3>1, <3>2, <3>3
  <2>3. MostWins' \in Nat
    BY GamesCounted, CallsAreCounted DEF MostWins
  <2>4. \A T : CooldownFrom(T)' = CooldownFrom(T)
    BY DEF CooldownFrom
  <2>5. IsFiniteSet({}) /\ Cardinality({}) = 0
    BY FS_EmptySet
  <2> QED
    BY <2>1, <2>2, <2>3, <2>4, <2>5 DEF SpacedInv
<1> QED
  BY <1>1, <1>2, <1>3, <1>4, <1>5, <1>6, <1>7, <1>8, <1>9 DEF GamesNext, actionWins, gameEnd

LEMMA GamesStep == ASSUME GamesInv, [GamesNext]_gamesVars PROVE GamesInv'
<1>1. GamesTypeOK'
  BY GamesTypes DEF GamesInv
<1> QED
  BY <1>1, StartsStep, LiveStep, SpacedStep DEF GamesInv

LEMMA PowersSpaced == GamesInv => PowersAreSpaced /\ SessionsAreLive
<1> SUFFICES ASSUME GamesInv, NEW g \in Slugs, NEW t \in Moments
             PROVE  Cardinality(WonIn(g, CooldownFrom(t))) <= MostWins
  BY DEF PowersAreSpaced, MostWins, GamesInv
<1>1. /\ IsFiniteSet(WonIn(g, CooldownFrom(t)))
      /\ Cardinality(WonIn(g, CooldownFrom(t))) + Cardinality(WaitingWins(g, CooldownFrom(t))) <= MostWins
  BY DEF GamesInv, SpacedInv
<1>2. Cardinality(WaitingWins(g, CooldownFrom(t))) \in Nat /\ MostWins \in Nat
  BY GamesCounted DEF GamesInv
<1> QED
  BY <1>1, <1>2, FS_CardinalityType

\* In any cooldown a game gives one power for each tab at most, and one more for
\* each start that waited while a game was finished; and a session is dropped
\* with its socket, unless the socket closed while its start waited.
THEOREM GamesAreSpaced == GamesSpec => [](GamesTypeOK /\ PowersAreSpaced /\ SessionsAreLive)
<1>1. GamesInv /\ [GamesNext]_gamesVars => GamesInv'
  BY GamesStep
<1>2. GamesInv => GamesTypeOK /\ PowersAreSpaced /\ SessionsAreLive
  BY PowersSpaced DEF GamesInv
<1> QED
  BY <1>1, <1>2, GamesBegins, PTL DEF GamesSpec
-----------------------------------------------------------------------------
(* Memory.                                                                  *)

\* A timer of the session's game closes the two cards that are up, and the
\* cards that fade are not shown.
ClosingInv ==
    /\ board.up \cap CardsOf(board.matched) = {}
    /\ \A t \in closing : t.own => board.live /\ t.cards = board.up /\ Cardinality(t.cards) = 2
    /\ ~late => shown \subseteq symbols /\ shown \cap fading = {}

MemoryInv == MemoryTypeOK /\ ClosingInv /\ TabShowsBoard /\ CardsWillClose

LEMMA CardsAreCounted ==
    /\ \A S \in SUBSET Cards : IsFiniteSet(S) /\ Cardinality(S) \in Nat
    /\ \A M : CardsOf(M) = M \X {1, 2}
    /\ \A M \in SUBSET Pairs : CardsOf(M) \subseteq Cards
<1>1. IsFiniteSet({1, 2})
  <2>1. IsFiniteSet({1})
    BY FS_Singleton
  <2>2. IsFiniteSet({1} \cup {2})
    BY <2>1, FS_AddElement
  <2>3. {1, 2} = {1} \cup {2}
    OBVIOUS
  <2> QED
    BY <2>2, <2>3
<1>2. IsFiniteSet(Cards)
  BY <1>1, MemoryAssumption, FS_Product DEF Cards
<1> QED
  BY <1>2, FS_Subset, FS_CardinalityType DEF Cards, CardsOf

LEMMA MemoryRecords ==
    /\ \A l, m, u : Board(l, m, u).live = l /\ Board(l, m, u).matched = m /\ Board(l, m, u).up = u
    /\ \A l \in BOOLEAN, m \in SUBSET Pairs, u \in SUBSET Cards :
          Board(l, m, u) \in [live: BOOLEAN, matched: SUBSET Pairs, up: SUBSET Cards]
BY DEF Board

LEMMA MemoryBegins == MemoryInit => MemoryInv
<1> SUFFICES ASSUME MemoryInit PROVE MemoryInv
  OBVIOUS
<1>1. board.live = FALSE /\ board.matched = {} /\ board.up = {}
  BY DEF MemoryInit, Board
<1>2. board \in [live: BOOLEAN, matched: SUBSET Pairs, up: SUBSET Cards]
  BY DEF MemoryInit, Board
<1>3. MemoryTypeOK
  BY <1>2 DEF MemoryInit, MemoryTypeOK
<1>4. ClosingInv
  BY <1>1 DEF MemoryInit, ClosingInv
<1> QED
  BY <1>1, <1>3, <1>4 DEF MemoryInv, TabShowsBoard, CardsWillClose

LEMMA OrphansAre ==
    ASSUME MemoryTypeOK
    PROVE  Orphaned \subseteq [cards: SUBSET Cards, own: BOOLEAN] /\ \A t \in Orphaned : ~t.own
<1>1. ASSUME NEW t \in closing
      PROVE  [t EXCEPT !.own = FALSE] \in [cards: SUBSET Cards, own: BOOLEAN] /\ [t EXCEPT !.own = FALSE].own = FALSE
  <2>1. t \in [cards: SUBSET Cards, own: BOOLEAN]
    BY DEF MemoryTypeOK
  <2> QED
    BY <2>1
<1> QED
  BY <1>1 DEF Orphaned

LEMMA FlipStep ==
    ASSUME MemoryInv, NEW card \in Cards, flip(card), Flippable(card)
    PROVE  MemoryInv'
<1> DEFINE up == board.up \cup {card}
           new == {p \in Pairs : CardsOf({p}) \subseteq up}
           matched == board.matched \cup new
<1>0. /\ board.live /\ card \notin board.up /\ card \notin CardsOf(board.matched)
      /\ board.matched \in SUBSET Pairs /\ board.up \in SUBSET Cards
      /\ Cardinality(board.up) < 2
  BY DEF Flippable, Open, MemoryInv, MemoryTypeOK
<1>1. /\ board' = Board(matched # Pairs, matched, up \ CardsOf(matched))
      /\ closing' = IF matched = Pairs THEN Orphaned
                    ELSE IF Cardinality(up) = 2 /\ matched = board.matched THEN TimerSet(up) ELSE closing
      /\ shown' = shown \cup {card} /\ symbols' = symbols \cup {card}
      /\ late' = (late \/ fading # {})
      /\ clicked' = clicked \ {card} /\ UNCHANGED <<fading, mixed>>
  BY DEF flip
<1>2. up \in SUBSET Cards /\ matched \in SUBSET Pairs /\ new \in SUBSET Pairs
  BY <1>0
<1>3. board'.live = (matched # Pairs) /\ board'.matched = matched /\ board'.up = up \ CardsOf(matched)
  <2> HIDE DEF up, matched
  <2> QED
    BY <1>1 DEF Board
<1>4. CardsOf(matched) = CardsOf(board.matched) \cup CardsOf(new) /\ CardsOf(new) \subseteq up
  BY DEF CardsOf
<1>5. Open' = Open \cup {card}
  <2>1. Open' = board'.up \cup CardsOf(board'.matched)
    BY DEF Open, CardsOf
  <2> HIDE DEF up, matched, new
  <2>2. Open' = (up \ CardsOf(matched)) \cup CardsOf(matched)
    BY <1>3, <2>1
  <2>3. Open' = up \cup CardsOf(board.matched)
    BY <1>4, <2>2
  <2> QED
    BY <2>3 DEF Open, up
<1>6. up \cap CardsOf(board.matched) = {}
  BY <1>0 DEF MemoryInv, ClosingInv
<1>7. Cardinality(up) = Cardinality(board.up) + 1 /\ IsFiniteSet(up) /\ Cardinality(board.up) \in Nat
  BY <1>0, <1>2, CardsAreCounted, FS_AddElement
\* Two cards stay up only when they are not a pair.
<1>8. /\ Cardinality(board'.up) \in Nat /\ Cardinality(board'.up) <= Cardinality(up)
      /\ Cardinality(board'.up) = 2 => board'.up = up /\ matched = board.matched /\ Cardinality(up) = 2
  <2> HIDE DEF up, matched, new
  <2>1. board'.up \subseteq up
    BY <1>3
  <2>2. Cardinality(board'.up) \in Nat /\ Cardinality(board'.up) <= Cardinality(up)
    BY <1>7, <2>1, FS_Subset, FS_CardinalityType
  <2>3. ASSUME Cardinality(board'.up) = 2 PROVE board'.up = up /\ matched = board.matched /\ Cardinality(up) = 2
    <3>1. Cardinality(up) = 2
      BY <1>0, <1>7, <2>2, <2>3
    <3>2. board'.up = up
      BY <1>7, <2>1, <2>3, <3>1, FS_Subset
    <3>3. up \cap CardsOf(new) = {}
      BY <1>3, <1>4, <3>2
    <3>4. CardsOf(new) = {}
      BY <1>4, <3>3
    <3>5. new = {}
      <4>1. \A p \in new : <<p, 1>> \in CardsOf(new)
        BY DEF CardsOf
      <4> QED
        BY <3>4, <4>1
    <3> QED
      BY <3>1, <3>2, <3>5 DEF matched
  <2> QED
    BY <2>2, <2>3
\* No timer of this game was set while fewer than two cards were up.
<1>9. \A t \in closing : ~t.own
  BY <1>0 DEF MemoryInv, ClosingInv
<1>t. MemoryTypeOK'
  <2>1. board' \in [live: BOOLEAN, matched: SUBSET Pairs, up: SUBSET Cards]
    BY <1>1, <1>2, MemoryRecords
  <2>2. TimerSet(up) \subseteq [cards: SUBSET Cards, own: BOOLEAN]
    <3>1. [cards |-> up, own |-> TRUE] \in [cards: SUBSET Cards, own: BOOLEAN]
      BY <1>2
    <3> QED
      BY <3>1 DEF TimerSet, MemoryInv, MemoryTypeOK
  <2>3. closing' \subseteq [cards: SUBSET Cards, own: BOOLEAN]
    <3> HIDE DEF up, matched
    <3> QED
      BY <1>1, <2>2, OrphansAre DEF MemoryInv, MemoryTypeOK
  <2>4. clicked' \in SUBSET Cards /\ shown' \in SUBSET Cards /\ fading' \in SUBSET Cards /\ symbols' \in SUBSET Cards
    BY <1>1 DEF MemoryInv, MemoryTypeOK
  <2>5. mixed' \in BOOLEAN /\ late' \in BOOLEAN
    BY <1>1 DEF MemoryInv, MemoryTypeOK
  <2> QED
    BY <2>1, <2>3, <2>4, <2>5 DEF MemoryTypeOK
<1>c. ClosingInv'
  <2>1. board'.up \cap CardsOf(board'.matched) = {}
    BY <1>3
  <2>2. ASSUME NEW t \in closing', t.own PROVE board'.live /\ t.cards = board'.up /\ Cardinality(t.cards) = 2
    <3>1. matched # Pairs
      BY <1>1, <2>2, OrphansAre DEF MemoryInv
    <3>2. Cardinality(up) = 2 /\ matched = board.matched /\ t = [cards |-> up, own |-> TRUE]
      <4> HIDE DEF up, matched
      <4> QED
        BY <1>1, <1>9, <2>2, <3>1 DEF TimerSet
    <3>3. board'.up = up
      BY <1>3, <1>6, <3>2
    <3>4. t.cards = up
      BY <3>2
    <3> QED
      BY <1>3, <3>1, <3>2, <3>3, <3>4
  <2>3. ~late' => shown' \subseteq symbols' /\ shown' \cap fading' = {}
    BY <1>1 DEF MemoryInv, ClosingInv
  <2>4. CardsOf(board.matched)' = CardsOf(board'.matched)
    BY DEF CardsOf
  <2> QED
    BY <2>1, <2>2, <2>3, <2>4 DEF ClosingInv
<1>s. TabShowsBoard'
  BY <1>0, <1>1, <1>5 DEF MemoryInv, TabShowsBoard
<1>w. CardsWillClose'
  <2>1. Cardinality(board'.up) <= 2
    BY <1>0, <1>7, <1>8
  <2>2. ASSUME board'.live, Cardinality(board'.up) = 2 PROVE [cards |-> board'.up, own |-> TRUE] \in closing'
    <3> HIDE DEF up, matched
    <3> QED
      BY <1>1, <1>3, <1>8, <2>2 DEF TimerSet
  <2> QED
    BY <2>1, <2>2 DEF CardsWillClose
<1> QED
  BY <1>t, <1>c, <1>s, <1>w DEF MemoryInv

LEMMA MemoryStep == ASSUME MemoryInv, [MemoryNext]_memoryVars PROVE MemoryInv'
<1>0. /\ MemoryTypeOK /\ ClosingInv /\ TabShowsBoard /\ CardsWillClose
      /\ IsFiniteSet({}) /\ Cardinality({}) = 0
  BY FS_EmptySet DEF MemoryInv
<1>1. CASE UNCHANGED memoryVars
  BY <1>0, <1>1 DEF memoryVars, MemoryInv, MemoryTypeOK, ClosingInv, TabShowsBoard, CardsWillClose, Open, CardsOf
<1>2. CASE memoryStart
  <2>1. board'.live = TRUE /\ board'.matched = {} /\ board'.up = {}
    BY <1>2 DEF memoryStart, Board
  <2>2. Open' = {}
    BY <2>1 DEF Open, CardsOf
  <2>3. board' \in [live: BOOLEAN, matched: SUBSET Pairs, up: SUBSET Cards]
    BY <1>2 DEF memoryStart, Board
  <2>4. MemoryTypeOK'
    BY <1>0, <1>2, <2>3, OrphansAre DEF memoryStart, MemoryTypeOK
  <2>5. ClosingInv'
    BY <1>0, <1>2, <2>1, OrphansAre DEF memoryStart, ClosingInv
  <2>6. TabShowsBoard'
    BY <1>2, <2>2 DEF memoryStart, TabShowsBoard
  <2>7. CardsWillClose'
    BY <1>0, <2>1 DEF CardsWillClose
  <2> QED
    BY <2>4, <2>5, <2>6, <2>7 DEF MemoryInv
<1>3. CASE memoryEnds
  <2>1. board \in [live: BOOLEAN, matched: SUBSET Pairs, up: SUBSET Cards]
    BY <1>0 DEF MemoryTypeOK
  <2>2. board'.live = FALSE /\ board'.matched = board.matched /\ board'.up = board.up
        /\ board' \in [live: BOOLEAN, matched: SUBSET Pairs, up: SUBSET Cards]
    BY <1>3, <2>1 DEF memoryEnds
  <2>3. MemoryTypeOK'
    BY <1>0, <1>3, <2>2, OrphansAre DEF memoryEnds, MemoryTypeOK
  <2>4. ClosingInv'
    BY <1>0, <1>3, <2>2, OrphansAre DEF memoryEnds, ClosingInv, CardsOf
  <2> QED
    BY <2>2, <2>3, <2>4 DEF MemoryInv, TabShowsBoard, CardsWillClose
<1>4. CASE mismatch
  <2>1. PICK t \in closing : /\ closing' = closing \ {t}
                             /\ board' = IF t.own THEN [board EXCEPT !.up = {}] ELSE board
                             /\ shown' = shown \ t.cards /\ fading' = fading \cup t.cards
                             /\ mixed' = (mixed \/ ~t.own)
                             /\ UNCHANGED <<clicked, symbols, late>>
    BY <1>4 DEF mismatch
  <2>2. t \in [cards: SUBSET Cards, own: BOOLEAN] /\ board \in [live: BOOLEAN, matched: SUBSET Pairs, up: SUBSET Cards]
    BY <1>0 DEF MemoryTypeOK
  <2>3. /\ board' \in [live: BOOLEAN, matched: SUBSET Pairs, up: SUBSET Cards]
        /\ board'.live = board.live /\ board'.matched = board.matched
        /\ board'.up = IF t.own THEN {} ELSE board.up
    BY <2>1, <2>2
  <2>4. MemoryTypeOK'
    <3>1. clicked' \in SUBSET Cards /\ shown' \in SUBSET Cards /\ fading' \in SUBSET Cards /\ symbols' \in SUBSET Cards
      BY <1>0, <2>1, <2>2 DEF MemoryTypeOK
    <3>2. mixed' \in BOOLEAN /\ late' \in BOOLEAN
      BY <1>0, <2>1, <2>2 DEF MemoryTypeOK
    <3>3. closing' \subseteq [cards: SUBSET Cards, own: BOOLEAN]
      BY <1>0, <2>1 DEF MemoryTypeOK
    <3> QED
      BY <2>3, <3>1, <3>2, <3>3 DEF MemoryTypeOK
  <2>5. ClosingInv'
    <3>1. board'.up \cap CardsOf(board'.matched) = {}
      BY <1>0, <2>3 DEF ClosingInv
    <3>2. ASSUME NEW u \in closing', u.own PROVE board'.live /\ u.cards = board'.up /\ Cardinality(u.cards) = 2
      <4>1. u \in closing /\ u # t /\ u.cards = board.up /\ board.live /\ Cardinality(u.cards) = 2
        BY <1>0, <2>1, <3>2 DEF ClosingInv
      <4>2. u \in [cards: SUBSET Cards, own: BOOLEAN]
        BY <1>0, <4>1 DEF MemoryTypeOK
      <4>3. ~t.own
        <5>1. ASSUME t.own PROVE t = u
          <6>1. t.cards = u.cards /\ t.own = u.own
            BY <1>0, <2>2, <3>2, <4>1, <4>2, <5>1 DEF ClosingInv
          <6> QED
            BY <2>2, <4>2, <6>1
        <5> QED
          BY <4>1, <5>1
      <4> QED
        BY <2>3, <4>1, <4>3
    <3>3. ~late' => shown' \subseteq symbols' /\ shown' \cap fading' = {}
      BY <1>0, <2>1 DEF ClosingInv
    <3>4. CardsOf(board.matched)' = CardsOf(board'.matched)
      BY DEF CardsOf
    <3> QED
      BY <3>1, <3>2, <3>3, <3>4 DEF ClosingInv
  <2>6. Open' = IF t.own THEN CardsOf(board.matched) ELSE Open
    BY <2>3 DEF Open, CardsOf
  <2>7. t.own => t.cards = board.up
    BY <1>0 DEF ClosingInv
  <2>8. TabShowsBoard'
    BY <1>0, <2>1, <2>3, <2>6, <2>7 DEF TabShowsBoard, ClosingInv, Open
  <2>9. CardsWillClose'
    <3>1. CASE t.own
      BY <1>0, <2>3, <3>1 DEF CardsWillClose
    <3>2. CASE ~t.own
      <4>1. \A S : [cards |-> S, own |-> TRUE] # t
        BY <3>2
      <4> QED
        BY <1>0, <2>1, <2>3, <3>2, <4>1 DEF CardsWillClose
    <3> QED
      BY <3>1, <3>2
  <2> QED
    BY <2>4, <2>5, <2>8, <2>9 DEF MemoryInv
<1>5. CASE symbolsFade
  <2>1. MemoryTypeOK'
    BY <1>0, <1>5 DEF symbolsFade, MemoryTypeOK
  <2>2. ClosingInv'
    BY <1>0, <1>5 DEF symbolsFade, ClosingInv, CardsOf
  <2> QED
    BY <1>0, <1>5, <2>1, <2>2 DEF symbolsFade, MemoryInv, TabShowsBoard, CardsWillClose, Open, CardsOf
<1>6. ASSUME NEW card \in Cards, handleMouseDown(card) \/ (flip(card) /\ ~Flippable(card)) PROVE MemoryInv'
  <2>1. clicked' \subseteq Cards /\ UNCHANGED <<board, closing, shown, fading, symbols, mixed, late>>
    BY <1>0, <1>6 DEF handleMouseDown, flip, MemoryTypeOK
  <2> QED
    BY <1>0, <2>1 DEF MemoryInv, MemoryTypeOK, ClosingInv, TabShowsBoard, CardsWillClose, Open, CardsOf
<1>7. ASSUME NEW card \in Cards, flip(card), Flippable(card) PROVE MemoryInv'
  BY <1>7, FlipStep
<1> QED
  BY <1>1, <1>2, <1>3, <1>4, <1>5, <1>6, <1>7 DEF MemoryNext

LEMMA MemorySound == MemoryInv => TabShowsBoard /\ CardsWillClose /\ SymbolsAreKnown
BY DEF MemoryInv, ClosingInv, SymbolsAreKnown

\* Whatever timers of earlier games are still to fire, the tab shows the cards
\* that are face up for the server, and two open cards have a timer that closes
\* them.
THEOREM MemoryIsShown ==
    MemorySpec => [](MemoryTypeOK /\ TabShowsBoard /\ CardsWillClose /\ SymbolsAreKnown)
<1>1. MemoryInv /\ [MemoryNext]_memoryVars => MemoryInv'
  BY MemoryStep
<1>2. MemoryInv => MemoryTypeOK /\ TabShowsBoard /\ CardsWillClose /\ SymbolsAreKnown
  BY MemorySound DEF MemoryInv
<1> QED
  BY <1>1, <1>2, MemoryBegins, PTL DEF MemorySpec
-----------------------------------------------------------------------------
(* Match-3.                                                                 *)

-----------------------------------------------------------------------------
(* Columns fall.                                                            *)

LEMMA GridIs ==
    /\ Width \in Nat \ {0} /\ Height \in Nat \ {0} /\ Goal \in Nat
    /\ Cols \subseteq Nat /\ Rows \subseteq Nat /\ IsFiniteSet(Rows) /\ IsFiniteSet(Grid)
    /\ \A p \in Grid : p[1] \in Cols /\ p[2] \in Rows /\ p = <<p[1], p[2]>>
    /\ \A y : y \in Rows <=> y \in Nat /\ y < Height
    /\ \A x : x \in Cols <=> x \in Nat /\ x < Width
<1>1. Width \in Nat \ {0} /\ Height \in Nat \ {0} /\ Goal \in Nat
  BY Match3Assumption
<1>2. /\ \A y : y \in Rows <=> y \in Nat /\ y < Height
      /\ \A x : x \in Cols <=> x \in Nat /\ x < Width
  BY <1>1 DEF Rows, Cols
<1>3. IsFiniteSet(Rows) /\ IsFiniteSet(Cols)
  BY <1>1, FS_Interval DEF Rows, Cols
<1>4. IsFiniteSet(Grid)
  BY <1>3, FS_Product DEF Grid
<1>5. \A p \in Grid : p[1] \in Cols /\ p[2] \in Rows /\ p = <<p[1], p[2]>>
  BY DEF Grid
<1> QED
  BY <1>1, <1>2, <1>3, <1>4, <1>5

LEMMA HolesAreCounted ==
    ASSUME NEW col
    PROVE  /\ \A y : IsFiniteSet(HolesFrom(col, y)) /\ Cardinality(HolesFrom(col, y)) \in Nat
           /\ Cardinality(HolesFrom(col, Height)) = 0
           /\ \A y \in Rows : Cardinality(HolesFrom(col, y)) =
                 Cardinality(HolesFrom(col, y + 1)) + (IF col[y] = Hole THEN 1 ELSE 0)
<1>1. \A y : IsFiniteSet(HolesFrom(col, y)) /\ Cardinality(HolesFrom(col, y)) \in Nat
  <2>1. \A y : HolesFrom(col, y) \in SUBSET Rows
    BY DEF HolesFrom
  <2> QED
    BY <2>1, GridIs, FS_Subset, FS_CardinalityType
<1>2. Cardinality(HolesFrom(col, Height)) = 0
  <2>1. HolesFrom(col, Height) = {}
    BY GridIs DEF HolesFrom
  <2> QED
    BY <2>1, FS_EmptySet
<1>3. ASSUME NEW y \in Rows
      PROVE  Cardinality(HolesFrom(col, y)) = Cardinality(HolesFrom(col, y + 1)) + (IF col[y] = Hole THEN 1 ELSE 0)
  <2>0. \A z \in Rows : (z >= y <=> z >= y + 1 \/ z = y) /\ ~(y >= y + 1)
    BY GridIs
  <2>1. CASE col[y] = Hole
    <3>1. HolesFrom(col, y) = HolesFrom(col, y + 1) \cup {y} /\ y \notin HolesFrom(col, y + 1)
      BY <2>0, <2>1 DEF HolesFrom
    <3>2. IsFiniteSet(HolesFrom(col, y + 1))
      BY <1>1
    <3> QED
      BY <2>1, <3>1, <3>2, FS_AddElement
  <2>2. CASE col[y] # Hole
    <3>1. HolesFrom(col, y) = HolesFrom(col, y + 1)
      BY <2>0, <2>2 DEF HolesFrom
    <3> QED
      BY <1>1, <2>2, <3>1
  <2> QED
    BY <2>1, <2>2
<1> QED
  BY <1>1, <1>2, <1>3

FallStep(column, f, y) ==
    IF y = Height THEN [col |-> column, empty |-> Height - 1]
    ELSE IF f[y + 1].col[y] = Hole THEN f[y + 1]
         ELSE [col |-> Fall(f[y + 1].col, y, f[y + 1].empty), empty |-> f[y + 1].empty - 1]

FallFrom(column, f, first) == [y \in first .. Height |-> FallStep(column, f, y)]

LEMMA FallFromIs == ASSUME NEW column PROVE \E f : f = FallFrom(column, f, 0)
<1> DEFINE Bad == {k \in Nat : k <= Height /\ ~\E f : f = FallFrom(column, f, Height - k)}
<1>0. Height \in Nat
  BY GridIs
<1>1. SUFFICES ASSUME Bad # {} PROVE FALSE
  <2>1. Height - Height = 0
    BY <1>0
  <2> QED
    BY <1>0, <2>1
<1>2. PICK k \in Bad : \A b \in Bad : k <= b
  <2> HIDE DEF Bad
  <2>1. Bad \subseteq Nat
    BY DEF Bad
  <2> QED
    BY <1>1, <2>1, LeastThereIs
<1>3. CASE k = 0
  <2> DEFINE g == [y \in Height - 0 .. Height |-> [col |-> column, empty |-> Height - 1]]
  <2>1. \A y \in Height - 0 .. Height : y = Height
    BY <1>0
  <2>2. g = FallFrom(column, g, Height - 0)
    BY <2>1 DEF FallFrom, FallStep
  <2> QED
    BY <1>2, <1>3, <2>2
<1>4. CASE k # 0
  <2>1. k \in Nat /\ k - 1 \in Nat /\ k - 1 \notin Bad /\ k <= Height /\ Height - (k - 1) = Height - k + 1
    BY <1>0, <1>2, <1>4
  <2>2. PICK f : f = FallFrom(column, f, Height - k + 1)
    BY <1>0, <2>1
  <2> DEFINE g == [y \in Height - k .. Height |-> FallStep(column, f, y)]
  <2>3. \A y \in Height - k + 1 .. Height : g[y] = f[y]
    BY <1>0, <2>1, <2>2 DEF FallFrom
  <2>4. \A y \in Height - k .. Height : y # Height => y + 1 \in Height - k + 1 .. Height
    BY <1>0, <2>1
  <2>5. \A y \in Height - k .. Height : FallStep(column, f, y) = FallStep(column, g, y)
    BY <2>3, <2>4 DEF FallStep
  <2>6. g = FallFrom(column, g, Height - k)
    BY <2>5 DEF FallFrom
  <2> QED
    BY <1>2, <2>6
<1> QED
  BY <1>3, <1>4

\* The column once the rows from y on have fallen: above y it is as it was, the
\* holes of those rows are above their symbols, and empty is the lowest of them.
FallenFrom(column, r, y) ==
    LET holes == Cardinality(HolesFrom(column, y)) IN
    /\ r.col \in [Rows -> Symbols \cup {Hole}]
    /\ r.empty = y - 1 + holes /\ r.empty < Height
    /\ \A z \in Rows :
          /\ z < y => r.col[z] = column[z]
          /\ z >= y => (r.col[z] = Hole <=> z <= r.empty)
          /\ z >= y /\ column[z] # Hole =>
                LET to == z + Cardinality(HolesFrom(column, z)) IN
                to > r.empty /\ to \in Rows /\ r.col[to] = column[z]

LEMMA FallStepFalls ==
    ASSUME NEW column \in [Rows -> Symbols \cup {Hole}], NEW f, NEW y \in Rows, FallenFrom(column, f[y + 1], y + 1)
    PROVE  FallenFrom(column, FallStep(column, f, y), y)
<1> DEFINE r == f[y + 1]
           s == FallStep(column, f, y)
           H(z) == Cardinality(HolesFrom(column, z))
<1>1. /\ y \in Nat /\ y < Height /\ y # Height /\ Height \in Nat
      /\ \A z : H(z) \in Nat
      /\ H(y) = H(y + 1) + (IF column[y] = Hole THEN 1 ELSE 0)
      /\ \A z : z \in Rows <=> z \in Nat /\ z < Height
  BY GridIs, HolesAreCounted
<1>2. /\ r.col \in [Rows -> Symbols \cup {Hole}] /\ r.empty = y + H(y + 1) /\ r.empty < Height
      /\ \A z \in Rows : /\ z < y + 1 => r.col[z] = column[z]
                         /\ z >= y + 1 => (r.col[z] = Hole <=> z <= r.empty)
                         /\ z >= y + 1 /\ column[z] # Hole => /\ z + H(z) > r.empty /\ z + H(z) \in Rows
                                                              /\ r.col[z + H(z)] = column[z]
  BY <1>1 DEF FallenFrom
<1>3. r.col[y] = column[y] /\ \A z \in Rows : z >= y => z = y \/ z >= y + 1
  BY <1>1, <1>2
<1> HIDE DEF H
<1>4. CASE column[y] = Hole
  <2>1. s = r
    BY <1>1, <1>3, <1>4 DEF FallStep
  <2>2. s.empty = y - 1 + H(y)
    BY <1>1, <1>2, <1>4, <2>1
  <2>3. \A z \in Rows : z >= y => (r.col[z] = Hole <=> z <= r.empty)
    BY <1>1, <1>2, <1>3, <1>4
  <2>4. \A z \in Rows : z >= y /\ column[z] # Hole => z + H(z) > r.empty /\ z + H(z) \in Rows /\ r.col[z + H(z)] = column[z]
    BY <1>2, <1>3, <1>4
  <2>5. \A z \in Rows : z < y => r.col[z] = column[z]
    BY <1>1, <1>2
  <2>6. FallenFrom(column, s, y)
    <3> HIDE DEF r, s
    <3>1. s.col \in [Rows -> Symbols \cup {Hole}] /\ s.empty < Height
      BY <1>2, <2>1
    <3>2. \A z \in Rows : /\ z < y => s.col[z] = column[z]
                          /\ z >= y => (s.col[z] = Hole <=> z <= s.empty)
                          /\ z >= y /\ column[z] # Hole => z + H(z) > s.empty /\ z + H(z) \in Rows /\ s.col[z + H(z)] = column[z]
      BY <2>1, <2>3, <2>4, <2>5
    <3> QED
      BY <2>2, <3>1, <3>2 DEF FallenFrom, H
  <2> QED
    BY <2>6
<1>5. CASE column[y] # Hole
  <2>1. s.col = Fall(r.col, y, r.empty) /\ s.empty = r.empty - 1
    BY <1>1, <1>3, <1>5 DEF FallStep
  <2>2. s.empty = y - 1 + H(y) /\ H(y) = H(y + 1) /\ r.empty = y + H(y) /\ r.empty \in Rows /\ s.empty < Height
    BY <1>1, <1>2, <1>5, <2>1
  <2>3. /\ s.col \in [Rows -> Symbols \cup {Hole}] /\ s.col[r.empty] = column[y]
        /\ r.empty # y => s.col[y] = Hole
        /\ \A z \in Rows : z # y /\ z # r.empty => s.col[z] = r.col[z]
    <3> HIDE DEF r, s
    <3>1. CASE r.empty = y
      BY <1>2, <1>3, <2>1, <3>1 DEF Fall
    <3>2. CASE r.empty # y
      BY <1>2, <1>3, <2>1, <2>2, <3>2 DEF Fall
    <3> QED
      BY <3>1, <3>2
  <2>4. ASSUME NEW z \in Rows, z < y PROVE s.col[z] = column[z]
    <3>1. z # y /\ z # r.empty /\ z < y + 1
      BY <1>1, <2>2, <2>4
    <3> QED
      BY <1>2, <2>3, <3>1
  <2>5. ASSUME NEW z \in Rows, z >= y PROVE s.col[z] = Hole <=> z <= s.empty
    <3>1. CASE z = r.empty
      BY <1>1, <1>5, <2>1, <2>2, <2>3, <3>1
    <3>2. CASE z # r.empty /\ z = y
      BY <1>1, <2>1, <2>2, <2>3, <3>2
    <3>3. CASE z # r.empty /\ z # y
      BY <1>1, <1>2, <1>3, <2>1, <2>2, <2>3, <2>5, <3>3
    <3> QED
      BY <3>1, <3>2, <3>3
  <2>6. ASSUME NEW z \in Rows, z >= y, column[z] # Hole
        PROVE  z + H(z) > s.empty /\ z + H(z) \in Rows /\ s.col[z + H(z)] = column[z]
    <3>1. CASE z = y
      <4>1. z + H(z) = r.empty
        BY <2>2, <3>1
      <4> QED
        BY <1>1, <2>1, <2>2, <2>3, <3>1, <4>1
    <3>2. CASE z # y
      <4>1. z + H(z) > r.empty /\ z + H(z) \in Rows /\ r.col[z + H(z)] = column[z]
        BY <1>2, <1>3, <2>6, <3>2
      <4>2. z + H(z) # r.empty /\ z + H(z) # y /\ z + H(z) > s.empty
        BY <1>1, <2>1, <2>2, <4>1
      <4> QED
        BY <2>3, <4>1, <4>2
    <3> QED
      BY <3>1, <3>2
  <2>7. FallenFrom(column, s, y)
    <3> HIDE DEF r, s
    <3> QED
      BY <2>2, <2>3, <2>4, <2>5, <2>6 DEF FallenFrom, H
  <2> QED
    BY <2>7
<1> QED
  BY <1>4, <1>5

LEMMA FallsToTheBottom ==
    ASSUME NEW column \in [Rows -> Symbols \cup {Hole}], NEW f, f = FallFrom(column, f, 0)
    PROVE  FallenFrom(column, f[0], 0)
<1> DEFINE Bad == {k \in Nat : k <= Height /\ ~FallenFrom(column, f[Height - k], Height - k)}
<1>0. Height \in Nat
  BY GridIs
<1>1. SUFFICES ASSUME Bad # {} PROVE FALSE
  <2>1. Height - Height = 0
    BY <1>0
  <2> QED
    BY <1>0, <2>1
<1>2. PICK k \in Bad : \A b \in Bad : k <= b
  <2> HIDE DEF Bad
  <2>1. Bad \subseteq Nat
    BY DEF Bad
  <2> QED
    BY <1>1, <2>1, LeastThereIs
<1>3. CASE k = 0
  <2>1. f[Height] = [col |-> column, empty |-> Height - 1]
    BY <1>0 DEF FallFrom, FallStep
  <2>2. \A z \in Rows : z < Height
    BY GridIs
  <2>3. f[Height].col = column /\ f[Height].empty = Height - 1
    BY <2>1
  <2>4. FallenFrom(column, f[Height], Height)
    <3>1. Cardinality(HolesFrom(column, Height)) = 0 /\ \A z \in Rows : ~(z >= Height)
      BY <1>0, <2>2, HolesAreCounted, GridIs
    <3> QED
      BY <1>0, <2>2, <2>3, <3>1 DEF FallenFrom
  <2>5. Height - 0 = Height
    BY <1>0
  <2> QED
    BY <1>2, <1>3, <2>4, <2>5
<1>4. CASE k # 0
  <2> DEFINE y == Height - k
  <2>1. k - 1 \in Nat /\ k - 1 \notin Bad /\ k \in Nat /\ k <= Height
    BY <1>2, <1>4
  <2>2. y \in Rows /\ Height - (k - 1) = y + 1 /\ y \in 0 .. Height
    BY <1>0, <1>4, <2>1, GridIs
  <2>3. FallenFrom(column, f[y + 1], y + 1)
    BY <1>0, <2>1, <2>2
  <2>4. f[y] = FallStep(column, f, y)
    BY <2>2 DEF FallFrom
  <2>5. FallenFrom(column, f[y], y)
    <3> HIDE DEF y
    <3> QED
      BY <2>2, <2>3, <2>4, FallStepFalls
  <2> QED
    BY <1>2, <2>5
<1> QED
  BY <1>3, <1>4

LEMMA ColumnFalls ==
    ASSUME NEW column \in [Rows -> Symbols \cup {Hole}]
    PROVE  FallenFrom(column, Fallen(column), 0)
<1> DEFINE f == CHOOSE step : step = FallFrom(column, step, 0)
<1>1. f = FallFrom(column, f, 0)
  BY FallFromIs
<1>2. Fallen(column) = f[0]
  BY DEF Fallen, FallFrom, FallStep
<1> HIDE DEF f
<1> QED
  BY <1>1, <1>2, FallsToTheBottom

-----------------------------------------------------------------------------
(* Boards are stable.                                                       *)

Equal3(g, p, q, r) == r \in Grid /\ g[p] # Hole /\ g[p] = g[q] /\ g[p] = g[r]

NoLines(g) == \A p \in Grid : ~Equal3(g, p, Right(p, 1), Right(p, 2)) /\ ~Equal3(g, p, Below(p, 1), Below(p, 2))

\* A board that is dealt is a stable beginning: a cell after one without a
\* symbol has none, and the last one is dealt last.
BoardInv ==
    /\ phase = "dealt" => /\ \E p \in Grid : grid[p] = Hole
                          /\ \A p, q \in Grid : grid[p] = Hole /\ NotAfter(p, q) => grid[q] = Hole
                          /\ NoLines(grid)
    /\ phase \in {"idle", "over", "falling"} => \A p \in Grid : grid[p] # Hole
    /\ phase \in {"idle", "over"} => NoLines(grid)

Match3Inv == Match3TypeOK /\ BoardInv

LEMMA Neighbours ==
    ASSUME NEW p \in Grid
    PROVE  /\ \A n \in Int : Right(p, n) = <<p[1] + n, p[2]>> /\ Below(p, n) = <<p[1], p[2] + n>>
           /\ Right(p, 2) \in Grid => Right(p, 1) \in Grid
           /\ Below(p, 2) \in Grid => Below(p, 1) \in Grid
<1>1. \A a, b : <<a, b>> \in Grid <=> a \in Nat /\ a < Width /\ b \in Nat /\ b < Height
  BY GridIs DEF Grid
<1>2. p[1] \in Nat /\ p[2] \in Nat /\ p[1] < Width /\ p[2] < Height
  BY GridIs
<1>3. Width \in Nat /\ Height \in Nat
  BY GridIs
<1> QED
  BY <1>1, <1>2, <1>3 DEF Right, Below

LEMMA MatchesAre ==
    ASSUME NEW g
    PROVE  /\ findMatches(g) \subseteq Grid
           /\ findMatches(g) = {} <=> NoLines(g)
<1>1. /\ Lines(g, Right) = {p \in Grid : Equal3(g, p, Right(p, 1), Right(p, 2))}
      /\ Lines(g, Below) = {p \in Grid : Equal3(g, p, Below(p, 1), Below(p, 2))}
  BY DEF Lines, Equal3
<1>2. \A z : z \in findMatches(g) <=>
         \/ \E p \in Grid : Equal3(g, p, Right(p, 1), Right(p, 2)) /\ z \in {p, Right(p, 1), Right(p, 2)}
         \/ \E p \in Grid : Equal3(g, p, Below(p, 1), Below(p, 2)) /\ z \in {p, Below(p, 1), Below(p, 2)}
  BY <1>1 DEF findMatches
<1>3. findMatches(g) \subseteq Grid
  BY <1>2, Neighbours DEF Equal3
<1>4. findMatches(g) = {} => NoLines(g)
  BY <1>2 DEF NoLines
<1>5. NoLines(g) => findMatches(g) = {}
  BY <1>2 DEF NoLines
<1> QED
  BY <1>3, <1>4, <1>5

\* While a board is dealt there is a first hole.
LEMMA FirstHoleIs ==
    ASSUME \E p \in Grid : grid[p] = Hole
    PROVE  FirstHole \in Grid /\ grid[FirstHole] = Hole /\ \A q \in Grid : grid[q] = Hole => NotAfter(FirstHole, q)
<1> DEFINE H == {p \in Grid : grid[p] = Hole}
           Ys == {y \in Rows : \E p \in H : p[2] = y}
<1>0. \A p \in Grid : p[1] \in Nat /\ p[2] \in Nat /\ p[1] \in Cols /\ p[2] \in Rows
  BY GridIs
<1>1. Ys \subseteq Nat /\ Ys # {}
  BY <1>0, GridIs
<1>2. PICK y \in Ys : \A z \in Ys : y <= z
  <2> HIDE DEF Ys
  <2> QED
    BY <1>1, LeastThereIs
<1> DEFINE Xs == {x \in Cols : \E p \in H : p[2] = y /\ p[1] = x}
<1>3. Xs \subseteq Nat /\ Xs # {}
  BY <1>0, <1>2, GridIs
<1>4. PICK x \in Xs : \A w \in Xs : x <= w
  <2> HIDE DEF Xs
  <2> QED
    BY <1>3, LeastThereIs
<1>5. PICK p \in H : p[2] = y /\ p[1] = x
  BY <1>4
<1>6. ASSUME NEW q \in H PROVE NotAfter(p, q)
  <2>1. q[2] \in Ys /\ y <= q[2]
    BY <1>0, <1>2
  <2>2. q[2] = y => q[1] \in Xs /\ x <= q[1]
    BY <1>0, <1>4
  <2> QED
    BY <1>0, <1>1, <1>2, <1>5, <2>1, <2>2 DEF NotAfter
<1>7. \E r \in Grid : grid[r] = Hole /\ \A q \in Grid : grid[q] = Hole => NotAfter(r, q)
  BY <1>5, <1>6
<1> QED
  BY <1>7 DEF FirstHole

LEMMA Match3Begins == Match3Init => Match3Inv
<1> SUFFICES ASSUME Match3Init PROVE Match3Inv
  OBVIOUS
<1>1. Match3TypeOK
  BY GridIs DEF Match3Init, Match3TypeOK
<1>2. <<0, 0>> \in Grid
  BY GridIs DEF Grid
<1>3. \A p \in Grid : grid[p] = Hole
  BY DEF Match3Init
<1>4. phase = "dealt"
  BY DEF Match3Init
<1> QED
  BY <1>1, <1>2, <1>3, <1>4 DEF Match3Inv, BoardInv, NoLines, Equal3

LEMMA DealStep ==
    ASSUME Match3Inv, generateStableBoard PROVE Match3Inv'
<1> DEFINE p0 == FirstHole
<1>0. /\ phase = "dealt" /\ grid \in [Grid -> Symbols \cup {Hole}] /\ cleared' = cleared /\ cleared \in 0 .. Goal
      /\ \E p \in Grid : grid[p] = Hole
      /\ \A p, q \in Grid : grid[p] = Hole /\ NotAfter(p, q) => grid[q] = Hole
      /\ NoLines(grid)
  BY DEF generateStableBoard, Match3Inv, Match3TypeOK, BoardInv
<1>1. p0 \in Grid /\ grid[p0] = Hole /\ \A q \in Grid : grid[q] = Hole => NotAfter(p0, q)
  BY <1>0, FirstHoleIs
<1>2. PICK s \in Takes(p0) : grid' = [grid EXCEPT ![p0] = s]
  BY DEF generateStableBoard
<1>3. phase' = IF p0 = <<Width - 1, Height - 1>> THEN "idle" ELSE "dealt"
  BY DEF generateStableBoard
<1> HIDE DEF p0
<1>4. s \in Symbols /\ s # Hole /\ ~Follows(p0, s, Right) /\ ~Follows(p0, s, Below)
  BY <1>2, Match3Assumption DEF Takes
<1>5. grid'[p0] = s /\ \A q \in Grid : q # p0 => grid'[q] = grid[q]
  BY <1>0, <1>1, <1>2
<1>6. \A p \in Grid : p[1] \in Nat /\ p[2] \in Nat /\ p[1] < Width /\ p[2] < Height /\ p = <<p[1], p[2]>>
  BY GridIs
<1>7. \A p, q \in Grid : NotAfter(p, q) \/ NotAfter(q, p)
  BY <1>6 DEF NotAfter
<1>8. \A p, q \in Grid : NotAfter(p, q) /\ NotAfter(q, p) => p = q
  BY <1>6 DEF NotAfter
<1>t. Match3TypeOK'
  BY <1>0, <1>1, <1>2, <1>3, <1>4 DEF Match3TypeOK
\* A new line would end at the new symbol: what is after it has none.
<1>r. ASSUME NEW p \in Grid, Equal3(grid', p, Right(p, 1), Right(p, 2)) PROVE FALSE
  <2> DEFINE q == Right(p, 1)
             u == Right(p, 2)
  <2>1. q \in Grid /\ u \in Grid /\ q = <<p[1] + 1, p[2]>> /\ u = <<p[1] + 2, p[2]>>
    BY <1>r, Neighbours DEF Equal3
  <2>2. p # q /\ p # u /\ q # u /\ NotAfter(p, u) /\ NotAfter(q, u) /\ NotAfter(p, q)
    BY <1>6, <2>1 DEF NotAfter
  <2>3. grid'[p] # Hole /\ grid'[p] = grid'[q] /\ grid'[p] = grid'[u]
    BY <1>r DEF Equal3
  <2>4. CASE u = p0
    <3>1. Right(p0, -1) = q /\ Right(p0, -2) = p
      <4>1. u[1] = p[1] + 2 /\ u[2] = p[2]
        BY <2>1
      <4> HIDE DEF q, u
      <4> QED
        BY <1>6, <2>1, <2>4, <4>1 DEF Right
    <3> HIDE DEF q, u
    <3>2. grid[q] = s /\ grid[p] = s
      BY <1>5, <2>1, <2>2, <2>3, <2>4
    <3> QED
      BY <1>4, <3>1, <3>2 DEF Follows
  <2>5. CASE u # p0
    <3> HIDE DEF q, u
    <3>1. grid[u] # Hole
      BY <1>5, <2>1, <2>3, <2>5
    <3>2. p # p0 /\ q # p0
      BY <1>0, <1>1, <2>1, <2>2, <3>1
    <3>3. Equal3(grid, p, q, u)
      BY <1>5, <2>1, <2>3, <2>5, <3>2 DEF Equal3
    <3> QED
      BY <1>0, <3>3 DEF NoLines, q, u
  <2> QED
    BY <2>4, <2>5
<1>b. ASSUME NEW p \in Grid, Equal3(grid', p, Below(p, 1), Below(p, 2)) PROVE FALSE
  <2> DEFINE q == Below(p, 1)
             u == Below(p, 2)
  <2>1. q \in Grid /\ u \in Grid /\ q = <<p[1], p[2] + 1>> /\ u = <<p[1], p[2] + 2>>
    BY <1>b, Neighbours DEF Equal3
  <2>2. p # q /\ p # u /\ q # u /\ NotAfter(p, u) /\ NotAfter(q, u) /\ NotAfter(p, q)
    BY <1>6, <2>1 DEF NotAfter
  <2>3. grid'[p] # Hole /\ grid'[p] = grid'[q] /\ grid'[p] = grid'[u]
    BY <1>b DEF Equal3
  <2>4. CASE u = p0
    <3>1. Below(p0, -1) = q /\ Below(p0, -2) = p
      <4>1. u[1] = p[1] /\ u[2] = p[2] + 2
        BY <2>1
      <4> HIDE DEF q, u
      <4> QED
        BY <1>6, <2>1, <2>4, <4>1 DEF Below
    <3> HIDE DEF q, u
    <3>2. grid[q] = s /\ grid[p] = s
      BY <1>5, <2>1, <2>2, <2>3, <2>4
    <3> QED
      BY <1>4, <3>1, <3>2 DEF Follows
  <2>5. CASE u # p0
    <3> HIDE DEF q, u
    <3>1. grid[u] # Hole
      BY <1>5, <2>1, <2>3, <2>5
    <3>2. p # p0 /\ q # p0
      BY <1>0, <1>1, <2>1, <2>2, <3>1
    <3>3. Equal3(grid, p, q, u)
      BY <1>5, <2>1, <2>3, <2>5, <3>2 DEF Equal3
    <3> QED
      BY <1>0, <3>3 DEF NoLines, q, u
  <2> QED
    BY <2>4, <2>5
<1>l. NoLines(grid')
  BY <1>r, <1>b DEF NoLines
<1>9. <<Width - 1, Height - 1>> \in Grid /\ \A p \in Grid : NotAfter(p, <<Width - 1, Height - 1>>)
  <2>1. <<Width - 1, Height - 1>> \in Grid
    BY GridIs DEF Grid
  <2>2. \A p \in Grid : p[2] < Height - 1 \/ (p[2] = Height - 1 /\ p[1] <= Width - 1)
    BY <1>6, GridIs
  <2> QED
    BY <2>1, <2>2 DEF NotAfter
<1>a. CASE p0 = <<Width - 1, Height - 1>>
  <2>1. \A q \in Grid : grid'[q] # Hole
    BY <1>1, <1>4, <1>5, <1>8, <1>9, <1>a
  <2> QED
    BY <1>3, <1>a, <1>l, <1>t, <2>1 DEF Match3Inv, BoardInv
<1>c. CASE p0 # <<Width - 1, Height - 1>>
  <2>1. \E p \in Grid : grid'[p] = Hole
    BY <1>0, <1>1, <1>5, <1>9, <1>c
  <2>2. ASSUME NEW p \in Grid, NEW q \in Grid, grid'[p] = Hole, NotAfter(p, q) PROVE grid'[q] = Hole
    <3>1. p # p0 /\ grid[p] = Hole
      BY <1>4, <1>5, <2>2
    <3>2. q # p0
      BY <1>1, <1>8, <2>2, <3>1
    <3> QED
      BY <1>0, <1>5, <2>2, <3>1, <3>2
  <2> QED
    BY <1>3, <1>c, <1>l, <1>t, <2>1, <2>2 DEF Match3Inv, BoardInv
<1> QED
  BY <1>a, <1>c

LEMMA SwapStep ==
    ASSUME Match3Inv, NEW p \in Grid, NEW q \in Grid, handleMatch3Swap(p, q) PROVE Match3Inv'
<1> DEFINE g == Swap(grid, p, q)
<1>0. /\ phase = "idle" /\ grid \in [Grid -> Symbols \cup {Hole}] /\ \A u \in Grid : grid[u] # Hole
      /\ NoLines(grid) /\ cleared' = cleared /\ cleared \in 0 .. Goal
  BY DEF handleMatch3Swap, Match3Inv, Match3TypeOK, BoardInv
<1>1. g \in [Grid -> Symbols \cup {Hole}] /\ \A u \in Grid : g[u] = IF u = q THEN grid[p] ELSE IF u = p THEN grid[q] ELSE grid[u]
  BY <1>0 DEF Swap
<1>2. Swap(g, p, q) = grid
  <2> HIDE DEF g
  <2>1. DOMAIN g = Grid /\ Swap(g, p, q) \in [Grid -> Symbols \cup {Hole}]
    BY <1>1 DEF Swap
  <2>2. \A u \in Grid : Swap(g, p, q)[u] = IF u = q THEN g[p] ELSE IF u = p THEN g[q] ELSE g[u]
    BY <2>1 DEF Swap
  <2>3. \A u \in Grid : Swap(g, p, q)[u] = grid[u]
    BY <1>1, <2>2
  <2> QED
    BY <1>0, <2>1, <2>3
<1>3. \/ grid' = grid /\ phase' = "idle"
      \/ grid' = g /\ phase' = "falling"
  BY <1>2 DEF handleMatch3Swap
<1> HIDE DEF g
<1>4. \A u \in Grid : g[u] # Hole
  BY <1>0, <1>1
<1> QED
  BY <1>0, <1>1, <1>3, <1>4 DEF Match3Inv, Match3TypeOK, BoardInv

LEMMA EmptiedColumns ==
    ASSUME Match3TypeOK, NEW x \in Cols
    PROVE  Column(Emptied, x) \in [Rows -> Symbols \cup {Hole}]
<1>1. \A p \in Grid : Emptied[p] \in Symbols \cup {Hole}
  BY DEF Emptied, Match3TypeOK
<1>2. \A y \in Rows : <<x, y>> \in Grid
  BY DEF Grid
<1> QED
  BY <1>1, <1>2 DEF Column

LEMMA CascadeStep ==
    ASSUME Match3Inv, processCascades PROVE Match3Inv'
<1> DEFINE fallen == [x \in Cols |-> Fallen(Column(Emptied, x)).col]
           lines == findMatches(grid)
<1>0. Match3TypeOK /\ cleared \in 0 .. Goal /\ Goal \in Nat
  BY GridIs DEF Match3Inv, Match3TypeOK
<1>1. ASSUME NEW p \in Grid PROVE fallen[p[1]][p[2]] \in Symbols \cup {Hole}
  <2>1. PICK x \in Cols, y \in Rows : p[1] = x /\ p[2] = y
    BY GridIs
  <2>2. Column(Emptied, x) \in [Rows -> Symbols \cup {Hole}]
    BY <1>0, EmptiedColumns
  <2>3. FallenFrom(Column(Emptied, x), Fallen(Column(Emptied, x)), 0)
    BY <2>2, ColumnFalls
  <2>4. Fallen(Column(Emptied, x)).col \in [Rows -> Symbols \cup {Hole}]
    BY <2>3 DEF FallenFrom
  <2> QED
    BY <2>1, <2>4
<1>2. Cardinality(lines) \in Nat
  BY MatchesAre, GridIs, FS_Subset, FS_CardinalityType
<1>3. /\ grid' = [p \in Grid |-> fallen[p[1]][p[2]]] /\ phase' = "fallen"
      /\ cleared' = IF cleared + Cardinality(lines) > Goal THEN Goal ELSE cleared + Cardinality(lines)
  BY DEF processCascades
<1> HIDE DEF fallen, lines
<1>4. grid' \in [Grid -> Symbols \cup {Hole}]
  BY <1>1, <1>3
<1>5. cleared' \in 0 .. Goal
  BY <1>0, <1>2, <1>3
<1> QED
  BY <1>3, <1>4, <1>5 DEF Match3Inv, Match3TypeOK, BoardInv

LEMMA Match3Step == ASSUME Match3Inv, [Match3Next]_match3Vars PROVE Match3Inv'
<1>1. CASE UNCHANGED match3Vars
  BY <1>1 DEF match3Vars, Match3Inv, Match3TypeOK, BoardInv
<1>2. CASE generateStableBoard
  BY <1>2, DealStep
<1>3. CASE processCascades
  BY <1>3, CascadeStep
<1>4. CASE Refill
  <2>1. PICK fill \in [Holes -> Symbols] : grid' = [p \in Grid |-> IF p \in Holes THEN fill[p] ELSE grid[p]]
    BY <1>4 DEF Refill
  <2>2. \A p \in Grid : grid'[p] \in Symbols
    BY <2>1 DEF Holes, Match3Inv, Match3TypeOK
  <2>3. grid' \in [Grid -> Symbols \cup {Hole}]
    BY <2>1, <2>2
  <2>4. phase' = "falling" /\ cleared' = cleared
    BY <1>4 DEF Refill
  <2> QED
    BY <2>2, <2>3, <2>4, Match3Assumption DEF Match3Inv, Match3TypeOK, BoardInv
<1>5. CASE boardUpdate
  BY <1>5, MatchesAre DEF boardUpdate, Match3Inv, Match3TypeOK, BoardInv
<1>6. CASE nextBoard
  <2>1. <<0, 0>> \in Grid /\ 0 \in 0 .. Goal
    BY GridIs DEF Grid
  <2>2. phase' = "dealt" /\ cleared' = 0 /\ grid' \in [Grid -> Symbols \cup {Hole}] /\ \A p \in Grid : grid'[p] = Hole
    BY <1>6 DEF nextBoard
  <2> QED
    BY <2>1, <2>2 DEF Match3Inv, Match3TypeOK, BoardInv, NoLines, Equal3
<1>7. ASSUME NEW p \in Grid, NEW q \in Grid, handleMatch3Swap(p, q) PROVE Match3Inv'
  BY <1>7, SwapStep
<1> QED
  BY <1>1, <1>2, <1>3, <1>4, <1>5, <1>6, <1>7 DEF Match3Next

LEMMA TwoAreMore == ASSUME NEW S, IsFiniteSet(S), NEW a \in S, NEW b \in S, a # b PROVE Cardinality(S) > 1
<1>1. IsFiniteSet({a}) /\ Cardinality({a}) = 1
  BY FS_Singleton
<1>2. {a} \subseteq S /\ {a} # S
  OBVIOUS
<1>3. Cardinality({a}) <= Cardinality(S) /\ Cardinality({a}) # Cardinality(S) /\ Cardinality(S) \in Nat
  BY <1>2, FS_Subset, FS_CardinalityType
<1> QED
  BY <1>1, <1>3

LEMMA ThreeAreFinite == ASSUME NEW a, NEW b, NEW c PROVE IsFiniteSet({a, b, c})
<1>1. IsFiniteSet({a})
  BY FS_Singleton
<1>2. IsFiniteSet({a} \cup {b})
  BY <1>1, FS_AddElement
<1>3. IsFiniteSet(({a} \cup {b}) \cup {c})
  BY <1>2, FS_AddElement
<1>4. {a, b, c} = ({a} \cup {b}) \cup {c}
  OBVIOUS
<1> QED
  BY <1>3, <1>4

LEMMA BoardsStable == Match3Inv => BoardIsStable
<1> SUFFICES ASSUME Match3Inv, phase \in {"idle", "over"} PROVE
        /\ \A p \in Grid : grid[p] # Hole
        /\ \A p \in Grid, d \in {<<1, 0>>, <<0, 1>>} :
              LET q == <<p[1] + d[1], p[2] + d[2]>>
                  r == <<q[1] + d[1], q[2] + d[2]>>
              IN  r \in Grid => Cardinality({grid[p], grid[q], grid[r]}) > 1
  BY DEF BoardIsStable
<1>1. (\A p \in Grid : grid[p] # Hole) /\ NoLines(grid)
  BY DEF Match3Inv, BoardInv
<1>2. ASSUME NEW p \in Grid, NEW d \in {<<1, 0>>, <<0, 1>>},
             <<(p[1] + d[1]) + d[1], (p[2] + d[2]) + d[2]>> \in Grid
      PROVE  Cardinality({grid[p], grid[<<p[1] + d[1], p[2] + d[2]>>], grid[<<(p[1] + d[1]) + d[1], (p[2] + d[2]) + d[2]>>]}) > 1
  <2> DEFINE q == <<p[1] + d[1], p[2] + d[2]>>
             r == <<(p[1] + d[1]) + d[1], (p[2] + d[2]) + d[2]>>
  <2>0. p[1] \in Nat /\ p[2] \in Nat /\ p = <<p[1], p[2]>>
    BY GridIs
  <2>1. \/ q = Right(p, 1) /\ r = Right(p, 2)
        \/ q = Below(p, 1) /\ r = Below(p, 2)
    <3>1. CASE d = <<1, 0>>
      <4>1. d[1] = 1 /\ d[2] = 0
        BY <3>1
      <4>2. q = <<p[1] + 1, p[2]>> /\ r = <<p[1] + 2, p[2]>>
        BY <2>0, <4>1
      <4> QED
        BY <4>2, Neighbours
    <3>2. CASE d = <<0, 1>>
      <4>1. d[1] = 0 /\ d[2] = 1
        BY <3>2
      <4>2. q = <<p[1], p[2] + 1>> /\ r = <<p[1], p[2] + 2>>
        BY <2>0, <4>1
      <4> QED
        BY <4>2, Neighbours
    <3> QED
      BY <3>1, <3>2
  <2> HIDE DEF q, r
  <2>2. grid[p] # grid[q] \/ grid[p] # grid[r]
    BY <1>1, <1>2, <2>1 DEF NoLines, Equal3, r
  <2>3. Cardinality({grid[p], grid[q], grid[r]}) > 1
    BY <2>2, TwoAreMore, ThreeAreFinite
  <2> QED
    BY <2>3 DEF q, r
<1> QED
  BY <1>1, <1>2

LEMMA ColumnsFallen == Match3Inv => ColumnsFall
<1> SUFFICES ASSUME Match3Inv, NEW x \in Cols PROVE
        LET col == Column(Emptied, x)
            fallen == Fallen(col)
        IN  /\ fallen.empty = Cardinality(HolesFrom(col, 0)) - 1
            /\ \A y \in Rows :
                  /\ fallen.col[y] = Hole <=> y <= fallen.empty
                  /\ col[y] # Hole => fallen.col[y + Cardinality(HolesFrom(col, y))] = col[y]
  BY DEF ColumnsFall
<1> DEFINE col == Column(Emptied, x)
           r == Fallen(col)
<1>1. FallenFrom(col, r, 0)
  BY EmptiedColumns, ColumnFalls DEF Match3Inv
<1>2. Cardinality(HolesFrom(col, 0)) \in Nat /\ \A y \in Rows : y >= 0
  <2>1. \A y \in Rows : y >= 0
    BY GridIs
  <2>2. Cardinality(HolesFrom(col, 0)) \in Nat
    <3> HIDE DEF col
    <3> QED
      BY HolesAreCounted
  <2> QED
    BY <2>1, <2>2
<1> HIDE DEF col, r
<1>3. r.empty = Cardinality(HolesFrom(col, 0)) - 1
  BY <1>1, <1>2 DEF FallenFrom
<1>4. \A y \in Rows : /\ r.col[y] = Hole <=> y <= r.empty
                      /\ col[y] # Hole => r.col[y + Cardinality(HolesFrom(col, y))] = col[y]
  BY <1>1, <1>2 DEF FallenFrom
<1> QED
  BY <1>3, <1>4 DEF col, r

\* A board the player may swap on has neither a hole nor a line of three, for
\* any size and any three symbols or more; and whatever lines are emptied, each
\* column falls: its symbols keep their order and rest on its bottom.
THEOREM BoardsAreStable == Match3Spec => [](Match3TypeOK /\ BoardIsStable /\ ColumnsFall)
<1>1. Match3Inv /\ [Match3Next]_match3Vars => Match3Inv'
  BY Match3Step
<1>2. Match3Inv => Match3TypeOK /\ BoardIsStable /\ ColumnsFall
  BY BoardsStable, ColumnsFallen DEF Match3Inv
<1> QED
  BY <1>1, <1>2, Match3Begins, PTL DEF Match3Spec
-----------------------------------------------------------------------------
(* The market.                                                              *)

-----------------------------------------------------------------------------
Taken == Amounts \cup {TargetViews}
Most == CHOOSE a \in Taken : \A b \in Taken : b <= a

LEMMA MostOfTaken == Most \in Nat /\ \A b \in Taken : b \in Nat /\ b <= Most
<1>1. IsFiniteSet(Taken) /\ Taken \subseteq Nat /\ Taken # {}
  BY MarketAssumption, FS_AddElement DEF Taken
<1>2. \E a \in Taken : \A b \in Taken : b <= a
  BY <1>1, LargestThereIs
<1> QED
  BY <1>1, <1>2 DEF Most

\* The requests that are about to take POL, and USDC.
PolSpenders == {c \in Calls : mcall[c].pc = "swap" /\ mcall[c].from = "POL"}
UsdcSpenders == {c \in Calls : mcall[c].pc = "ad" \/ (mcall[c].pc = "swap" /\ mcall[c].from # "POL")}

\* What the spenders S will take leaves a debt of at most one amount for each
\* request but one: the one that found the balance large enough last.
Covered(bal, S, q) ==
    \/ bal >= Most * (Cardinality(S) + 1 - Cardinality(Calls))
    \/ \E c \in S : bal >= q[c].amount + Most * (Cardinality(S) - Cardinality(Calls))

DebtInv ==
    /\ Covered(pol, PolSpenders, mcall) /\ Covered(usdc, UsdcSpenders, mcall)
    /\ ~jam =>
          /\ \A c, d \in Calls : mcall[c].pc # "idle" /\ mcall[d].pc # "idle" => c = d
          /\ pol >= 0 /\ usdc >= 0
          /\ \A c \in PolSpenders : pol >= mcall[c].amount
          /\ \A c \in UsdcSpenders : usdc >= mcall[c].amount

QuotesInv == Cached(price, hour) \in quotes /\ (priceCache # None => priceCache \in quotes)

AdsInv ==
    /\ IsFiniteSet(views) /\ earned = Cardinality(views)
    /\ \A c \in Calls : mcall[c].pc \in {"view", "count"} =>
          mcall[c].row \in AdRows /\ ad \in AdRows /\ mcall[c].from \in Viewers
    /\ \A c \in Calls : mcall[c].pc = "count" => mcall[c].row.views < TargetViews
    /\ ~jam =>
          /\ ad = None => earned = 0
          /\ ad # None => earned = ad.views
          /\ \A c \in Calls : mcall[c].pc \in {"view", "count"} => mcall[c].row.views = ad.views

MarketInv == MarketTypeOK /\ DebtInv /\ QuotesInv /\ AdsInv

LEMMA MarketBegins == MarketInit => MarketInv
<1> SUFFICES ASSUME MarketInit PROVE MarketInv
  OBVIOUS
<1>1. \A c \in Calls : mcall[c] = MIdle
  BY DEF MarketInit
<1>2. MarketTypeOK
  <2>1. MIdle \in [pc: {"idle", "price", "read", "swap", "ad", "view", "count"},
                   from: {"POL", "USDC", None} \cup Viewers, rate: Prices,
                   amount: Amounts \cup {0, TargetViews}, row: AdRows \cup {None}]
    BY MarketAssumption DEF MIdle, MCall
  <2>2. hour \in Hours /\ price \in Prices /\ orders \in 0 .. MaxOrders /\ pol \in Int /\ usdc \in Int
    BY MarketAssumption DEF MarketInit, Hours
  <2> QED
    <3>1. mcall \in [Calls -> [pc: {"idle", "price", "read", "swap", "ad", "view", "count"},
                   from: {"POL", "USDC", None} \cup Viewers, rate: Prices,
                   amount: Amounts \cup {0, TargetViews}, row: AdRows \cup {None}]]
      BY <2>1 DEF MarketInit
    <3>2. quotes \subseteq [price: Prices, at: Hours]
      BY <2>2 DEF MarketInit, Cached
    <3>3. ad \in AdRows \cup {None} /\ priceCache \in [price: Prices, at: Hours] \cup {None} /\ jam \in BOOLEAN
          /\ earned \in Nat /\ views \subseteq Viewers
      BY DEF MarketInit
    <3> QED
      BY <2>2, <3>1, <3>2, <3>3 DEF MarketTypeOK
<1>3. PolSpenders = {} /\ UsdcSpenders = {}
  BY <1>1 DEF PolSpenders, UsdcSpenders, MIdle, MCall
<1>4. Cardinality({}) = 0
  BY FS_EmptySet
<1>5. \A b \in Nat : Covered(b, {}, mcall)
  <2> DEFINE n == Cardinality(Calls)
  <2>1. n \in Nat \ {0}
    BY CallsAreCounted
  <2> HIDE DEF n
  <2>2. Most * (n - 1) \in Nat /\ Most * (0 + 1 - n) = -(Most * (n - 1))
    BY <2>1, MostOfTaken
  <2> QED
    BY <1>4, <2>2 DEF Covered, n
<1>6. DebtInv
  BY <1>1, <1>3, <1>5, MarketAssumption DEF MarketInit, DebtInv, MIdle, MCall
<1>7. QuotesInv /\ AdsInv
  BY <1>1, <1>4, FS_EmptySet DEF MarketInit, QuotesInv, AdsInv, MIdle, MCall
<1> QED
  BY <1>2, <1>6, <1>7 DEF MarketInv

LEMMA DivisionIsNatural == \A a \in Nat, b \in Nat \ {0} : a \div b \in Nat
OBVIOUS

LEMMA MarketTypes == ASSUME MarketTypeOK, AdsInv, [MarketNext]_marketVars PROVE MarketTypeOK'
<1> DEFINE MCalls == [pc: {"idle", "price", "read", "swap", "ad", "view", "count"},
                      from: {"POL", "USDC", None} \cup Viewers, rate: Prices,
                      amount: Amounts \cup {0, TargetViews}, row: AdRows \cup {None}]
<1>0. MIdle \in MCalls /\ Fallback \in Prices /\ \A c \in Calls : mcall[c] \in MCalls
  BY MarketAssumption DEF MIdle, MCall, MarketTypeOK
<1>00. \A c \in Calls : mcall[c].amount \in Nat /\ mcall[c].rate \in Nat \ {0}
  <2>1. \A c \in Calls : mcall[c].amount \in Amounts \cup {0, TargetViews} /\ mcall[c].rate \in Prices
    BY DEF MarketTypeOK
  <2>2. (\A a \in Amounts : a \in Nat) /\ TargetViews \in Nat /\ \A p \in Prices : p \in Nat \ {0}
    BY MarketAssumption
  <2> QED
    BY <2>1, <2>2
<1>1. CASE UNCHANGED marketVars
  BY <1>1 DEF MarketTypeOK, marketVars, marketTables
<1>2. CASE PriceMoves
  BY <1>2, MarketAssumption DEF PriceMoves, MarketTypeOK, Hours, Cached, marketTables
<1>3. ASSUME NEW c \in Calls, NEW q \in MCalls, Orders(c, q) PROVE MarketTypeOK'
  BY <1>3, MarketAssumption DEF Orders, MarketTypeOK, marketTables
<1>4. ASSUME NEW c \in Calls, executeSwap(c) PROVE MarketTypeOK'
  <2>1. PICK asset \in {"POL", "USDC"}, a \in Amounts : Orders(c, MCall("price", asset, a, Fallback, None))
    BY <1>4 DEF executeSwap
  <2>2. MCall("price", asset, a, Fallback, None) \in MCalls
    BY <1>0 DEF MCall
  <2> QED
    BY <1>3, <2>1, <2>2
<1>5. ASSUME NEW c \in Calls, createAd(c) PROVE MarketTypeOK'
  <2>2. MCall("ad", None, TargetViews, Fallback, None) \in MCalls
    BY <1>0 DEF MCall
  <2> QED
    BY <1>3, <1>5, <2>2 DEF createAd
<1>6. ASSUME NEW c \in Calls, NEW v \in Viewers, trackView(c, v) PROVE MarketTypeOK'
  <2>2. MCall("view", v, 0, Fallback, ad) \in MCalls
    BY <1>0 DEF MCall, MarketTypeOK
  <2> QED
    BY <1>3, <1>6, <2>2 DEF trackView
<1>7. ASSUME NEW c \in Calls, NEW q \in MCalls, Proceeds(c, q)
      PROVE  /\ mcall' \in [Calls -> MCalls]
             /\ hour' \in Hours /\ price' \in Prices /\ orders' \in 0 .. MaxOrders /\ jam' \in BOOLEAN
             /\ quotes' \subseteq [price: Prices, at: Hours]
  BY <1>7 DEF Proceeds, MarketTypeOK
<1>8. ASSUME NEW c \in Calls, getPolUsdPrice(c) PROVE MarketTypeOK'
  <2>1. PICK r \in Prices : Proceeds(c, [mcall[c] EXCEPT !.pc = "read", !.rate = r])
    BY <1>0, <1>8 DEF getPolUsdPrice, Fresh, MarketTypeOK
  <2>2. [mcall[c] EXCEPT !.pc = "read", !.rate = r] \in MCalls
    BY <1>0
  <2>3. priceCache' \in [price: Prices, at: Hours] \cup {None} /\ UNCHANGED marketTables
    BY <1>8 DEF getPolUsdPrice, Cached, MarketTypeOK
  <2> QED
    BY <1>7, <2>1, <2>2, <2>3 DEF MarketTypeOK, marketTables
<1>9. ASSUME NEW c \in Calls, SwapReads(c) PROVE MarketTypeOK'
  <2>1. PICK q \in MCalls : Proceeds(c, q)
    BY <1>0, <1>9 DEF SwapReads
  <2> QED
    BY <1>7, <1>9, <2>1 DEF SwapReads, MarketTypeOK, marketTables
<1>10. ASSUME NEW c \in Calls, SwapCommits(c) PROVE MarketTypeOK'
  <2>1. mcall[c].amount \in Nat /\ mcall[c].rate \in Nat \ {0}
    BY <1>00
  <2>2. mcall[c].amount * mcall[c].rate \in Nat /\ mcall[c].amount \div mcall[c].rate \in Nat
    BY <2>1, DivisionIsNatural
  <2>3. pol' \in Int /\ usdc' \in Int
    BY <1>10, <2>1, <2>2 DEF SwapCommits, MarketTypeOK
  <2> QED
    BY <1>0, <1>7, <1>10, <2>3 DEF SwapCommits, MarketTypeOK
<1>11. ASSUME NEW c \in Calls, AdCommits(c) PROVE MarketTypeOK'
  <2>1. mcall[c].amount \in Nat
    BY <1>00
  <2>2. Ad("active", 0) \in AdRows
    BY MarketAssumption DEF Ad, AdRows
  <2> QED
    BY <1>0, <1>7, <1>11, <2>1, <2>2 DEF AdCommits, MarketTypeOK
<1>12. ASSUME NEW c \in Calls, ViewReads(c) PROVE MarketTypeOK'
  <2>1. PICK q \in MCalls : Proceeds(c, q)
    <3>1. [mcall[c] EXCEPT !.pc = "count"] \in MCalls
      BY <1>0
    <3> QED
      BY <1>0, <1>12, <3>1 DEF ViewReads
  <2>2. ad \in AdRows
    BY <1>12 DEF ViewReads, AdsInv
  <2>3. ad' \in AdRows
    BY <1>12, <2>2 DEF ViewReads, AdRows
  <2> QED
    BY <1>7, <1>12, <2>1, <2>3 DEF ViewReads, MarketTypeOK
<1>13. ASSUME NEW c \in Calls, ViewCommits(c) PROVE MarketTypeOK'
  <2>1. mcall[c].row \in AdRows /\ mcall[c].row.views < TargetViews /\ mcall[c].from \in Viewers
    BY <1>13 DEF ViewCommits, AdsInv
  <2>2. mcall[c].row.views + 1 \in 0 .. TargetViews
    BY <2>1, MarketAssumption DEF AdRows
  <2>3. ad' \in AdRows \cup {None} /\ views' \subseteq Viewers /\ earned' \in Nat /\ usdc' \in Int
    BY <1>13, <2>1, <2>2 DEF ViewCommits, MarketTypeOK, Ad, AdRows
  <2> QED
    BY <1>0, <1>7, <1>13, <2>3 DEF ViewCommits, MarketTypeOK
<1>14. ASSUME NEW c \in Calls, MarketFails(c) PROVE MarketTypeOK'
  BY <1>0, <1>7, <1>14 DEF MarketFails, MarketTypeOK, marketTables
<1> QED
  BY <1>1, <1>2, <1>4, <1>5, <1>6, <1>8, <1>9, <1>10, <1>11, <1>12, <1>13, <1>14 DEF MarketNext

LEMMA MostTimes == \A k \in Int : Most * k \in Int /\ Most * (k + 1) = Most * k + Most /\ (k <= 0 => Most * k <= 0)
<1>1. ASSUME NEW k \in Int PROVE Most * k \in Int /\ Most * (k + 1) = Most * k + Most
  BY MostOfTaken
<1>2. ASSUME NEW k \in Int, k <= 0 PROVE Most * k <= 0
  <2>1. -k \in Nat
    BY <1>2
  <2>2. Most * (-k) \in Nat
    BY <2>1, MostOfTaken
  <2>3. Most * k = -(Most * (-k))
    BY MostOfTaken
  <2> QED
    BY <2>2, <2>3, MostOfTaken
<1> QED
  BY <1>1, <1>2

\* A spender leaves, and takes its amount or not.
LEMMA CoveredLess ==
    ASSUME NEW S \in SUBSET Calls, NEW T, NEW q, NEW r, NEW b \in Int, NEW e \in Int,
           Covered(b, S, q), \A d \in S : q[d].amount \in Nat /\ q[d].amount <= Most,
           \A d \in T : r[d].amount = q[d].amount,
           \/ T = S /\ e >= b
           \/ \E c \in S : T = S \ {c} /\ e >= b - q[c].amount
    PROVE  Covered(e, T, r)
<1> DEFINE n == Cardinality(Calls)
           s == Cardinality(S)
           t == Cardinality(T)
<1>1. n \in Nat /\ s \in Nat
  BY CallsAreCounted
<1>2. CASE T = S /\ e >= b
  BY <1>1, <1>2, MostTimes DEF Covered
<1>3. ASSUME NEW c \in S, T = S \ {c}, e >= b - q[c].amount PROVE Covered(e, T, r)
  <2>1. t = s - 1
    BY <1>3, CallsAreCounted, FS_RemoveElement
  <2>2. Most * (s - n) \in Int /\ Most * (t + 1 - n) = Most * (s - n) /\ Most * (s + 1 - n) = Most * (s - n) + Most
        /\ Most * (t - n) \in Int /\ Most * (s - n) = Most * (t - n) + Most
    <3>1. s - n \in Int /\ t - n \in Int /\ s - n = (t - n) + 1 /\ s + 1 - n = (s - n) + 1 /\ t + 1 - n = s - n
      BY <1>1, <2>1
    <3> QED
      BY <3>1, MostTimes
  <2>3. q[c].amount \in Nat /\ q[c].amount <= Most /\ Most \in Nat
    BY MostOfTaken
  <2> HIDE DEF n, s, t
  <2>4. CASE b >= Most * (s + 1 - n)
    BY <1>3, <2>2, <2>3, <2>4 DEF Covered, s, t, n
  <2>5. ASSUME NEW d \in S, b >= q[d].amount + Most * (s - n) PROVE Covered(e, T, r)
    <3>1. CASE d = c
      BY <1>3, <2>2, <2>3, <2>5, <3>1 DEF Covered, t, n
    <3>2. CASE d # c
      <4>1. d \in T /\ q[d].amount \in Nat /\ r[d].amount = q[d].amount
        BY <1>3, <3>2
      <4>2. e >= r[d].amount + Most * (t - n)
        BY <1>3, <2>2, <2>3, <2>5, <4>1
      <4> QED
        BY <4>1, <4>2 DEF Covered, t, n
    <3> QED
      BY <3>1, <3>2
  <2> QED
    BY <2>4, <2>5 DEF Covered, s, n
<1> QED
  BY <1>2, <1>3

\* A spender comes that has found its amount.
LEMMA CoveredMore ==
    ASSUME NEW T \in SUBSET Calls, NEW c \in T, NEW r, NEW b \in Int, r[c].amount \in Nat, b >= r[c].amount
    PROVE  Covered(b, T, r)
<1>1. Cardinality(T) - Cardinality(Calls) \in Int /\ Cardinality(T) - Cardinality(Calls) <= 0
  BY CallsAreCounted
<1>2. Most * (Cardinality(T) - Cardinality(Calls)) \in Int /\ Most * (Cardinality(T) - Cardinality(Calls)) <= 0
  BY <1>1, MostTimes
<1>3. b >= r[c].amount + Most * (Cardinality(T) - Cardinality(Calls))
  BY <1>2
<1> QED
  BY <1>3 DEF Covered

LEMMA AmountsAre ==
    ASSUME MarketTypeOK
    PROVE  \A c \in Calls : mcall[c].amount \in Nat /\ mcall[c].amount <= Most /\ mcall[c].rate \in Nat \ {0}
<1>1. \A c \in Calls : mcall[c].amount \in Amounts \cup {0, TargetViews} /\ mcall[c].rate \in Prices
  BY DEF MarketTypeOK
<1>2. \A p \in Prices : p \in Nat \ {0}
  BY MarketAssumption
<1>3. \A a \in Amounts \cup {0, TargetViews} : a \in Nat /\ a <= Most
  BY MostOfTaken DEF Taken
<1> QED
  BY <1>1, <1>2, <1>3

\* A step of c, which is no spender afterwards.
LEMMA DebtLeaves ==
    ASSUME MarketTypeOK, DebtInv, NEW c \in Calls, \A d \in Calls : d # c => mcall'[d] = mcall[d],
           mcall'[c].pc \notin {"swap", "ad"}, pol' \in Int, usdc' \in Int,
           pol' >= pol \/ (c \in PolSpenders /\ pol' >= pol - mcall[c].amount),
           usdc' >= usdc \/ (c \in UsdcSpenders /\ usdc' >= usdc - mcall[c].amount),
           ~jam' => ~jam /\ \A d \in Calls : mcall'[d].pc # "idle" => d = c
    PROVE  DebtInv'
<1>1. PolSpenders' = PolSpenders \ {c} /\ UsdcSpenders' = UsdcSpenders \ {c}
  BY DEF PolSpenders, UsdcSpenders
<1>2. PolSpenders \in SUBSET Calls /\ UsdcSpenders \in SUBSET Calls /\ pol \in Int /\ usdc \in Int
  BY DEF PolSpenders, UsdcSpenders, MarketTypeOK
<1>3. \A d \in Calls : mcall[d].amount \in Nat /\ mcall[d].amount <= Most
  BY AmountsAre
<1>4. \A d \in PolSpenders' \cup UsdcSpenders' : mcall'[d].amount = mcall[d].amount
  BY <1>1, <1>2
<1>5. ASSUME NEW S \in SUBSET Calls, NEW b \in Int, NEW e \in Int, Covered(b, S, mcall),
             \A d \in S \ {c} : mcall'[d].amount = mcall[d].amount,
             e >= b \/ (c \in S /\ e >= b - mcall[c].amount)
      PROVE  Covered(e, S \ {c}, mcall')
  <2>1. CASE c \in S
    <3>1. e >= b - mcall[c].amount
      BY <1>3, <1>5
    <3> QED
      BY <1>3, <1>5, <2>1, <3>1, CoveredLess
  <2>2. CASE c \notin S
    <3>1. S \ {c} = S /\ e >= b
      BY <1>5, <2>2
    <3> QED
      BY <1>3, <1>5, <3>1, CoveredLess
  <2> QED
    BY <2>1, <2>2
<1>6. Covered(pol, PolSpenders, mcall) /\ Covered(usdc, UsdcSpenders, mcall)
  BY DEF DebtInv
<1>7. Covered(pol', PolSpenders \ {c}, mcall') /\ Covered(usdc', UsdcSpenders \ {c}, mcall')
  BY <1>1, <1>2, <1>4, <1>5, <1>6
<1>8. ASSUME ~jam'
      PROVE  /\ \A d, e \in Calls : mcall'[d].pc # "idle" /\ mcall'[e].pc # "idle" => d = e
             /\ pol' >= 0 /\ usdc' >= 0 /\ PolSpenders' = {} /\ UsdcSpenders' = {}
  <2>1. \A d \in Calls : mcall'[d].pc # "idle" => d = c
    BY <1>8
  <2>2. PolSpenders' = {} /\ UsdcSpenders' = {}
    BY <2>1 DEF PolSpenders, UsdcSpenders
  <2>3. pol' >= 0 /\ usdc' >= 0
    BY <1>2, <1>3, <1>8 DEF DebtInv
  <2> QED
    BY <2>1, <2>2, <2>3
<1>9. Covered(pol', PolSpenders', mcall') /\ Covered(usdc', UsdcSpenders', mcall')
  BY <1>1, <1>7
<1> HIDE DEF Covered, PolSpenders, UsdcSpenders
<1>10. Covered(pol, PolSpenders, mcall)' /\ Covered(usdc, UsdcSpenders, mcall)'
  BY <1>9 DEF Covered
<1> QED
  BY <1>8, <1>10 DEF DebtInv

\* A step of c that finds its amount.
LEMMA DebtEnters ==
    ASSUME MarketTypeOK, MarketTypeOK', DebtInv, NEW c \in Calls, \A d \in Calls : d # c => mcall'[d] = mcall[d],
           UNCHANGED <<pol, usdc>>, c \notin PolSpenders \cup UsdcSpenders,
           c \in PolSpenders' => pol >= mcall'[c].amount,
           c \in UsdcSpenders' => usdc >= mcall'[c].amount,
           ~jam' => ~jam /\ \A d \in Calls : mcall'[d].pc # "idle" => d = c
    PROVE  DebtInv'
<1>1. PolSpenders' \in SUBSET Calls /\ UsdcSpenders' \in SUBSET Calls /\ pol \in Int /\ usdc \in Int
      /\ PolSpenders \in SUBSET Calls /\ UsdcSpenders \in SUBSET Calls
  BY DEF PolSpenders, UsdcSpenders, MarketTypeOK
<1>2. \A d \in Calls : d # c => (d \in PolSpenders' <=> d \in PolSpenders) /\ (d \in UsdcSpenders' <=> d \in UsdcSpenders)
  BY DEF PolSpenders, UsdcSpenders
<1>3. \A d \in Calls : mcall[d].amount \in Nat /\ mcall[d].amount <= Most
  BY AmountsAre
<1>4. mcall'[c].amount \in Nat
  <2>1. mcall'[c].amount \in Amounts \cup {0, TargetViews}
    BY DEF MarketTypeOK
  <2> QED
    BY <2>1, MostOfTaken DEF Taken
<1>5. ASSUME NEW S \in SUBSET Calls, NEW T \in SUBSET Calls, NEW b \in Int, Covered(b, S, mcall), c \notin S,
             \A d \in Calls : d # c => (d \in T <=> d \in S), c \in T => b >= mcall'[c].amount
      PROVE  Covered(b, T, mcall')
  <2>1. CASE c \in T
    BY <1>4, <1>5, <2>1, CoveredMore
  <2>2. CASE c \notin T
    <3>1. T = S /\ \A d \in T : mcall'[d].amount = mcall[d].amount
      BY <1>5, <2>2
    <3> QED
      BY <1>3, <1>5, <3>1, CoveredLess
  <2> QED
    BY <2>1, <2>2
<1>6. Covered(pol, PolSpenders, mcall) /\ Covered(usdc, UsdcSpenders, mcall)
  BY DEF DebtInv
<1>7. Covered(pol', PolSpenders', mcall') /\ Covered(usdc', UsdcSpenders', mcall')
  BY <1>1, <1>2, <1>5, <1>6
<1>8. Covered(pol, PolSpenders, mcall)' /\ Covered(usdc, UsdcSpenders, mcall)'
  BY <1>7 DEF Covered
<1>9. ASSUME ~jam'
      PROVE  /\ \A d, e \in Calls : mcall'[d].pc # "idle" /\ mcall'[e].pc # "idle" => d = e
             /\ pol' >= 0 /\ usdc' >= 0
             /\ \A d \in PolSpenders' : d = c /\ pol' >= mcall'[d].amount
             /\ \A d \in UsdcSpenders' : d = c /\ usdc' >= mcall'[d].amount
  BY <1>1, <1>9 DEF DebtInv, PolSpenders, UsdcSpenders
<1> QED
  BY <1>8, <1>9 DEF DebtInv

LEMMA DebtStep == ASSUME MarketTypeOK, MarketTypeOK', DebtInv, [MarketNext]_marketVars PROVE DebtInv'
<1>0. DOMAIN mcall = Calls /\ pol \in Int /\ usdc \in Int /\ jam \in BOOLEAN
  BY DEF MarketTypeOK
<1>1. CASE UNCHANGED <<mcall, pol, usdc, jam>>
  BY <1>1 DEF DebtInv, Covered, PolSpenders, UsdcSpenders
<1>2. ASSUME NEW c \in Calls, NEW q, Orders(c, q)
      PROVE  /\ mcall'[c] = q /\ \A d \in Calls : d # c => mcall'[d] = mcall[d]
             /\ UNCHANGED <<pol, usdc>> /\ c \notin PolSpenders \cup UsdcSpenders
             /\ (q.pc # "idle" => (~jam' => ~jam /\ \A d \in Calls : mcall'[d].pc # "idle" => d = c))
  BY <1>0, <1>2 DEF Orders, marketTables, PolSpenders, UsdcSpenders
<1>3. ASSUME NEW c \in Calls, NEW q, Proceeds(c, q), mcall[c].pc # "idle"
      PROVE  /\ mcall'[c] = q /\ \A d \in Calls : d # c => mcall'[d] = mcall[d]
             /\ (~jam' => ~jam /\ \A d \in Calls : mcall'[d].pc # "idle" => d = c)
  BY <1>0, <1>3 DEF Proceeds, DebtInv
<1>4. ASSUME NEW c \in Calls, executeSwap(c) PROVE DebtInv'
  <2>1. PICK asset \in {"POL", "USDC"}, a \in Amounts : Orders(c, MCall("price", asset, a, Fallback, None))
    BY <1>4 DEF executeSwap
  <2>2. MCall("price", asset, a, Fallback, None).pc = "price"
    BY DEF MCall
  <2> QED
    BY <1>0, <1>2, <2>1, <2>2, DebtLeaves
<1>5. ASSUME NEW c \in Calls, NEW v \in Viewers, trackView(c, v) PROVE DebtInv'
  <2>1. Orders(c, MCall("view", v, 0, Fallback, ad))
    BY <1>5 DEF trackView
  <2>2. MCall("view", v, 0, Fallback, ad).pc = "view"
    BY DEF MCall
  <2> QED
    BY <1>0, <1>2, <2>1, <2>2, DebtLeaves
<1>6. ASSUME NEW c \in Calls, createAd(c) PROVE DebtInv'
  <2> DEFINE q == MCall("ad", None, TargetViews, Fallback, None)
  <2>1. Orders(c, q) /\ usdc >= TargetViews
    BY <1>6 DEF createAd
  <2>2. q.pc = "ad" /\ q.amount = TargetViews
    BY DEF MCall
  <2> HIDE DEF q
  <2>3. c \notin PolSpenders'
    BY <1>2, <2>1, <2>2 DEF PolSpenders
  <2>4. usdc >= mcall'[c].amount
    BY <1>2, <2>1, <2>2
  <2> QED
    BY <1>0, <1>2, <2>1, <2>2, <2>3, <2>4, DebtEnters
<1>7. ASSUME NEW c \in Calls, getPolUsdPrice(c) PROVE DebtInv'
  <2>1. PICK q : Proceeds(c, q) /\ q.pc = "read"
    <3>1. PICK r : Proceeds(c, [mcall[c] EXCEPT !.pc = "read", !.rate = r])
      BY <1>7 DEF getPolUsdPrice
    <3>2. [mcall[c] EXCEPT !.pc = "read", !.rate = r].pc = "read"
      BY DEF MarketTypeOK
    <3> QED
      BY <3>1, <3>2
  <2>3. UNCHANGED <<pol, usdc>> /\ mcall[c].pc # "idle"
    BY <1>7 DEF getPolUsdPrice, marketTables
  <2> QED
    BY <1>0, <1>3, <2>1, <2>3, DebtLeaves
<1>8. ASSUME NEW c \in Calls, SwapReads(c) PROVE DebtInv'
  <2>0. UNCHANGED <<pol, usdc>> /\ mcall[c].pc = "read" /\ MIdle.pc = "idle"
    BY <1>8 DEF SwapReads, marketTables, MIdle, MCall
  <2>1. CASE ~Affords(mcall[c])
    <3>1. Proceeds(c, MIdle)
      BY <1>8, <2>1 DEF SwapReads
    <3> QED
      BY <1>0, <1>3, <2>0, <3>1, DebtLeaves
  <2>2. CASE Affords(mcall[c])
    <3> DEFINE q == [mcall[c] EXCEPT !.pc = "swap"]
    <3>1. Proceeds(c, q)
      BY <1>8, <2>2 DEF SwapReads
    <3>2. q.pc = "swap" /\ q.from = mcall[c].from /\ q.amount = mcall[c].amount
      BY DEF MarketTypeOK
    <3> HIDE DEF q
    <3>3. c \notin PolSpenders \cup UsdcSpenders
      BY <2>0 DEF PolSpenders, UsdcSpenders
    <3>4. c \in PolSpenders' => pol >= mcall'[c].amount
      BY <1>3, <2>0, <2>2, <3>1, <3>2 DEF PolSpenders, Affords
    <3>5. c \in UsdcSpenders' => usdc >= mcall'[c].amount
      BY <1>3, <2>0, <2>2, <3>1, <3>2 DEF UsdcSpenders, Affords
    <3> QED
      BY <1>3, <2>0, <3>1, <3>3, <3>4, <3>5, DebtEnters
  <2> QED
    BY <2>1, <2>2
<1>9. ASSUME NEW c \in Calls, SwapCommits(c) PROVE DebtInv'
  <2>0. mcall[c].pc = "swap" /\ Proceeds(c, MIdle) /\ MIdle.pc = "idle"
    BY <1>9 DEF SwapCommits, MIdle, MCall
  <2>1. mcall[c].amount \in Nat /\ mcall[c].rate \in Nat \ {0}
    BY AmountsAre
  <2>2. mcall[c].amount * mcall[c].rate \in Nat /\ mcall[c].amount \div mcall[c].rate \in Nat
    BY <2>1, DivisionIsNatural
  <2>3. CASE mcall[c].from = "POL"
    <3>1. c \in PolSpenders /\ pol' = pol - mcall[c].amount /\ usdc' = usdc + mcall[c].amount * mcall[c].rate
      BY <1>9, <2>3 DEF SwapCommits, PolSpenders
    <3>2. usdc' \in Int /\ usdc' >= usdc /\ pol' \in Int /\ pol' >= pol - mcall[c].amount
      BY <1>0, <2>1, <2>2, <3>1
    <3> QED
      BY <1>3, <2>0, <3>1, <3>2, DebtLeaves
  <2>4. CASE mcall[c].from # "POL"
    <3>1. c \in UsdcSpenders /\ usdc' = usdc - mcall[c].amount /\ pol' = pol + (mcall[c].amount \div mcall[c].rate)
      BY <1>9, <2>4 DEF SwapCommits, UsdcSpenders
    <3>2. pol' \in Int /\ pol' >= pol /\ usdc' \in Int /\ usdc' >= usdc - mcall[c].amount
      BY <1>0, <2>1, <2>2, <3>1
    <3> QED
      BY <1>3, <2>0, <3>1, <3>2, DebtLeaves
  <2> QED
    BY <2>3, <2>4
<1>10. ASSUME NEW c \in Calls, AdCommits(c) PROVE DebtInv'
  <2>0. mcall[c].pc = "ad" /\ Proceeds(c, MIdle) /\ MIdle.pc = "idle" /\ c \in UsdcSpenders
        /\ usdc' = usdc - mcall[c].amount /\ pol' = pol
    BY <1>10 DEF AdCommits, MIdle, MCall, UsdcSpenders
  <2>1. mcall[c].amount \in Nat
    BY AmountsAre
  <2>2. usdc' \in Int /\ usdc' >= usdc - mcall[c].amount
    BY <1>0, <2>0, <2>1
  <2> QED
    BY <1>0, <1>3, <2>0, <2>2, DebtLeaves
<1>11. ASSUME NEW c \in Calls, ViewReads(c) PROVE DebtInv'
  <2>1. UNCHANGED <<pol, usdc>> /\ mcall[c].pc = "view" /\ MIdle.pc = "idle"
    BY <1>11 DEF ViewReads, MIdle, MCall
  <2>2. PICK q : Proceeds(c, q) /\ q.pc \in {"idle", "count"}
    <3>1. [mcall[c] EXCEPT !.pc = "count"].pc = "count"
      BY DEF MarketTypeOK
    <3> QED
      BY <1>11, <2>1, <3>1 DEF ViewReads
  <2> QED
    BY <1>0, <1>3, <2>1, <2>2, DebtLeaves
<1>12. ASSUME NEW c \in Calls, ViewCommits(c) \/ MarketFails(c) PROVE DebtInv'
  <2>1. UNCHANGED pol /\ usdc' \in {usdc, usdc + 1} /\ mcall[c].pc # "idle" /\ MIdle.pc = "idle" /\ Proceeds(c, MIdle)
    BY <1>12 DEF ViewCommits, MarketFails, marketTables, MIdle, MCall
  <2>2. usdc' \in Int /\ usdc' >= usdc
    BY <1>0, <2>1
  <2> QED
    BY <1>0, <1>3, <2>1, <2>2, DebtLeaves
<1> QED
  BY <1>1, <1>4, <1>5, <1>6, <1>7, <1>8, <1>9, <1>10, <1>11, <1>12
     DEF MarketNext, marketVars, marketTables, PriceMoves

LEMMA QuotesStep == ASSUME MarketTypeOK, QuotesInv, [MarketNext]_marketVars PROVE QuotesInv'
<1>1. CASE UNCHANGED <<hour, price, quotes, priceCache>>
  BY <1>1 DEF QuotesInv
<1>2. CASE PriceMoves
  BY <1>2 DEF PriceMoves, QuotesInv
<1>3. ASSUME NEW c \in Calls, getPolUsdPrice(c) PROVE QuotesInv'
  BY <1>3 DEF getPolUsdPrice, Proceeds, QuotesInv
<1> QED
  BY <1>1, <1>2, <1>3 DEF MarketNext, marketVars, executeSwap, createAd, trackView, Orders, SwapReads, SwapCommits,
     AdCommits, ViewReads, ViewCommits, MarketFails, Proceeds

LEMMA RatesRecentStep ==
    ASSUME MarketTypeOK, QuotesInv, [MarketNext]_marketVars, NEW c \in Calls,
           mcall[c].pc = "price", mcall'[c].pc = "read"
    PROVE  \/ mcall'[c].rate = Fallback
           \/ \E q \in quotes : q.price = mcall'[c].rate /\ hour < q.at + Ttl
<1>0. DOMAIN mcall = Calls /\ hour \in Nat /\ Ttl \in Nat \ {0}
  BY MarketAssumption DEF MarketTypeOK, Hours
<1>1. ASSUME NEW d \in Calls, NEW q, \/ Orders(d, q) /\ q.pc # "read"
                                     \/ Proceeds(d, q) /\ mcall[d].pc # "price"
                                     \/ Proceeds(d, q) /\ q.pc # "read"
      PROVE  FALSE
  BY <1>0, <1>1 DEF Orders, Proceeds
<1>2. ASSUME NEW d \in Calls, executeSwap(d) \/ createAd(d) \/ \E v \in Viewers : trackView(d, v) PROVE FALSE
  <2>1. PICK q : Orders(d, q) /\ q.pc # "read"
    <3>1. \A pc, f, a, r, w : MCall(pc, f, a, r, w).pc = pc
      BY DEF MCall
    <3>2. CASE executeSwap(d)
      BY <3>1, <3>2 DEF executeSwap
    <3>3. CASE createAd(d)
      BY <3>1, <3>3 DEF createAd
    <3>4. CASE \E v \in Viewers : trackView(d, v)
      BY <3>1, <3>4 DEF trackView
    <3> QED
      BY <1>2, <3>2, <3>3, <3>4
  <2> QED
    BY <1>1, <2>1
<1>3. ASSUME NEW d \in Calls, SwapReads(d) \/ SwapCommits(d) \/ AdCommits(d) \/ ViewReads(d) \/ ViewCommits(d) PROVE FALSE
  BY <1>1, <1>3 DEF SwapReads, SwapCommits, AdCommits, ViewReads, ViewCommits
<1>4. ASSUME NEW d \in Calls, MarketFails(d) PROVE FALSE
  <2>1. Proceeds(d, MIdle) /\ MIdle.pc # "read"
    BY <1>4 DEF MarketFails, MIdle, MCall
  <2> QED
    BY <1>1, <2>1
<1>5. getPolUsdPrice(c)
  <2>1. PICK d \in Calls : getPolUsdPrice(d)
    BY <1>2, <1>3, <1>4 DEF MarketNext, marketVars, PriceMoves
  <2>2. d = c
    BY <1>0, <2>1 DEF getPolUsdPrice, Proceeds
  <2> QED
    BY <2>1, <2>2
<1>6. CASE Fresh
  <2>1. mcall'[c].rate = priceCache.price /\ priceCache \in quotes /\ hour < priceCache.at + Ttl
    BY <1>0, <1>5, <1>6 DEF getPolUsdPrice, Proceeds, Fresh, QuotesInv, MarketTypeOK
  <2> QED
    BY <2>1
<1>7. CASE ~Fresh
  <2>1. mcall'[c].rate \in {price, Fallback}
    BY <1>0, <1>5, <1>7 DEF getPolUsdPrice, Proceeds, MarketTypeOK
  <2>2. Cached(price, hour).price = price /\ Cached(price, hour).at = hour /\ hour < hour + Ttl
    BY <1>0 DEF Cached
  <2> QED
    BY <2>1, <2>2 DEF QuotesInv
<1> QED
  BY <1>6, <1>7

LEMMA AdsStep == ASSUME MarketTypeOK, MarketTypeOK', DebtInv, AdsInv, [MarketNext]_marketVars PROVE AdsInv'
<1>0. DOMAIN mcall = Calls /\ jam \in BOOLEAN /\ ad \in AdRows \cup {None} /\ None \notin AdRows
      /\ earned \in Nat /\ TargetViews \in Nat
  BY MarketAssumption DEF MarketTypeOK, AdRows
<1>1. CASE UNCHANGED <<mcall, ad, views, earned, jam>>
  BY <1>1 DEF AdsInv
\* A step that leaves the views alone, and begins none.
<1>2. ASSUME NEW c \in Calls, UNCHANGED <<ad, views, earned>>, \A d \in Calls : d # c => mcall'[d] = mcall[d],
             mcall'[c].pc \notin {"view", "count"}, ~jam' => ~jam
      PROVE  AdsInv'
  BY <1>2 DEF AdsInv
<1>3. ASSUME NEW c \in Calls, NEW q, Orders(c, q)
      PROVE  /\ mcall'[c] = q /\ \A d \in Calls : d # c => mcall'[d] = mcall[d]
             /\ UNCHANGED <<ad, views, earned>> /\ (~jam' => ~jam /\ \A d \in Calls : mcall[d].pc = "idle")
  BY <1>0, <1>3 DEF Orders, marketTables
<1>4. ASSUME NEW c \in Calls, NEW q, Proceeds(c, q)
      PROVE  /\ mcall'[c] = q /\ \A d \in Calls : d # c => mcall'[d] = mcall[d]
             /\ (~jam' => ~jam)
  BY <1>0, <1>4 DEF Proceeds
<1>5. ASSUME NEW c \in Calls, executeSwap(c) \/ createAd(c) PROVE AdsInv'
  <2>1. PICK q : Orders(c, q) /\ q.pc \notin {"view", "count"}
    <3>1. \A pc, f, a, r, w : MCall(pc, f, a, r, w).pc = pc
      BY DEF MCall
    <3>2. CASE executeSwap(c)
      BY <3>1, <3>2 DEF executeSwap
    <3>3. CASE createAd(c)
      BY <3>1, <3>3 DEF createAd
    <3> QED
      BY <1>5, <3>2, <3>3
  <2> QED
    BY <1>2, <1>3, <2>1
<1>6. ASSUME NEW c \in Calls, NEW v \in Viewers, trackView(c, v) PROVE AdsInv'
  <2>1. Orders(c, MCall("view", v, 0, Fallback, ad)) /\ ad \in AdRows
    BY <1>0, <1>6 DEF trackView
  <2>2. mcall'[c].pc = "view" /\ mcall'[c].row = ad /\ mcall'[c].from = v
    BY <1>3, <2>1 DEF MCall
  <2> QED
    BY <1>3, <2>1, <2>2 DEF AdsInv
<1>7. ASSUME NEW c \in Calls, getPolUsdPrice(c) \/ SwapReads(c) \/ SwapCommits(c) \/ MarketFails(c) PROVE AdsInv'
  <2>1. PICK q : Proceeds(c, q) /\ q.pc \notin {"view", "count"}
    <3>1. \A r : [mcall[c] EXCEPT !.pc = "read", !.rate = r].pc = "read"
      BY DEF MarketTypeOK
    <3>2. [mcall[c] EXCEPT !.pc = "swap"].pc = "swap" /\ MIdle.pc = "idle"
      BY DEF MarketTypeOK, MIdle, MCall
    <3> QED
      BY <1>7, <3>1, <3>2 DEF getPolUsdPrice, SwapReads, SwapCommits, MarketFails
  <2>2. UNCHANGED <<ad, views, earned>>
    BY <1>7 DEF getPolUsdPrice, SwapReads, SwapCommits, MarketFails, marketTables
  <2> QED
    BY <1>2, <1>4, <2>1, <2>2
<1>8. ASSUME NEW c \in Calls, AdCommits(c) PROVE AdsInv'
  <2>1. Proceeds(c, MIdle) /\ MIdle.pc = "idle" /\ UNCHANGED <<views, earned>>
        /\ ad' = (IF ad = None THEN Ad("active", 0) ELSE ad) /\ mcall[c].pc = "ad"
    BY <1>8 DEF AdCommits, MIdle, MCall
  <2>2. Ad("active", 0) \in AdRows /\ Ad("active", 0).views = 0
    BY <1>0 DEF Ad, AdRows
  <2>3. ~jam' => \A d \in Calls : mcall'[d].pc = "idle"
    BY <1>4, <2>1 DEF DebtInv
  <2>4. ~jam' => (ad' = None => earned' = 0) /\ (ad' # None => earned' = ad'.views)
    BY <1>0, <1>4, <2>1, <2>2 DEF AdsInv
  <2> QED
    BY <1>0, <1>4, <2>1, <2>2, <2>3, <2>4 DEF AdsInv
<1>9. ASSUME NEW c \in Calls, ViewReads(c) PROVE AdsInv'
  <2>1. mcall[c].pc = "view" /\ mcall[c].row \in AdRows /\ ad \in AdRows /\ mcall[c].from \in Viewers
        /\ UNCHANGED <<views, earned>>
    BY <1>9 DEF ViewReads, AdsInv
  <2>2. ad' \in AdRows /\ ad'.views = ad.views
    BY <1>9, <2>1 DEF ViewReads, AdRows
  <2>3. /\ \A d \in Calls : d # c => mcall'[d] = mcall[d]
        /\ ~jam' => ~jam
        /\ mcall'[c].pc \in {"idle", "count"}
        /\ mcall'[c].pc = "count" => /\ mcall'[c].row = mcall[c].row /\ mcall'[c].from = mcall[c].from
                                     /\ mcall[c].row.views < TargetViews
    <3>1. CASE mcall[c].row.status = "active" /\ mcall[c].row.views < TargetViews /\ NewView(mcall[c].from)
      <4>1. Proceeds(c, [mcall[c] EXCEPT !.pc = "count"])
        BY <1>9, <3>1 DEF ViewReads
      <4>2. /\ [mcall[c] EXCEPT !.pc = "count"].pc = "count"
            /\ [mcall[c] EXCEPT !.pc = "count"].row = mcall[c].row
            /\ [mcall[c] EXCEPT !.pc = "count"].from = mcall[c].from
        BY DEF MarketTypeOK
      <4> QED
        BY <1>4, <3>1, <4>1, <4>2
    <3>2. CASE ~(mcall[c].row.status = "active" /\ mcall[c].row.views < TargetViews /\ NewView(mcall[c].from))
      <4>1. Proceeds(c, MIdle) /\ MIdle.pc = "idle"
        BY <1>9, <3>2 DEF ViewReads, MIdle, MCall
      <4> QED
        BY <1>4, <4>1
    <3> QED
      BY <3>1, <3>2
  <2> QED
    BY <1>0, <2>1, <2>2, <2>3 DEF AdsInv
<1>10. ASSUME NEW c \in Calls, ViewCommits(c) PROVE AdsInv'
  <2> DEFINE q == mcall[c]
  <2>1. q.pc = "count" /\ q.row \in AdRows /\ ad \in AdRows /\ Proceeds(c, MIdle) /\ MIdle.pc = "idle"
    BY <1>10 DEF ViewCommits, AdsInv, MIdle, MCall
  <2>2. \A d \in Calls : d # c => mcall'[d] = mcall[d]
    BY <1>4, <2>1
  <2>3. mcall'[c].pc = "idle" /\ (~jam' => ~jam /\ \A d \in Calls : mcall'[d].pc = "idle")
    BY <1>4, <2>1 DEF DebtInv
  <2>4. CASE NewView(q.from)
    <3>1. /\ views' = views \cup {q.from} /\ q.from \notin views /\ earned' = earned + 1
          /\ ad'.views = q.row.views + 1 /\ ad' \in AdRows \cup {None}
          /\ ad' = Ad(IF q.row.views + 1 >= TargetViews THEN "completed" ELSE "active", q.row.views + 1)
      BY <1>10, <2>4 DEF ViewCommits, NewView, Ad, MarketTypeOK
    <3>2. ad' \in AdRows
      <4>1. q.row.views + 1 \in Nat
        BY <2>1 DEF AdRows
      <4>2. ad' \in [status: {"active", "completed"}, views: Nat]
        BY <3>1, <4>1 DEF Ad
      <4> QED
        BY <3>1, <4>2, MarketAssumption
    <3>3. IsFiniteSet(views') /\ earned' = Cardinality(views')
      BY <3>1, FS_AddElement DEF AdsInv
    <3>4. ~jam' => earned' = ad'.views
      BY <1>0, <2>1, <2>3, <3>1 DEF AdsInv
    <3> QED
      BY <1>0, <2>2, <2>3, <3>2, <3>3, <3>4 DEF AdsInv
  <2>5. CASE ~NewView(q.from)
    <3>1. UNCHANGED <<ad, views, earned>>
      BY <1>10, <2>5 DEF ViewCommits
    <3> QED
      BY <1>2, <2>2, <2>3, <3>1
  <2> QED
    BY <2>4, <2>5
<1> QED
  BY <1>1, <1>5, <1>6, <1>7, <1>8, <1>9, <1>10 DEF MarketNext, marketVars, marketTables, PriceMoves

LEMMA MarketStep == ASSUME MarketInv, [MarketNext]_marketVars PROVE MarketInv'
<1>1. MarketTypeOK'
  BY MarketTypes DEF MarketInv
<1> QED
  BY <1>1, DebtStep, QuotesStep, AdsStep DEF MarketInv

LEMMA MarketSound == MarketInv => MarketDebtIsBounded /\ AdsMatchViews
<1> SUFFICES ASSUME MarketInv PROVE MarketDebtIsBounded /\ AdsMatchViews
  OBVIOUS
<1> DEFINE n == Cardinality(Calls)
<1>1. AdsMatchViews
  BY MarketAssumption DEF MarketInv, AdsInv, AdsMatchViews, MarketTypeOK, AdRows
<1>2. ASSUME NEW S \in SUBSET Calls, NEW b \in Int, Covered(b, S, mcall) PROVE b >= Most * (1 - n)
  <2> DEFINE s == Cardinality(S)
  <2>1. n \in Nat /\ s \in Nat
    BY CallsAreCounted
  <2>2. Most * s \in Nat /\ Most * (s + 1 - n) = Most * s + Most * (1 - n)
        /\ Most * (1 - n) \in Int
    BY <2>1, MostOfTaken
  <2>3. CASE b >= Most * (s + 1 - n)
    BY <2>2, <2>3
  <2>4. ASSUME NEW c \in S, b >= mcall[c].amount + Most * (s - n) PROVE b >= Most * (1 - n)
    <3>1. s >= 1
      BY <2>1, CallsAreCounted, FS_EmptySet
    <3>2. s - 1 \in Nat
      BY <2>1, <3>1
    <3> HIDE DEF s, n
    <3>3. Most * (s - 1) \in Nat /\ Most * (s - n) = Most * (s - 1) + Most * (1 - n)
      BY <2>1, <3>2, MostOfTaken
    <3>4. mcall[c].amount \in Nat
      BY AmountsAre DEF MarketInv
    <3> QED
      BY <2>2, <2>4, <3>3, <3>4
  <2> QED
    BY <1>2, <2>3, <2>4 DEF Covered
<1>3. pol >= Most * (1 - n) /\ usdc >= Most * (1 - n)
  BY <1>2 DEF MarketInv, DebtInv, MarketTypeOK, PolSpenders, UsdcSpenders
<1>4. ~jam => pol >= 0 /\ usdc >= 0
  BY DEF MarketInv, DebtInv
<1> QED
  BY <1>1, <1>3, <1>4 DEF MarketDebtIsBounded, Most, Taken

\* Overlapping swaps and ads overdraw a balance by less than what each but one
\* of them takes, the owner of an ad is paid once for each viewer, and a swap's
\* rate is recent.
THEOREM MarketIsFair ==
    MarketSpec => [](MarketTypeOK /\ MarketDebtIsBounded /\ AdsMatchViews) /\ RatesAreRecent
<1>1. MarketInv /\ [MarketNext]_marketVars => MarketInv'
  BY MarketStep
<1>2. MarketInv => MarketTypeOK /\ MarketDebtIsBounded /\ AdsMatchViews
  BY MarketSound DEF MarketInv
<1>3. MarketInv /\ [MarketNext]_marketVars =>
         [\A c \in Calls :
            (mcall[c].pc = "price" /\ mcall'[c].pc = "read") =>
                \/ mcall'[c].rate = Fallback
                \/ \E q \in quotes : q.price = mcall'[c].rate /\ hour < q.at + Ttl]_marketVars
  BY RatesRecentStep DEF MarketInv
<1>4. MarketSpec => []MarketInv
  BY <1>1, MarketBegins, PTL DEF MarketSpec
<1>5. MarketSpec => RatesAreRecent
  BY <1>3, <1>4, PTL DEF MarketSpec, RatesAreRecent
<1> QED
  BY <1>2, <1>4, <1>5, PTL
-----------------------------------------------------------------------------
(* What a player does between two blocks.                                   *)

\* The modules share no state: each does in a run of them all what it does
\* alone.
LEMMA PlayRuns ==
    PlaySpec => /\ MachinesSpec /\ FaucetSpec /\ ShortlinkSpec /\ WatchSpec /\ GamesSpec
                /\ MemorySpec /\ Match3Spec /\ CheckinSpec /\ MarketSpec
<1>1. PlayInit => /\ MachinesInit /\ FaucetInit /\ ShortlinkInit /\ WatchInit /\ GamesInit
                  /\ MemoryInit /\ Match3Init /\ CheckinInit /\ MarketInit
  BY DEF PlayInit
<1>2. ASSUME [PlayNext]_playVars
      PROVE  /\ [MachinesNext]_machinesVars /\ [FaucetNext]_faucetVars
             /\ [ShortlinkNext]_shortlinkVars /\ [WatchNext]_watchVars /\ [GamesNext]_gamesVars
             /\ [MemoryNext]_memoryVars /\ [Match3Next]_match3Vars /\ [CheckinNext]_checkinVars
             /\ [MarketNext]_marketVars
  BY <1>2 DEF PlayNext, playVars
<1> QED
  BY <1>1, <1>2, PTL
  DEF PlaySpec, MachinesSpec, FaucetSpec, ShortlinkSpec, WatchSpec, GamesSpec, MemorySpec,
      Match3Spec, CheckinSpec, MarketSpec

\* Type correctness of every module of the run.
THEOREM PlayIsTyped == PlaySpec => []PlayTypeOK
<1>1. /\ MachinesTypeOK /\ FaucetTypeOK /\ ShortlinkTypeOK /\ WatchTypeOK /\ GamesTypeOK
      /\ MemoryTypeOK /\ Match3TypeOK /\ CheckinTypeOK /\ MarketTypeOK
      => PlayTypeOK
  BY DEF PlayTypeOK
<1> QED
  BY <1>1, PlayRuns, PurchasesAreCovered, FaucetIsFair, ShortlinksAreWaited, WatchIsFair,
     GamesAreSpaced, MemoryIsShown, BoardsAreStable, CheckinsCount, MarketIsFair, PTL

\* What a player is rewarded for takes the time it is said to take.
THEOREM RewardsEarned == PlaySpec => RewardsAreEarned
BY PlayRuns, FaucetIsFair, ShortlinksAreWaited, PTL DEF RewardsAreEarned

\* Rewards are counted as they are given, at the faucet and for shortlinks.
THEOREM RewardsCounted == PlaySpec => []RewardsAreCounted
<1>1. TotalCountsTheDay /\ RunsAreLimited /\ TabFollowsRow => RewardsAreCounted
  BY DEF RewardsAreCounted
<1> QED
  BY <1>1, PlayRuns, FaucetIsFair, ShortlinksAreWaited, PTL

\* Watching is paid for the time it takes, within its limits.
THEOREM WatchPaid == PlaySpec => []WatchIsPaid
<1>1. TimeIsEarned /\ TimeCoversClaims /\ LivePowersAreLimited /\ MachinesMatchClaims /\ GpusWaitInTurn
      => WatchIsPaid
  BY DEF WatchIsPaid
<1> QED
  BY <1>1, PlayRuns, WatchIsFair, PTL

\* Games give powers a cooldown apart, and show and move what they hold.
THEOREM GamesSound == PlaySpec => []GamesAreSound
<1>1. /\ PowersAreSpaced /\ SessionsAreLive /\ TabShowsBoard /\ CardsWillClose /\ SymbolsAreKnown
      /\ BoardIsStable /\ ColumnsFall
      => GamesAreSound
  BY DEF GamesAreSound
<1> QED
  BY <1>1, PlayRuns, GamesAreSpaced, MemoryIsShown, BoardsAreStable, PTL

\* Check-ins are paid once a day and counted as a run of days.
THEOREM CheckinsKept == PlaySpec => []CheckinsAreKept
<1>1. OnePaymentADay /\ StreakIsARun => CheckinsAreKept
  BY DEF CheckinsAreKept
<1> QED
  BY <1>1, PlayRuns, CheckinsCount, PTL

\* What was looked up before an await is still true when it is used.
THEOREM AnswersTrue == PlaySpec => AnswersAreTrue
BY PlayRuns, CheckinsCount, MarketIsFair, PTL DEF AnswersAreTrue

\* Overlapping requests overdraw a balance by a bounded amount, and views are
\* paid once each.
THEOREM MarketSoundAlways == PlaySpec => []MarketIsSound
<1>1. MarketDebtIsBounded /\ AdsMatchViews /\ DebtIsBounded => MarketIsSound
  BY DEF MarketIsSound
<1> QED
  BY <1>1, PlayRuns, MarketIsFair, PurchasesAreCovered, PTL
=============================================================================
