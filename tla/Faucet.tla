------------------------------- MODULE Faucet -------------------------------
(***************************************************************************)
(* The faucet of one user: a visit to the partner's site opened and waited  *)
(* for, then a claim, at most one per cooldown, counted per calendar day.   *)
(* A claim reads the record, normalises it to the day, reads the visit, and *)
(* commits in a transaction that repeats none of the checks.                *)
(***************************************************************************)
EXTENDS Requests

CONSTANTS
    Cooldown, Wait, \* in ticks of the clock
    DayLength,
    LastTick        \* bound: the clock

ASSUME FaucetAssumption ==
    /\ {Cooldown, Wait, LastTick} \subseteq Nat
    /\ DayLength \in Nat \ {0}
    /\ None \notin Nat

VARIABLES
    tick,
    record,     \* faucet_claims: [at, total, day]
    visit,      \* faucet_partner_visits by day: when it was opened
    given,      \* machines given, by day
    latest,     \* the last claim: [at, opened]
    fcall,      \* progress of each request
    overlap     \* whether "requests" or even "claims" were in flight together

claims == <<given, latest>>
faucetVars == <<tick, record, visit, claims, fcall, overlap>>

Ticks == 0 .. LastTick
Today == tick \div DayLength
Days == {t \div DayLength : t \in Ticks}
Never == -1

FaucetRecord(at, total, day) == [at |-> at, total |-> total, day |-> day]
NoRecord == FaucetRecord(Never, 0, None)

\* now: when the handler began; rec, day: the record as read or normalised,
\* and the day it is normalised to; opened: the visit that lets it claim.
FCall(pc, op, now, rec, day, opened) ==
    [pc |-> pc, op |-> op, now |-> now, rec |-> rec, day |-> day, opened |-> opened]

FIdle == FCall("idle", "none", Never, NoRecord, None, Never)

FaucetInit ==
    /\ tick = 0
    /\ record = NoRecord
    /\ visit = [d \in Days |-> Never]
    /\ given = [d \in Days |-> 0]
    /\ latest = [at |-> Never, opened |-> Never]
    /\ fcall = [c \in Calls |-> FIdle]
    /\ overlap = "none"

FaucetTick ==
    /\ tick < LastTick
    /\ tick' = tick + 1
    /\ UNCHANGED <<record, visit, claims, fcall, overlap>>

startPartnerVisit ==
    /\ visit' = [visit EXCEPT ![Today] = tick]
    /\ UNCHANGED <<tick, record, claims, fcall, overlap>>

\* claim and getStatus read the record first.
ReadRecord(c, op) ==
    /\ fcall[c].pc = "idle"
    /\ fcall' = [fcall EXCEPT ![c] = FCall("read", op, tick, record, None, Never)]
    /\ overlap' = LET others == {fcall[d].op : d \in Calls} IN
                  IF op = "claim" /\ op \in others THEN "claims"
                  ELSE IF overlap = "none" /\ others # {"none"} THEN "requests" ELSE overlap
    /\ UNCHANGED <<tick, record, visit, claims>>

Goes(c, q) == fcall' = [fcall EXCEPT ![c] = q]

\* Slip: a new day forgets the last claim, too.
StartsAfresh(rec) == FaucetRecord(Never, 0, Today)

\* Slip: the count of another day goes on.
KeepsTotal(rec) == [rec EXCEPT !.day = Today]

Normalised(rec) == [rec EXCEPT !.total = 0, !.day = Today]

\* update writes the count and the day into the row as it is now, and
\* returns the row.
normalizeFaucetRecord(c) ==
    LET q == fcall[c]
        stale == q.rec # NoRecord /\ q.rec.day # Today
    IN  /\ q.pc = "read"
        /\ record' = IF stale THEN Normalised(record) ELSE record
        /\ Goes(c, FCall("normal", q.op, q.now,
                         IF stale THEN Normalised(record) ELSE q.rec, Today, Never))
        /\ UNCHANGED <<tick, visit, claims, overlap>>

\* Slip: the cooldown is not looked at.
AvailableAlways(rec, now) == TRUE

Available(rec, now) == rec.at = Never \/ now >= rec.at + Cooldown

\* Slip: a visit that was used for the last claim counts again.
VisitWaited(opened, rec, now) == opened # Never /\ now >= opened + Wait

PartnerReady(opened, rec, now) ==
    opened # Never /\ opened > rec.at /\ now >= opened + Wait

\* getStatus answers whether the user can claim and changes nothing more.
FaucetChecks(c) ==
    LET q == fcall[c]
        opened == visit[q.day]
    IN  /\ q.pc = "normal"
        /\ Goes(c, IF /\ q.op = "claim"
                      /\ Available(q.rec, q.now)
                      /\ PartnerReady(opened, q.rec, q.now)
                   THEN FCall("ready", "claim", q.now, q.rec, q.day, opened)
                   ELSE FIdle)
        /\ UNCHANGED <<tick, record, visit, claims, overlap>>

\* Slip: the time of the next claim is stored.
CommitsNextClaim(c) ==
    LET q == fcall[c] IN
    /\ q.pc = "ready"
    /\ given' = [given EXCEPT ![q.day] = @ + 1]
    /\ latest' = [at |-> q.now, opened |-> q.opened]
    /\ record' = FaucetRecord(q.now + Cooldown, record.total + 1, q.day)
    /\ Goes(c, FIdle)
    /\ UNCHANGED <<tick, visit, overlap>>

FaucetCommits(c) ==
    LET q == fcall[c] IN
    /\ q.pc = "ready"
    /\ given' = [given EXCEPT ![q.day] = @ + 1]
    /\ latest' = [at |-> q.now, opened |-> q.opened]
    /\ record' = FaucetRecord(q.now, record.total + 1, q.day)
    /\ Goes(c, FIdle)
    /\ UNCHANGED <<tick, visit, overlap>>

\* A statement throws.
FaucetFails(c) ==
    /\ MayFail
    /\ fcall[c].pc # "idle"
    /\ Goes(c, FIdle)
    /\ UNCHANGED <<tick, record, visit, claims, overlap>>

FaucetNext ==
    \/ FaucetTick
    \/ startPartnerVisit
    \/ \E c \in Calls :
          \/ \E op \in {"claim", "status"} : ReadRecord(c, op)
          \/ normalizeFaucetRecord(c) \/ FaucetChecks(c)
          \/ FaucetCommits(c) \/ FaucetFails(c)

FaucetSpec == FaucetInit /\ [][FaucetNext]_faucetVars

-----------------------------------------------------------------------------
(* Properties.                                                              *)

\* Type correctness of the clock, the tables and the requests.
FaucetTypeOK ==
    /\ tick \in Ticks
    /\ record.at \in Ticks \cup {Never} /\ record.total \in Nat
    /\ record.day \in Days \cup {None}
    /\ visit \in [Days -> Ticks \cup {Never}]
    /\ given \in [Days -> Nat]
    /\ {latest.at, latest.opened} \subseteq Ticks \cup {Never}
    /\ DOMAIN fcall = Calls /\ overlap \in {"none", "requests", "claims"}

\* Claims are a cooldown apart, across midnight and whatever status requests
\* overlap them, unless claims overlapped ("o cooldown do faucet ja limita
\* novos resgates").
ClaimsAreSpaced ==
    [][(latest' # latest /\ latest.at # Never /\ overlap # "claims")
          => latest'.at >= latest.at + Cooldown]_faucetVars

\* Every claim has a visit of its own: waited for, and opened after the claim
\* before it; unless claims overlapped.
ClaimsHaveVisits ==
    [][(latest' # latest /\ overlap # "claims")
          => /\ latest'.at >= latest'.opened + Wait
             /\ latest'.opened > latest.at]_faucetVars

\* total_claims counts the claims made under day_key, unless requests
\* overlapped.
TotalCountsTheDay ==
    overlap # "none" \/ record.day = None \/ record.total = given[record.day]
=============================================================================
