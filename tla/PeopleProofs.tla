---------------------------- MODULE PeopleProofs ----------------------------
(***************************************************************************)
(* Theorems about the server's own helpers and the modules of people, for   *)
(* any jobs, rates, users and bounds: of each component by itself, then of  *)
(* all of them, and the pages, side by side.                                *)
(***************************************************************************)
EXTENDS PagesProofs

-----------------------------------------------------------------------------
(* The cron action runner.                                                  *)

\* A run under way has a job of its own, whose lock it or another run of the
\* same job holds; runs of a job that must not overlap are one.
RunsAreLocked ==
    /\ \A c \in Calls : runs[c].action = None <=> runs[c] = NoRun
    /\ \A c \in Calls : runs[c] # NoRun => runs[c].action \in inFlight \cup Parallel
    /\ \A c, d \in Calls :
          runs[c].action = runs[d].action /\ runs[c].action \in Actions \ Parallel => c = d

CronInv == CronTypeOK /\ RunsAreLocked /\ LocksAreHeld

LEMMA StagesAreFive == Len(Stages) = 5 /\ \A i \in 1 .. 5 : Stages[i] \in {Stages[j] : j \in 1 .. Len(Stages)}
  BY DEF Stages

LEMMA CronBegins == CronInit => CronInv
  BY CronAssumption, StagesAreFive
     DEF CronInit, CronInv, CronTypeOK, RunsAreLocked, LocksAreHeld, NoRun, Run

\* Whatever a run answers, it gives its own lock back.
LEMMA ReturningIsSound ==
    ASSUME CronInv, NEW c \in Calls, runs[c].at \in 1 .. Len(Stages),
           NEW answer \in {"ok"} \cup {Stages[i] : i \in 1 .. Len(Stages)}, Returns(c, answer)
    PROVE  CronInv'
<1> DEFINE a == runs[c].action
<1>1. runs[c] # NoRun /\ a \in Actions
  BY CronAssumption DEF NoRun, Run, CronInv, CronTypeOK, RunsAreLocked
<1>2. /\ inFlight' = inFlight \ {a}
      /\ \A d \in Calls : runs'[d] = IF d = c THEN NoRun ELSE runs[d]
      /\ outcome' = [outcome EXCEPT ![a] = answer]
      /\ runs' = [runs EXCEPT ![c] = NoRun]
  BY DEF Returns, Released, CronInv, CronTypeOK
<1>3. CronTypeOK'
  BY <1>1, <1>2 DEF CronInv, CronTypeOK, NoRun, Run
<1>4. RunsAreLocked'
  BY <1>1, <1>2, CronAssumption DEF CronInv, CronTypeOK, RunsAreLocked, NoRun, Run
<1>5. LocksAreHeld'
  <2> SUFFICES ASSUME NEW b \in inFlight \ {a}, b \notin Parallel PROVE Running(b)' # {}
    BY <1>2 DEF LocksAreHeld
  <2>1. PICK d \in Calls : runs[d].action = b
    BY DEF CronInv, LocksAreHeld, Running
  <2> QED
    BY <1>2, <2>1 DEF Running
<1> QED
  BY <1>3, <1>4, <1>5 DEF CronInv

LEMMA CronStep == ASSUME CronInv, [CronNext]_cronVars PROVE CronInv'
<1>1. CASE UNCHANGED cronVars
  BY <1>1 DEF cronVars, CronInv, CronTypeOK, RunsAreLocked, LocksAreHeld, Running
<1>2. CASE Restarts
  BY <1>2, CronAssumption, StagesAreFive
     DEF Restarts, CronInv, CronTypeOK, RunsAreLocked, LocksAreHeld, NoRun, Run
<1>3. ASSUME NEW c \in Calls, RunAction(c) PROVE CronInv'
  <2>1. PICK a \in Actions :
          /\ runs[c] = NoRun /\ MayStart(a)
          /\ inFlight' = inFlight \cup {a}
          /\ runs' = [runs EXCEPT ![c] = Run(1, a)]
          /\ UNCHANGED outcome
    BY <1>3 DEF RunAction
  <2>2. \A d \in Calls : runs'[d] = IF d = c THEN Run(1, a) ELSE runs[d]
    BY <2>1 DEF CronInv, CronTypeOK
  <2>3. Run(1, a) # NoRun /\ Run(1, a).action = a /\ a # None
          /\ Run(1, a) \in [at : 0 .. Len(Stages), action : Actions \cup {None}]
    BY CronAssumption, StagesAreFive DEF Run, NoRun
  <2>4. CronTypeOK'
    BY <2>1, <2>3 DEF CronInv, CronTypeOK
  <2>5. ASSUME a \notin Parallel PROVE \A d \in Calls : runs[d].action # a
    <3>1. a \notin inFlight
      BY <2>1, <2>5 DEF MayStart
    <3> QED
      BY <2>3, <2>5, <3>1 DEF CronInv, RunsAreLocked
  <2>6. RunsAreLocked'
    BY <2>1, <2>2, <2>3, <2>5 DEF CronInv, RunsAreLocked
  <2>7. LocksAreHeld'
    <3> SUFFICES ASSUME NEW b \in inFlight \cup {a}, b \notin Parallel PROVE Running(b)' # {}
      BY <2>1 DEF LocksAreHeld
    <3>1. CASE b = a
      BY <2>2, <2>3, <3>1 DEF Running
    <3>2. CASE b # a
      <4>1. PICK d \in Calls : runs[d].action = b
        BY <3>2 DEF CronInv, LocksAreHeld, Running
      <4>2. d # c
        BY <2>1, <4>1, CronAssumption DEF NoRun, Run, CronInv, CronTypeOK
      <4> QED
        BY <2>2, <4>1, <4>2 DEF Running
    <3> QED
      BY <3>1, <3>2
  <2> QED
    BY <2>4, <2>6, <2>7 DEF CronInv
<1>4. ASSUME NEW c \in Calls, Skipped(c) PROVE CronInv'
  BY <1>4 DEF Skipped, CronInv, CronTypeOK, RunsAreLocked, LocksAreHeld, Running
<1>5. ASSUME NEW c \in Calls, StageEnds(c) PROVE CronInv'
  <2>1. CASE runs[c].at < Len(Stages)
    <3> DEFINE r == [runs[c] EXCEPT !.at = @ + 1]
    <3>1. /\ \A d \in Calls : runs'[d] = IF d = c THEN r ELSE runs[d]
          /\ runs' = [runs EXCEPT ![c] = r]
          /\ UNCHANGED <<inFlight, outcome>>
      BY <1>5, <2>1 DEF StageEnds, CronInv, CronTypeOK
    <3>2. /\ r \in [at : 0 .. Len(Stages), action : Actions \cup {None}]
          /\ r.action = runs[c].action /\ r.at = runs[c].at + 1 /\ r.at # 0
          /\ runs[c] # NoRun
      BY <1>5, <2>1, StagesAreFive DEF StageEnds, CronInv, CronTypeOK, NoRun, Run
    <3>3. r # NoRun
      BY <3>2 DEF NoRun, Run
    <3> HIDE DEF r
    <3>4. CronTypeOK'
      BY <3>1, <3>2 DEF CronInv, CronTypeOK
    <3>5. \A d \in Calls : runs'[d].action = runs[d].action /\ (runs'[d] = NoRun <=> runs[d] = NoRun)
      BY <3>1, <3>2, <3>3
    <3>6. RunsAreLocked' /\ LocksAreHeld'
      BY <3>1, <3>5 DEF CronInv, RunsAreLocked, LocksAreHeld, Running
    <3> QED
      BY <3>4, <3>6 DEF CronInv
  <2>2. CASE ~(runs[c].at < Len(Stages))
    BY <1>5, <2>2, ReturningIsSound DEF StageEnds
  <2> QED
    BY <2>1, <2>2
<1>6. ASSUME NEW c \in Calls, StageFails(c) PROVE CronInv'
  BY <1>6, ReturningIsSound DEF StageFails
<1> QED
  BY <1>1, <1>2, <1>3, <1>4, <1>5, <1>6 DEF CronNext

LEMMA CronKeeps == CronSpec => []CronInv
  BY CronBegins, CronStep, PTL DEF CronSpec

\* A job whose caller does not allow it never overlaps with itself, however its
\* timers fire and its callbacks fail, and no lock outlives the runs of its
\* job: the next timer finds it free.
THEOREM JobsNeverOverlap == CronSpec => [](CronTypeOK /\ JobsDoNotOverlap /\ LocksAreHeld)
<1>1. CronInv => CronTypeOK /\ JobsDoNotOverlap /\ LocksAreHeld
  BY DEF CronInv, RunsAreLocked, JobsDoNotOverlap, Running
<1> QED
  BY <1>1, CronKeeps, PTL
-----------------------------------------------------------------------------
(* The scripts that rescale hash rates.                                     *)

-----------------------------------------------------------------------------
(* Rates: each is a fair one, with the factor at most once.                 *)

Scaled(v, f) == f \in 1 .. Billion - 1 /\ (v = f \/ v = f * Billion)

\* The assumption as numbers.
LEMMA Bounds ==
    /\ Billion \in Nat /\ LegacyMax \in Nat /\ MaxLevel \in Nat /\ MaxScripts \in Nat
    /\ 0 < LegacyMax /\ LegacyMax <= Billion /\ Billion > 1 /\ MaxLevel > 0
    /\ LooseRates \subseteq 1 .. Billion - 1
    /\ LegacyMax * MaxLevel <= Billion
  BY HashScaleAssumption

LEMMA FactorIsStripped ==
    ASSUME NEW f \in Nat, NEW b \in Nat, b > 0
    PROVE  (f * b) \div b = f /\ (f > 0 => f * b >= b)
  OBVIOUS

\* Counting strips the factor, if it is there.
LEMMA ScaledCounts ==
    ASSUME NEW v, NEW f, Scaled(v, f)
    PROVE  v \in Nat /\ v > 0 /\ HashCounted(v) = f
<1>1. f \in Nat /\ f > 0 /\ f < Billion
  BY Bounds DEF Scaled
<1>2. (f * Billion) \div Billion = f /\ f * Billion >= Billion /\ f * Billion \in Nat
  BY <1>1, Bounds, FactorIsStripped
<1> QED
  BY <1>1, <1>2, Bounds DEF Scaled, HashCounted

\* Neither script gives the factor a second time or takes more than it.
LEMMA ScriptsKeepScaled ==
    ASSUME NEW v, NEW f, Scaled(v, f)
    PROVE  Scaled(Multiplied(v), f) /\ Scaled(HashCounted(v), f)
<1>1. f \in Nat /\ f > 0 /\ f < Billion
  BY Bounds DEF Scaled
<1>2. f * Billion >= Billion
  BY <1>1, Bounds, FactorIsStripped
<1>3. Scaled(Multiplied(v), f)
  BY <1>1, <1>2, Bounds DEF Scaled, Multiplied
<1> QED
  BY <1>1, <1>3, ScaledCounts DEF Scaled

\* A machine's rate is its level's multiple of the catalogue's.
LEMMA LevelsKeepScaled ==
    ASSUME NEW v, NEW c, Scaled(v, c), c < LegacyMax, NEW level \in 1 .. MaxLevel
    PROVE  Scaled(v * level, c * level)
<1>1. c \in Nat /\ c > 0 /\ level \in Nat /\ level > 0 /\ level <= MaxLevel
  BY Bounds DEF Scaled
<1>2. c * level < LegacyMax * MaxLevel /\ c * level > 0 /\ c * level \in Nat
  BY <1>1, Bounds
<1>3. (c * Billion) * level = (c * level) * Billion
  BY <1>1, Bounds
<1> QED
  BY <1>1, <1>2, <1>3, Bounds DEF Scaled

LEMMA ScaledIsBelow ==
    ASSUME NEW v, NEW f, Scaled(v, f)
    PROVE  v < Billion * Billion
<1>1. f \in Nat /\ f < Billion
  BY Bounds DEF Scaled
<1>2. f * Billion < Billion * Billion /\ f < Billion * Billion
  BY <1>1, Bounds
<1> QED
  BY <1>2 DEF Scaled

-----------------------------------------------------------------------------
(* The invariant.                                                           *)

\* What the catalogue's miner counts.
Plain == HashCounted(catalog)

CatalogIsScaled == Plain < LegacyMax /\ Scaled(catalog, Plain)

\* A row that is a machine's, now or when a move has read it.
RowIsFair(m, row) ==
    /\ Scaled(row.rate, fair[m])
    /\ row.place \in {"inventory", "rack"}
    /\ row.level \in 1 .. MaxLevel
    /\ row.linked \in BOOLEAN
    /\ row.linked => fair[m] = Plain * row.level

MRows == [place : {"none", "inventory", "rack"}, linked : BOOLEAN, level : Nat, rate : Nat]

CarriedIsFair ==
    carried # NotCarried =>
        /\ carried.of \in Owned
        /\ RowIsFair(carried.of, carried.row)
        /\ carried.row.linked = mrow[carried.of].linked
        /\ carried.row.level = mrow[carried.of].level

ScaleInv ==
    /\ CatalogIsScaled
    /\ mrow \in [Machines -> MRows]
    /\ fair \in [Machines -> Nat]
    /\ \A m \in Owned : RowIsFair(m, mrow[m])
    /\ CarriedIsFair
    /\ \A m \in script.rows \ {None} : m \in Owned /\ mrow[m].linked

LEMMA NoMachineIsRow == NoMachine \in MRows /\ NoMachine.place = "none" /\ ~NoMachine.linked
  BY DEF NoMachine, MRow, MRows

LEMMA ScaleBegins == ScaleInit => ScaleInv
<1> SUFFICES ASSUME ScaleInit PROVE ScaleInv
  OBVIOUS
<1>1. catalog \in Nat /\ 0 < catalog /\ catalog < LegacyMax /\ catalog < Billion
  BY Bounds DEF ScaleInit
<1>2. Scaled(catalog, catalog) /\ Plain = catalog
  BY <1>1, Bounds DEF Scaled, Plain, HashCounted
<1>3. Owned = {} /\ carried = NotCarried /\ script.rows = {}
  BY DEF ScaleInit, Owned, NoScript, Script
<1>4. mrow \in [Machines -> MRows] /\ fair \in [Machines -> Nat]
  BY NoMachineIsRow DEF ScaleInit
<1> QED
  BY <1>1, <1>2, <1>3, <1>4 DEF ScaleInv, CatalogIsScaled, CarriedIsFair

-----------------------------------------------------------------------------
(* The steps, by what they do to the rows.                                  *)

\* A step of a script over the catalogue or a table.
LEMMA RescalingIsSound ==
    ASSUME ScaleInv, mrow' \in [Machines -> MRows],
           CatalogIsScaled', Plain' = Plain,
           UNCHANGED <<carried, fair>>,
           script'.rows \subseteq script.rows,
           \A m \in Machines \ Owned : mrow'[m] = mrow[m],
           \A m \in Owned :
              /\ mrow'[m].place = mrow[m].place /\ mrow'[m].linked = mrow[m].linked
              /\ mrow'[m].level = mrow[m].level
              /\ mrow'[m].rate \in {mrow[m].rate, Multiplied(mrow[m].rate), HashCounted(mrow[m].rate)}
    PROVE  ScaleInv'
<1>1. \A m \in Owned : RowIsFair(m, mrow[m])'
  BY ScriptsKeepScaled DEF ScaleInv, RowIsFair
<1>2. \A m \in Machines : mrow'[m] # NoMachine <=> mrow[m] # NoMachine
  BY <1>1, NoMachineIsRow DEF RowIsFair, Owned
<1>3. Owned' = Owned
  BY <1>2 DEF Owned
<1>4. CarriedIsFair'
  <2> SUFFICES ASSUME carried # NotCarried PROVE CarriedIsFair'
    BY DEF CarriedIsFair
  <2>1. /\ carried.of \in Owned /\ RowIsFair(carried.of, carried.row)
        /\ carried.row.linked = mrow[carried.of].linked
        /\ carried.row.level = mrow[carried.of].level
    BY DEF ScaleInv, CarriedIsFair
  <2>2. RowIsFair(carried.of, carried.row)'
    BY <2>1 DEF RowIsFair
  <2> QED
    BY <1>3, <2>1, <2>2 DEF CarriedIsFair
<1>5. \A m \in script'.rows \ {None} : m \in Owned /\ mrow'[m].linked
  BY DEF ScaleInv
<1> QED
  BY <1>1, <1>3, <1>4, <1>5 DEF ScaleInv

\* A script's steps that only say where it is.
LEMMA ScriptMoves ==
    ASSUME ScaleInv, UNCHANGED <<catalog, mrow, carried, fair>>,
           \A m \in script'.rows \ {None} : m \in Owned /\ mrow[m].linked
    PROVE  ScaleInv'
  BY DEF ScaleInv, CatalogIsScaled, Plain, HashCounted, Scaled, Owned, RowIsFair, CarriedIsFair

LEMMA TablesAreRescaled ==
    ASSUME ScaleInv, MultipliesTable \/ ShrinksTable
    PROVE  ScaleInv'
<1>1. UNCHANGED <<carried, fair>> /\ script'.rows = {}
  <2>1. script' = NoScript \/ \E pc : script' = Script(pc, {})
    BY DEF MultipliesTable, ShrinksTable
  <2>2. script'.rows = {}
    BY <2>1 DEF Script, NoScript
  <2> QED
    BY <2>2 DEF MultipliesTable, ShrinksTable
<1>2. \/ catalog' = catalog
      \/ catalog' = Multiplied(catalog)
      \/ catalog' = HashCounted(catalog)
  BY DEF MultipliesTable, ShrinksTable
<1>3. CatalogIsScaled' /\ Plain' = Plain
  <2>1. Scaled(catalog', Plain) /\ Plain < LegacyMax
    BY <1>2, ScriptsKeepScaled DEF ScaleInv, CatalogIsScaled
  <2>2. Plain' = Plain
    BY <2>1, ScaledCounts DEF Plain, HashCounted
  <2> QED
    BY <2>1, <2>2 DEF CatalogIsScaled, Scaled
<1>4. \/ mrow' = mrow
      \/ \E place \in {"inventory", "rack"} : mrow' = MultipliedRows(place)
      \/ \E place \in {"inventory", "rack"} : mrow' = ShrunkRows(place)
  BY DEF MultipliesTable, ShrinksTable
<1>5. ASSUME NEW place \in {"inventory", "rack"},
             \/ mrow' = MultipliedRows(place)
             \/ mrow' = ShrunkRows(place)
      PROVE  ScaleInv'
  <2>1. ASSUME NEW m \in Machines \ Owned PROVE mrow'[m] = mrow[m]
    BY <1>5, NoMachineIsRow DEF MultipliedRows, ShrunkRows, Owned
  <2>2. ASSUME NEW m \in Owned
        PROVE  /\ mrow'[m].place = mrow[m].place /\ mrow'[m].linked = mrow[m].linked
               /\ mrow'[m].level = mrow[m].level
               /\ mrow'[m].rate \in {mrow[m].rate, Multiplied(mrow[m].rate), HashCounted(mrow[m].rate)}
               /\ mrow'[m] \in MRows
    <3>1. mrow[m] \in MRows /\ m \in Machines /\ Scaled(mrow[m].rate, fair[m])
      BY DEF ScaleInv, Owned, RowIsFair
    <3>2. Multiplied(mrow[m].rate) \in Nat /\ HashCounted(mrow[m].rate) \in Nat
      BY <3>1, ScriptsKeepScaled, ScaledCounts
    <3> QED
      BY <1>5, <3>1, <3>2 DEF MultipliedRows, ShrunkRows, MRows
  <2>3. mrow' \in [Machines -> MRows]
    <3>1. \A m \in Machines : mrow'[m] \in MRows
      BY <2>1, <2>2, NoMachineIsRow DEF Owned
    <3> QED
      BY <1>5, <3>1 DEF MultipliedRows, ShrunkRows
  <2> QED
    BY <1>1, <1>3, <2>1, <2>2, <2>3, RescalingIsSound
<1>6. CASE mrow' = mrow
  <2>1. mrow' \in [Machines -> MRows]
    BY <1>6 DEF ScaleInv
  <2> QED
    BY <1>1, <1>3, <1>6, <2>1, RescalingIsSound
<1> QED
  BY <1>4, <1>5, <1>6

LEMMA SyncIsSound ==
    ASSUME ScaleInv, SyncUpdates
    PROVE  ScaleInv'
<1>1. PICK m \in script.rows \ {None} :
        /\ mrow' = [mrow EXCEPT ![m].rate = catalog * mrow[m].level]
        /\ fair' = [fair EXCEPT ![m] = HashCounted(catalog) * mrow[m].level]
        /\ script' = [script EXCEPT !.rows = @ \ {m}]
        /\ UNCHANGED <<catalog, carried, scripts>>
  BY DEF SyncUpdates
<1>2. m \in Owned /\ m \in Machines /\ mrow[m].linked /\ RowIsFair(m, mrow[m]) /\ mrow[m] \in MRows
  BY DEF ScaleInv, Owned
<1>3. fair[m] = Plain * mrow[m].level
  BY <1>2 DEF RowIsFair
<1>4. fair' = fair
  BY <1>1, <1>2, <1>3 DEF ScaleInv, Plain
<1>5. Scaled(catalog * mrow[m].level, fair[m])
  BY <1>2, <1>3, LevelsKeepScaled DEF ScaleInv, CatalogIsScaled, RowIsFair
<1> DEFINE r == [mrow[m] EXCEPT !.rate = catalog * mrow[m].level]
<1>6. /\ \A n \in Machines : mrow'[n] = IF n = m THEN r ELSE mrow[n]
      /\ mrow' = [mrow EXCEPT ![m] = r]
  BY <1>1, <1>2 DEF ScaleInv
<1>7. /\ r.place = mrow[m].place /\ r.linked = mrow[m].linked /\ r.level = mrow[m].level
      /\ r.rate = catalog * mrow[m].level /\ r \in MRows
  BY <1>2, <1>5, ScaledCounts DEF MRows
<1> HIDE DEF r
<1>8. CatalogIsScaled' /\ Plain' = Plain
  BY <1>1 DEF ScaleInv, CatalogIsScaled, Plain, HashCounted, Scaled
<1>9. mrow' \in [Machines -> MRows]
  BY <1>6, <1>7 DEF ScaleInv
<1>10. \A n \in Owned : RowIsFair(n, mrow[n])'
  <2> SUFFICES ASSUME NEW n \in Owned PROVE RowIsFair(n, mrow[n])'
    OBVIOUS
  <2>1. n \in Machines /\ RowIsFair(n, mrow[n])
    BY DEF ScaleInv, Owned
  <2>2. CASE n = m
    <3>1. mrow'[m] = r /\ fair'[m] = fair[m]
      BY <1>2, <1>4, <1>6
    <3>2. Scaled(r.rate, fair[m])
      BY <1>5, <1>7
    <3> QED
      BY <1>2, <1>7, <1>8, <2>2, <3>1, <3>2 DEF RowIsFair, Scaled
  <2>3. CASE n # m
    BY <1>4, <1>6, <1>8, <2>1, <2>3 DEF RowIsFair, Scaled
  <2> QED
    BY <2>2, <2>3
<1>11. Owned' = Owned
  BY <1>2, <1>6, <1>7, NoMachineIsRow DEF Owned, RowIsFair
<1>12. CarriedIsFair'
  <2> SUFFICES ASSUME carried # NotCarried PROVE CarriedIsFair'
    BY <1>1 DEF CarriedIsFair
  <2>1. /\ carried.of \in Owned /\ RowIsFair(carried.of, carried.row)
        /\ carried.row.linked = mrow[carried.of].linked
        /\ carried.row.level = mrow[carried.of].level
        /\ carried.of \in Machines
    BY DEF ScaleInv, CarriedIsFair, Owned
  <2>2. RowIsFair(carried.of, carried.row)'
    BY <1>1, <1>4, <1>8, <2>1 DEF RowIsFair, Scaled
  <2>3. /\ mrow'[carried.of].linked = mrow[carried.of].linked
        /\ mrow'[carried.of].level = mrow[carried.of].level
    BY <1>6, <1>7, <2>1
  <2> QED
    BY <1>1, <1>11, <2>1, <2>2, <2>3 DEF CarriedIsFair
<1>13. \A n \in script'.rows \ {None} : n \in Owned /\ mrow'[n].linked
  <2>1. script'.rows \subseteq script.rows
    BY <1>1
  <2> QED
    BY <1>6, <1>7, <2>1 DEF ScaleInv, Owned
<1> QED
  BY <1>4, <1>8, <1>9, <1>10, <1>11, <1>12, <1>13 DEF ScaleInv

\* A machine that is given, or written by a move, with a row that is fair.
LEMMA RowIsWritten ==
    ASSUME ScaleInv, NEW m \in Machines, NEW row \in MRows, NEW f \in Nat,
           mrow' = [mrow EXCEPT ![m] = row],
           fair' = [fair EXCEPT ![m] = f],
           catalog' = catalog,
           m \in Owned => f = fair[m] /\ row.linked = mrow[m].linked /\ row.level = mrow[m].level,
           Scaled(row.rate, f), row.place # "none", row.level \in 1 .. MaxLevel,
           row.linked => f = Plain * row.level,
           carried' = carried \/ carried' = NotCarried,
           script'.rows \subseteq script.rows \cup {None}
    PROVE  ScaleInv'
<1>1. /\ \A n \in Machines : mrow'[n] = IF n = m THEN row ELSE mrow[n]
      /\ \A n \in Machines : fair'[n] = IF n = m THEN f ELSE fair[n]
  BY DEF ScaleInv
<1>2. CatalogIsScaled' /\ Plain' = Plain
  BY DEF ScaleInv, CatalogIsScaled, Plain, HashCounted, Scaled
<1>3. mrow' \in [Machines -> MRows] /\ fair' \in [Machines -> Nat]
  BY DEF ScaleInv
<1>4. Owned' = Owned \cup {m}
  BY <1>1, NoMachineIsRow DEF Owned
<1>5. row.place \in {"inventory", "rack"} /\ row.linked \in BOOLEAN
  BY DEF MRows
<1>6. \A n \in Owned' : RowIsFair(n, mrow[n])'
  <2> SUFFICES ASSUME NEW n \in Owned \cup {m} PROVE RowIsFair(n, mrow[n])'
    BY <1>4
  <2>1. CASE n = m
    BY <1>1, <1>2, <1>5, <2>1 DEF RowIsFair, Scaled
  <2>2. CASE n # m
    BY <1>1, <1>2, <2>2 DEF ScaleInv, RowIsFair, Scaled, Owned
  <2> QED
    BY <2>1, <2>2
<1>7. CarriedIsFair'
  <2> SUFFICES ASSUME carried # NotCarried, carried' = carried PROVE CarriedIsFair'
    BY DEF CarriedIsFair
  <2>1. /\ carried.of \in Owned /\ RowIsFair(carried.of, carried.row)
        /\ carried.row.linked = mrow[carried.of].linked
        /\ carried.row.level = mrow[carried.of].level
        /\ carried.of \in Machines
    BY DEF ScaleInv, CarriedIsFair, Owned
  <2>2. fair'[carried.of] = fair[carried.of]
    BY <1>1, <2>1
  <2>3. RowIsFair(carried.of, carried.row)'
    BY <1>2, <2>1, <2>2 DEF RowIsFair, Scaled
  <2>4. /\ mrow'[carried.of].linked = mrow[carried.of].linked
        /\ mrow'[carried.of].level = mrow[carried.of].level
    BY <1>1, <2>1
  <2> QED
    BY <1>4, <2>1, <2>3, <2>4 DEF CarriedIsFair
<1>8. \A n \in script'.rows \ {None} : n \in Owned' /\ mrow'[n].linked
  <2> SUFFICES ASSUME NEW n \in script.rows \ {None} PROVE n \in Owned' /\ mrow'[n].linked
    OBVIOUS
  <2>1. n \in Owned /\ mrow[n].linked /\ n \in Machines
    BY DEF ScaleInv, Owned
  <2> QED
    BY <1>1, <1>4, <2>1
<1> QED
  BY <1>2, <1>3, <1>6, <1>7, <1>8 DEF ScaleInv

LEMMA MachinesAreGiven ==
    ASSUME ScaleInv, NEW m \in Machines, GetsMachine(m) \/ GetsLoose(m)
    PROVE  ScaleInv'
<1>1. CASE GetsMachine(m)
  <2>1. PICK level \in 1 .. MaxLevel :
          /\ mrow' = [mrow EXCEPT ![m] = MRow("inventory", TRUE, level, catalog * level)]
          /\ fair' = [fair EXCEPT ![m] = Plain * level]
    BY <1>1 DEF GetsMachine, Plain
  <2>2. m \notin Owned /\ UNCHANGED <<catalog, script, carried>>
    BY <1>1 DEF GetsMachine
  <2>3. Scaled(catalog * level, Plain * level)
    BY LevelsKeepScaled DEF ScaleInv, CatalogIsScaled
  <2> DEFINE row == MRow("inventory", TRUE, level, catalog * level)
  <2>4. row \in MRows /\ row.place = "inventory" /\ row.linked /\ row.level = level
        /\ row.rate = catalog * level /\ Plain * level \in Nat
    BY <2>3, ScaledCounts, Bounds DEF MRow, MRows, Scaled
  <2>5. mrow' = [mrow EXCEPT ![m] = row]
    BY <2>1
  <2> HIDE DEF row
  <2>6. script'.rows \subseteq script.rows \cup {None} /\ (carried' = carried \/ carried' = NotCarried)
    BY <2>2
  <2>7. /\ Scaled(row.rate, Plain * level) /\ row.place # "none" /\ row.level \in 1 .. MaxLevel
        /\ (row.linked => Plain * level = Plain * row.level)
    BY <2>3, <2>4
  <2> QED
    BY <2>1, <2>2, <2>4, <2>5, <2>6, <2>7, RowIsWritten
<1>2. CASE GetsLoose(m)
  <2>1. PICK rate \in LooseRates :
          /\ mrow' = [mrow EXCEPT ![m] = MRow("rack", FALSE, 1, rate)]
          /\ fair' = [fair EXCEPT ![m] = rate]
    BY <1>2 DEF GetsLoose
  <2>2. m \notin Owned /\ UNCHANGED <<catalog, script, carried>>
    BY <1>2 DEF GetsLoose
  <2>3. Scaled(rate, rate)
    BY Bounds DEF Scaled
  <2> DEFINE row == MRow("rack", FALSE, 1, rate)
  <2>4. row \in MRows /\ row.place = "rack" /\ ~row.linked /\ row.level = 1
        /\ row.rate = rate /\ rate \in Nat /\ 1 \in 1 .. MaxLevel
    BY <2>3, ScaledCounts, Bounds DEF MRow, MRows
  <2>5. mrow' = [mrow EXCEPT ![m] = row]
    BY <2>1
  <2> HIDE DEF row
  <2>6. script'.rows \subseteq script.rows \cup {None} /\ (carried' = carried \/ carried' = NotCarried)
    BY <2>2
  <2>7. /\ Scaled(row.rate, rate) /\ row.place # "none" /\ row.level \in 1 .. MaxLevel
        /\ (row.linked => rate = Plain * row.level)
    BY <2>3, <2>4
  <2> QED
    BY <2>1, <2>2, <2>4, <2>5, <2>6, <2>7, RowIsWritten
<1> QED
  BY <1>1, <1>2

LEMMA MovesAreSound ==
    ASSUME ScaleInv, (\E m \in Machines : MoveReads(m)) \/ MoveWrites
    PROVE  ScaleInv'
<1>1. ASSUME NEW m \in Machines, MoveReads(m) PROVE ScaleInv'
  <2>1. m \in Owned /\ carried' = [of |-> m, row |-> mrow[m]]
        /\ UNCHANGED <<catalog, mrow, script, fair>>
    BY <1>1 DEF MoveReads
  <2>2. RowIsFair(m, mrow[m])
    BY <2>1 DEF ScaleInv
  <2>3. CarriedIsFair'
    BY <2>1, <2>2 DEF CarriedIsFair, Owned, RowIsFair, Scaled, Plain, HashCounted
  <2> QED
    BY <2>1, <2>3 DEF ScaleInv, CatalogIsScaled, Plain, HashCounted, Scaled, Owned, RowIsFair
<1>2. CASE MoveWrites
  <2> DEFINE m == carried.of
             old == carried.row
             row == MRow(IF old.place = "rack" THEN "inventory" ELSE "rack",
                         old.linked, old.level, old.rate)
  <2>1. /\ m \in Owned /\ m \in Machines /\ RowIsFair(m, old)
        /\ old.linked = mrow[m].linked /\ old.level = mrow[m].level
    BY <1>2 DEF MoveWrites, ScaleInv, CarriedIsFair, Owned
  <2>2. /\ mrow' = [mrow EXCEPT ![m] = row] /\ catalog' = catalog /\ fair' = fair
        /\ carried' = NotCarried
    BY <1>2 DEF MoveWrites
  <2>3. script'.rows \subseteq script.rows \cup {None}
    <3>1. CASE m \in script.rows
      BY <1>2, <3>1 DEF MoveWrites, Script
    <3>2. CASE m \notin script.rows
      BY <1>2, <3>2 DEF MoveWrites
    <3> QED
      BY <3>1, <3>2
  <2>4. row \in MRows /\ row.place \in {"inventory", "rack"} /\ row.linked = old.linked
        /\ row.level = old.level /\ row.rate = old.rate
    BY <2>1, ScaledCounts, Bounds DEF MRow, MRows, RowIsFair
  <2>5. fair[m] \in Nat /\ fair' = [fair EXCEPT ![m] = fair[m]]
    BY <2>1, <2>2 DEF ScaleInv
  <2>6. Scaled(row.rate, fair[m]) /\ row.level \in 1 .. MaxLevel
        /\ (row.linked => fair[m] = Plain * row.level)
    BY <2>1, <2>4 DEF RowIsFair
  <2> HIDE DEF row, m, old
  <2> QED
    BY <2>1, <2>2, <2>3, <2>4, <2>5, <2>6, RowIsWritten
<1> QED
  BY <1>1, <1>2

LEMMA ScriptsAreSound ==
    ASSUME ScaleInv,
           \/ \E pc \in {"multiply", "shrink"} : RunsScript(pc)
           \/ SyncFinds \/ SyncGoesOn \/ ScriptBreaksOff
    PROVE  ScaleInv'
<1>1. UNCHANGED <<catalog, mrow, carried, fair>>
  BY DEF RunsScript, SyncFinds, SyncGoesOn, ScriptBreaksOff
<1>2. \/ script'.rows = {}
      \/ \E place \in {"inventory", "rack"} :
            script'.rows = {m \in Owned : mrow[m].place = place /\ mrow[m].linked}
  <2>1. CASE SyncFinds
    <3>1. script' = LET place == IF script.pc = "sync rack" THEN "rack" ELSE "inventory"
                    IN  Script(IF place = "rack" THEN "sync rack rows" ELSE "sync inventory rows",
                               {m \in Owned : mrow[m].place = place /\ mrow[m].linked})
      BY <2>1 DEF SyncFinds
    <3> QED
      BY <3>1 DEF Script
  <2>2. CASE SyncGoesOn \/ ScriptBreaksOff \/ \E pc \in {"multiply", "shrink"} : RunsScript(pc)
    <3>1. script' = NoScript \/ \E pc : script' = Script(pc, {})
      BY <2>2 DEF RunsScript, SyncGoesOn, ScriptBreaksOff
    <3> QED
      BY <3>1 DEF Script, NoScript
  <2> QED
    BY <2>1, <2>2
<1> QED
  BY <1>1, <1>2, ScriptMoves

\* Every step of the players and of the scripts keeps the rates fair.
LEMMA ScaleStep == ScaleInv /\ [ScaleNext]_scaleVars => ScaleInv'
<1> SUFFICES ASSUME ScaleInv, [ScaleNext]_scaleVars PROVE ScaleInv'
  OBVIOUS
<1>1. CASE \E m \in Machines : GetsMachine(m) \/ GetsLoose(m)
  BY <1>1, MachinesAreGiven
<1>2. CASE (\E m \in Machines : MoveReads(m)) \/ MoveWrites
  BY <1>2, MovesAreSound
<1>3. CASE \/ \E pc \in {"multiply", "shrink"} : RunsScript(pc)
           \/ SyncFinds \/ SyncGoesOn \/ ScriptBreaksOff
  BY <1>3, ScriptsAreSound
<1>4. CASE MultipliesTable \/ ShrinksTable
  BY <1>4, TablesAreRescaled
<1>5. CASE SyncUpdates
  BY <1>5, SyncIsSound
<1>6. CASE UNCHANGED scaleVars
  <2>1. UNCHANGED <<catalog, mrow, carried, fair, script>>
    BY <1>6 DEF scaleVars
  <2>2. \A m \in script'.rows \ {None} : m \in Owned /\ mrow[m].linked
    BY <2>1 DEF ScaleInv
  <2> QED
    BY <2>1, <2>2, ScriptMoves
<1> QED
  BY <1>1, <1>2, <1>3, <1>4, <1>5, <1>6 DEF ScaleNext

ScriptsCounted == scripts \in 0 .. MaxScripts

LEMMA ScriptsAreCounted == ScaleSpec => []ScriptsCounted
<1>1. ScaleInit => ScriptsCounted
  BY Bounds DEF ScaleInit, ScriptsCounted
<1>2. ASSUME ScriptsCounted, [ScaleNext]_scaleVars PROVE ScriptsCounted'
  <2>1. CASE \E pc \in {"multiply", "shrink"} : RunsScript(pc)
    <3>1. scripts < MaxScripts /\ scripts' = scripts + 1
      BY <2>1 DEF RunsScript
    <3> QED
      BY <1>2, <3>1, Bounds DEF ScriptsCounted
  <2>2. CASE UNCHANGED scripts
    BY <1>2, <2>2 DEF ScriptsCounted
  <2>3. UNCHANGED scripts \/ \E pc \in {"multiply", "shrink"} : RunsScript(pc)
    BY <1>2 DEF ScaleNext, GetsMachine, GetsLoose, MoveReads, MoveWrites, MultipliesTable, SyncFinds, SyncUpdates,
       SyncGoesOn, ShrinksTable, ScriptBreaksOff, scaleVars
  <2> QED
    BY <2>1, <2>2, <2>3
<1> QED
  BY <1>1, <1>2, PTL DEF ScaleSpec

\* Whatever scripts have run over a machine's row, broken off and run again
\* while it was moved, it counts what it was given, and no stored rate gets the
\* factor of 10^9 a second time.
THEOREM MachinesCountAsFair == ScaleSpec => [](ScaleTypeOK /\ CountedAsFair /\ NoFactorTwice)
<1>1. ScaleInv => CountedAsFair
  BY ScaledCounts DEF ScaleInv, RowIsFair, CountedAsFair
<1>2. ScaleInv => NoFactorTwice
  BY ScaledIsBelow DEF ScaleInv, CatalogIsScaled, RowIsFair, NoFactorTwice
<1>3. ASSUME ScaleInv, ScriptsCounted PROVE ScaleTypeOK
  <2>1. catalog \in Nat
    BY <1>3, ScaledCounts DEF ScaleInv, CatalogIsScaled
  <2>2. \A m \in Owned : mrow[m].rate \in Nat /\ mrow[m].level \in 1 .. MaxLevel
    BY <1>3, ScaledCounts DEF ScaleInv, RowIsFair
  <2>3. \A m \in Machines : mrow[m].place \in {"none", "inventory", "rack"}
    BY <1>3 DEF ScaleInv, MRows
  <2>4. script.rows \subseteq {None} \cup Machines
    BY <1>3 DEF ScaleInv, Owned
  <2>5. carried.of \in {None} \cup Machines
    BY <1>3 DEF ScaleInv, CarriedIsFair, NotCarried, Owned
  <2>6. fair \in [Machines -> Nat]
    BY <1>3 DEF ScaleInv
  <2> QED
    BY <1>3, <2>1, <2>2, <2>3, <2>4, <2>5, <2>6 DEF ScaleTypeOK, ScriptsCounted
<1>4. ScaleSpec => []ScaleInv
  BY ScaleBegins, ScaleStep, PTL DEF ScaleSpec
<1> QED
  BY <1>1, <1>2, <1>3, <1>4, ScriptsAreCounted, PTL

-----------------------------------------------------------------------------
(* The rate limiter.                                                        *)

Since(times, s) == {x \in times : s <= x}
Between(times, s, t) == {x \in times : s <= x /\ x < t}

Entries == [count : Nat, resetAt : Nat, lastSeenAt : Nat]

\* What is so of one key k at time n: e is its counter, asked and let through were
\* the times A and P, and the counters of the keys `gone` have been evicted.
\* The window of the counter begins at e.resetAt - Window.
Opened(n, e, A) ==
    /\ e.count > 0 /\ e.lastSeenAt <= n
    /\ Window < e.resetAt /\ e.resetAt - Window <= e.lastSeenAt /\ e.lastSeenAt <= e.resetAt
    /\ e.count <= Cardinality(Since(A, e.resetAt - Window))
Keeps(n, e, A, P) ==
    /\ e # NoEntry =>
          /\ \A x \in A : x <= e.lastSeenAt
          /\ Cardinality(Since(P, e.resetAt - Window)) <= e.count
          /\ Cardinality(Since(P, e.resetAt - Window)) <= MaxHits
          /\ Cardinality(Between(P, e.resetAt - 2 * Window, e.resetAt - Window)) <= MaxHits
    /\ e = NoEntry => \A x \in A : n - x > 2 * Window
Limits(n, P) == \A t \in 1 .. n : Cardinality(Within(P, t)) <= 2 * MaxHits
Serves(A, P) == \A t \in A : Cardinality(Within(A, t)) <= MaxHits => t \in P
Sound(n, k, e, A, P, gone) ==
    /\ n \in Nat /\ n > 0 /\ e \in Entries /\ P \subseteq A /\ A \subseteq 1 .. n
    /\ e # NoEntry => Opened(n, e, A)
    /\ k \notin gone => Keeps(n, e, A, P) /\ Limits(n, P)
    /\ Serves(A, P)

LEMMA RateConstants == Window \in Nat /\ Window > 0 /\ MaxHits \in Nat /\ MaxHits > 0 /\ LastTime \in Nat /\ LastTime > 0
  BY RateAssumption

LEMMA NoEntryIs == NoEntry \in Entries /\ NoEntry.count = 0 /\ NoEntry.lastSeenAt = 0 /\ NoEntry.resetAt = 0
  BY DEF NoEntry, Entry, Entries

LEMMA TimesAreFinite == ASSUME NEW n \in Nat, NEW S \in SUBSET (1 .. n)
                        PROVE  IsFiniteSet(S) /\ Cardinality(S) \in Nat
<1>1. IsFiniteSet(1 .. n)
  BY FS_Interval
<1> QED
  BY <1>1, FS_Subset, FS_CardinalityType

LEMMA NoMoreThan == ASSUME NEW S, NEW T, IsFiniteSet(T), S \subseteq T
                    PROVE  IsFiniteSet(S) /\ Cardinality(S) \in Nat /\ Cardinality(T) \in Nat
                           /\ Cardinality(S) <= Cardinality(T)
  BY FS_Subset, FS_CardinalityType

LEMMA NoneAndOne == Cardinality({}) = 0 /\ IsFiniteSet({}) /\ \A x : IsFiniteSet({x}) /\ Cardinality({x}) = 1
  BY FS_EmptySet, FS_Singleton

LEMMA CoveredByTwo ==
    ASSUME NEW A, NEW B, NEW S, IsFiniteSet(A), IsFiniteSet(B), S \subseteq A \cup B,
           NEW m \in Nat, Cardinality(A) <= m, Cardinality(B) <= m
    PROVE  Cardinality(S) <= 2 * m
<1>1. /\ IsFiniteSet(A \cup B) /\ Cardinality(A \cup B) \in Nat /\ Cardinality(A \cap B) \in Nat
      /\ Cardinality(A) \in Nat /\ Cardinality(B) \in Nat
      /\ Cardinality(A \cup B) = Cardinality(A) + Cardinality(B) - Cardinality(A \cap B)
  <2>1. IsFiniteSet(A \cup B) /\ Cardinality(A \cup B) = Cardinality(A) + Cardinality(B) - Cardinality(A \cap B)
    BY FS_Union
  <2>2. IsFiniteSet(A \cap B)
    BY FS_Subset
  <2> QED
    BY <2>1, <2>2, FS_CardinalityType
<1>2. Cardinality(S) \in Nat /\ Cardinality(S) <= Cardinality(A \cup B)
  BY <1>1, NoMoreThan
<1> QED
  BY <1>1, <1>2

\* A cleanup for staleness forgets only what is over.
LEMMA StaleEntries ==
    ASSUME NEW n, NEW k, NEW e, NEW A, NEW P, NEW gone, Sound(n, k, e, A, P, gone), e # NoEntry,
           n - e.lastSeenAt > 2 * Window
    PROVE  n > e.resetAt
  BY RateConstants DEF Sound, Opened, Entries

\* The limit in a window that ends in the counter's own, or after it.
LEMMA LateWindows ==
    ASSUME NEW n \in Nat, NEW e \in Entries, NEW A, NEW P, P \subseteq 1 .. n, Opened(n, e, A),
           e # NoEntry, Keeps(n, e, A, P), NEW t \in Int, t >= e.resetAt - Window
    PROVE  Cardinality(Within(P, t)) <= 2 * MaxHits
<1> DEFINE S == Since(P, e.resetAt - Window)
           B == Between(P, e.resetAt - 2 * Window, e.resetAt - Window)
<1>1. S \subseteq 1 .. n /\ B \subseteq 1 .. n
  BY DEF Since, Between
<1>2. IsFiniteSet(S) /\ IsFiniteSet(B)
  BY <1>1, TimesAreFinite
<1>3. ASSUME NEW x \in Within(P, t) PROVE x \in S \cup B
  <2>1. x \in P /\ x \in Nat /\ e.resetAt \in Nat /\ t - Window <= x
    BY DEF Within, Entries
  <2> QED
    BY <2>1, RateConstants DEF Since, Between
<1>4. Cardinality(S) <= MaxHits /\ Cardinality(B) <= MaxHits
  BY DEF Keeps
<1> HIDE DEF S, B
<1> QED
  BY <1>2, <1>3, <1>4, CoveredByTwo, RateConstants

LEMMA TimeSound ==
    ASSUME NEW n, NEW k, NEW e, NEW A, NEW P, NEW gone, Sound(n, k, e, A, P, gone)
    PROVE  Sound(n + 1, k, e, A, P, gone)
<1>1. n + 1 \in Nat /\ n + 1 > 0 /\ A \subseteq 1 .. n + 1 /\ P \subseteq 1 .. n + 1
  BY DEF Sound
<1>2. e # NoEntry => Opened(n + 1, e, A)
  BY DEF Sound, Opened, Entries
<1>3. k \notin gone => Keeps(n + 1, e, A, P)
  BY RateConstants DEF Sound, Keeps
<1>4. ASSUME k \notin gone PROVE Limits(n + 1, P)
  <2> SUFFICES ASSUME NEW t \in 1 .. n + 1, t = n + 1 PROVE Cardinality(Within(P, t)) <= 2 * MaxHits
    BY <1>4 DEF Sound, Limits
  <2>1. CASE e # NoEntry
    <3>1. t >= e.resetAt - Window
      BY <2>1, RateConstants DEF Sound, Opened, Entries
    <3> QED
      <4>1. n + 1 \in Nat /\ e \in Entries /\ P \subseteq 1 .. n + 1 /\ t \in Int
        BY <1>1 DEF Sound
      <4> QED
        BY <1>2, <1>3, <1>4, <2>1, <3>1, <4>1, LateWindows
  <2>2. CASE e = NoEntry
    <3>1. ASSUME NEW x \in Within(P, t) PROVE FALSE
      <4>1. x \in A /\ x \in Nat /\ n \in Nat /\ t - Window <= x
        BY <1>1 DEF Sound, Within
      <4>2. n - x > 2 * Window
        BY <1>4, <2>2, <4>1 DEF Sound, Keeps
      <4> QED
        BY <4>1, <4>2, RateConstants
    <3>2. Within(P, t) = {}
      BY <3>1
    <3> QED
      BY <3>2, NoneAndOne, RateConstants
  <2> QED
    BY <2>1, <2>2
<1> QED
  BY <1>1, <1>2, <1>3, <1>4 DEF Sound

LEMMA DropSound ==
    ASSUME NEW n, NEW k, NEW e, NEW A, NEW P, NEW gone, NEW more, Sound(n, k, e, A, P, gone),
           gone \subseteq more, (k \notin more /\ e # NoEntry) => n - e.lastSeenAt > 2 * Window
    PROVE  Sound(n, k, NoEntry, A, P, more)
<1>1. ASSUME k \notin more PROVE \A x \in A : n - x > 2 * Window
  BY <1>1, RateConstants DEF Sound, Keeps, Entries
<1> QED
  BY <1>1, NoEntryIs DEF Sound, Keeps

\* A request is counted.
LEMMA CountSound ==
    ASSUME NEW n, NEW k, NEW e, NEW A, NEW P, NEW gone, Sound(n, k, e, A, P, gone), n \notin A,
           NEW f, f = IF e = NoEntry \/ n > e.resetAt THEN Entry(1, n + Window, n)
                      ELSE Entry(e.count + 1, e.resetAt, n),
           NEW Q, Q = P \cup (IF f.count > MaxHits THEN {} ELSE {n})
    PROVE  Sound(n, k, f, A \cup {n}, Q, gone) /\ f # NoEntry
<1> DEFINE B == A \cup {n}
           s == f.resetAt - Window
<1>1. /\ n \in Nat /\ n > 0 /\ e \in Entries /\ P \subseteq A /\ A \subseteq 1 .. n
      /\ B \subseteq 1 .. n /\ Q \subseteq B /\ Q \subseteq 1 .. n /\ P \subseteq 1 .. n
  BY DEF Sound
<1>2. f \in Entries /\ f # NoEntry /\ f.lastSeenAt = n /\ f.count > 0
  BY <1>1, NoEntryIs, RateConstants DEF Entry, Entries
<1>3. /\ Window < f.resetAt /\ s <= n /\ n <= f.resetAt /\ s \in Nat
  BY <1>1, NoEntryIs, RateConstants DEF Entry, Entries, Sound, Opened
<1> HIDE DEF B, s
<1>4. f.count <= Cardinality(Since(B, s))
  <2>1. Since(B, s) \subseteq 1 .. n /\ n \in Since(B, s)
    BY <1>1, <1>3 DEF Since, B
  <2>2. IsFiniteSet(Since(B, s)) /\ Cardinality(Since(B, s)) \in Nat
    BY <1>1, <2>1, TimesAreFinite
  <2>3. CASE e = NoEntry \/ n > e.resetAt
    <3>1. {n} \subseteq Since(B, s) /\ f.count = 1
      BY <1>1, <2>1, <2>3 DEF Entry
    <3> QED
      BY <2>2, <3>1, NoMoreThan, NoneAndOne
  <2>4. CASE ~(e = NoEntry \/ n > e.resetAt)
    <3>1. f.count = e.count + 1 /\ e.count \in Nat /\ s = e.resetAt - Window
      BY <1>1, <2>4 DEF Entry, Entries, s
    <3>2. Since(A, s) = Since(B, s) \ {n}
      BY <1>1 DEF Since, B
    <3>3. e.count <= Cardinality(Since(A, s))
      BY <2>4, <3>1 DEF Sound, Opened
    <3>4. Cardinality(Since(B, s) \ {n}) = Cardinality(Since(B, s)) - 1
      BY <2>1, <2>2, FS_RemoveElement
    <3>5. e.count <= Cardinality(Since(B, s)) - 1
      BY <3>2, <3>3, <3>4
    <3> QED
      BY <2>2, <3>1, <3>5
  <2> QED
    BY <2>3, <2>4
<1>5. Opened(n, f, B)
  BY <1>1, <1>2, <1>3, <1>4 DEF Opened, s
<1>6. ASSUME k \notin gone PROVE Keeps(n, f, B, Q)
  <2>1. \A x \in B : x <= f.lastSeenAt
    BY <1>1, <1>2
  <2>2. CASE e = NoEntry \/ n > e.resetAt
    <3>1. f.count = 1 /\ s = n /\ Q = P \cup {n} /\ f.resetAt = n + Window
      BY <1>1, <2>2, RateConstants DEF Entry, s
    <3>2. ASSUME NEW x \in Since(Q, s) PROVE x = n
      <4>1. x \in Q /\ s <= x
        BY DEF Since
      <4>2. x \in Nat /\ x <= n
        BY <1>1, <4>1
      <4> QED
        BY <1>1, <3>1, <4>1, <4>2
    <3>3. Cardinality(Since(Q, s)) \in Nat /\ Cardinality(Since(Q, s)) <= 1
      <4>1. Since(Q, s) \subseteq {n}
        BY <3>2
      <4> QED
        BY <4>1, NoMoreThan, NoneAndOne
    <3>4. Cardinality(Between(Q, s - Window, s)) <= MaxHits
      <4>1. CASE e = NoEntry
        <5>1. ASSUME NEW x \in Between(Q, s - Window, s) PROVE FALSE
          <6>1. x \in A /\ x \in Nat /\ n - Window <= x
            BY <1>1, <3>1, <5>1 DEF Between
          <6>2. n - x > 2 * Window
            BY <1>6, <4>1, <6>1 DEF Sound, Keeps
          <6> QED
            BY <1>1, <6>1, <6>2, RateConstants
        <5>2. Between(Q, s - Window, s) = {}
          BY <5>1
        <5>3. Cardinality(Between(Q, s - Window, s)) = 0
          BY <5>2, NoneAndOne
        <5> QED
          BY <5>3, RateConstants
      <4>2. CASE e # NoEntry
        <5>1. ASSUME NEW x \in Between(Q, s - Window, s) PROVE x \in Since(P, e.resetAt - Window)
          <6>1. x \in P /\ x \in Nat /\ n - Window <= x /\ e.resetAt \in Nat /\ n > e.resetAt
            BY <1>1, <2>2, <3>1, <4>2, <5>1 DEF Between, Entries
          <6> QED
            BY <1>1, <6>1, RateConstants DEF Since
        <5>2. IsFiniteSet(Since(P, e.resetAt - Window))
          <6>1. Since(P, e.resetAt - Window) \subseteq 1 .. n
            BY <1>1 DEF Since
          <6> QED
            BY <1>1, <6>1, TimesAreFinite
        <5>3. Cardinality(Since(P, e.resetAt - Window)) <= MaxHits
          BY <1>6, <4>2 DEF Sound, Keeps
        <5>4. Between(Q, s - Window, s) \subseteq Since(P, e.resetAt - Window)
          BY <5>1
        <5>5. /\ Cardinality(Between(Q, s - Window, s)) \in Nat
              /\ Cardinality(Since(P, e.resetAt - Window)) \in Nat
              /\ Cardinality(Between(Q, s - Window, s)) <= Cardinality(Since(P, e.resetAt - Window))
          BY <5>2, <5>4, NoMoreThan
        <5> QED
          BY <5>3, <5>5, RateConstants
      <4> QED
        BY <4>1, <4>2
    <3>6. f.resetAt - Window = s /\ f.resetAt - 2 * Window = s - Window
      BY <3>1, <1>1, RateConstants
    <3> QED
      BY <1>2, <2>1, <3>1, <3>3, <3>4, <3>6, RateConstants DEF Keeps
  <2>3. CASE ~(e = NoEntry \/ n > e.resetAt)
    <3>1. /\ f.count = e.count + 1 /\ e.count \in Nat /\ f.resetAt = e.resetAt /\ e.resetAt \in Nat
          /\ s = e.resetAt - Window
      BY <1>1, <2>3 DEF Entry, Entries, s
    <3>2. /\ Cardinality(Since(P, s)) <= e.count /\ Cardinality(Since(P, s)) <= MaxHits
          /\ Cardinality(Between(P, e.resetAt - 2 * Window, s)) <= MaxHits
      BY <1>6, <2>3, <3>1 DEF Sound, Keeps
    <3>3. Between(Q, e.resetAt - 2 * Window, s) = Between(P, e.resetAt - 2 * Window, s)
      BY <1>1, <1>3 DEF Between
    <3>4. IsFiniteSet(Since(P, s)) /\ Cardinality(Since(P, s)) \in Nat /\ n \notin Since(P, s)
      <4>1. Since(P, s) \subseteq 1 .. n /\ n \notin Since(P, s)
        BY <1>1 DEF Since
      <4> QED
        BY <1>1, <4>1, TimesAreFinite
    <3>5. Cardinality(Since(Q, s)) <= f.count /\ Cardinality(Since(Q, s)) <= MaxHits
      <4>1. CASE f.count > MaxHits
        <5>1. Q = P
          BY <4>1
        <5>2. Cardinality(Since(Q, s)) = Cardinality(Since(P, s))
          BY <5>1
        <5>3. Cardinality(Since(P, s)) <= e.count + 1
          BY <3>1, <3>2, <3>4
        <5> QED
          BY <3>1, <3>2, <5>2, <5>3
      <4>2. CASE ~(f.count > MaxHits)
        <5>1. Since(Q, s) = Since(P, s) \cup {n}
          BY <1>3, <4>2, <1>1 DEF Since
        <5>2. Cardinality(Since(P, s) \cup {n}) = Cardinality(Since(P, s)) + 1
          BY <3>4, FS_AddElement
        <5>3. Cardinality(Since(Q, s)) = Cardinality(Since(P, s)) + 1
          BY <5>1, <5>2
        <5> QED
          BY <3>1, <3>2, <3>4, <4>2, <5>3, RateConstants
      <4> QED
        BY <4>1, <4>2
    <3> QED
      BY <1>2, <2>1, <3>1, <3>2, <3>3, <3>5 DEF Keeps
  <2> QED
    BY <2>2, <2>3
<1>7. ASSUME k \notin gone PROVE Limits(n, Q)
  <2> SUFFICES ASSUME NEW t \in 1 .. n PROVE Cardinality(Within(Q, t)) <= 2 * MaxHits
    BY DEF Limits
  <2>1. CASE t >= s
    <3>1. t \in Int /\ t >= f.resetAt - Window
      BY <2>1 DEF s
    <3> QED
      BY <1>1, <1>2, <1>5, <1>6, <1>7, <3>1, LateWindows
  <2>2. CASE ~(t >= s)
    <3>1. Within(Q, t) = Within(P, t)
      BY <1>1, <1>3, <2>2 DEF Within
    <3> QED
      BY <1>7, <3>1 DEF Sound, Limits
  <2> QED
    BY <2>1, <2>2
<1>8. Serves(B, Q)
  <2> SUFFICES ASSUME NEW t \in B, Cardinality(Within(B, t)) <= MaxHits PROVE t \in Q
    BY DEF Serves
  <2>1. CASE t = n
    <3>1. Since(B, s) \subseteq Within(B, n) /\ Within(B, n) \subseteq 1 .. n
      <4>1. ASSUME NEW x \in Since(B, s) PROVE x \in Within(B, n)
        <5>1. x \in Nat /\ x <= n /\ s <= x /\ x \in B
          BY <1>1, <4>1 DEF Since
        <5>2. n - Window <= s
          BY <1>1, <1>2, <1>3, RateConstants DEF s, Entries
        <5> QED
          BY <1>1, <1>3, <5>1, <5>2, RateConstants DEF Within
      <4> QED
        BY <1>1, <4>1 DEF Within
    <3>2. IsFiniteSet(Within(B, n))
      BY <1>1, <3>1, TimesAreFinite
    <3>3. /\ Cardinality(Since(B, s)) \in Nat /\ Cardinality(Within(B, n)) \in Nat
          /\ Cardinality(Since(B, s)) <= Cardinality(Within(B, n))
      BY <3>1, <3>2, NoMoreThan
    <3>4. ~(f.count > MaxHits)
      BY <1>2, <1>4, <2>1, <3>3, RateConstants DEF Entries
    <3> QED
      BY <2>1, <3>4
  <2>2. CASE t # n
    <3>1. t \in A /\ Within(B, t) = Within(A, t)
      BY <1>1, <2>2 DEF Within, B
    <3> QED
      BY <3>1 DEF Sound, Serves
  <2> QED
    BY <2>1, <2>2
<1> QED
  BY <1>1, <1>2, <1>5, <1>6, <1>7, <1>8 DEF Sound, B

\* The counters, their log, and what is so of each key.
RateShapes ==
    /\ now \in 1 .. LastTime /\ lastCleanupAt \in 1 .. now /\ evicted \subseteq Keys
    /\ DOMAIN hits = Keys /\ DOMAIN asked = Keys /\ DOMAIN passed = Keys
    /\ passed = [k \in Keys |-> passed[k]] /\ asked = [k \in Keys |-> asked[k]]

RateInv == RateShapes /\ \A k \in Keys : Sound(now, k, hits[k], asked[k], passed[k], evicted)

LEMMA RateBegins == RateInit => RateInv
<1> SUFFICES ASSUME RateInit PROVE RateInv
  OBVIOUS
<1>1. RateShapes
  BY RateConstants DEF RateInit, RateShapes
<1>2. ASSUME NEW k \in Keys PROVE Sound(1, k, NoEntry, {}, {}, {})
  <2>1. \A t \in 1 .. 1 : Cardinality(Within({}, t)) = 0
    <3>1. \A t \in 1 .. 1 : Within({}, t) = {}
      BY DEF Within
    <3> QED
      BY <3>1, NoneAndOne
  <2> QED
    BY <2>1, NoEntryIs, RateConstants DEF Sound, Keeps, Limits, Serves
<1>3. \A k \in Keys : hits[k] = NoEntry /\ asked[k] = {} /\ passed[k] = {}
  BY DEF RateInit
<1> QED
  BY <1>1, <1>2, <1>3 DEF RateInv, RateInit

LEMMA LimiterStep == ASSUME RateInv, NEW k \in Keys, Limiter(k) PROVE RateInv'
<1>1. PICK keep \in IF CleanupIsDue THEN Cleanups ELSE {{l \in Keys : hits[l] # NoEntry}} :
        LET e == Counted(IF k \in keep THEN hits[k] ELSE NoEntry) IN
        /\ hits' = [l \in Keys |-> IF l = k THEN e ELSE IF l \in keep THEN hits[l] ELSE NoEntry]
        /\ evicted' = evicted \cup {l \in Fresh : l \notin keep}
        /\ passed' = [passed EXCEPT ![k] = @ \cup (IF e.count > MaxHits THEN {} ELSE {now})]
  BY DEF Limiter
<1> DEFINE kept(l) == IF l \in keep THEN hits[l] ELSE NoEntry
           e == Counted(kept(k))
<1>2. /\ hits' = [l \in Keys |-> IF l = k THEN e ELSE kept(l)]
      /\ evicted' = evicted \cup {l \in Fresh : l \notin keep}
      /\ passed' = [passed EXCEPT ![k] = @ \cup (IF e.count > MaxHits THEN {} ELSE {now})]
      /\ asked' = [asked EXCEPT ![k] = @ \cup {now}]
      /\ now \notin asked[k] /\ now' = now /\ lastCleanupAt' \in {now, lastCleanupAt}
  BY <1>1 DEF Limiter
<1>3. ASSUME NEW l \in Keys, l \notin keep, hits[l] # NoEntry, l \notin Fresh
      PROVE  now - hits[l].lastSeenAt > 2 * Window
  BY <1>3 DEF Fresh, Stale
<1>4. ASSUME NEW l \in Keys PROVE Sound(now, l, kept(l), asked[l], passed[l], evicted')
  <2>1. Sound(now, l, hits[l], asked[l], passed[l], evicted)
    BY DEF RateInv
  <2>2. CASE l \in keep
    BY <1>2, <2>1, <2>2 DEF Sound
  <2>3. CASE l \notin keep
    <3>1. (l \notin evicted' /\ hits[l] # NoEntry) => now - hits[l].lastSeenAt > 2 * Window
      BY <1>2, <1>3, <2>3
    <3>2. evicted \subseteq evicted'
      BY <1>2
    <3> HIDE DEF kept, e
    <3>3. Sound(now, l, NoEntry, asked[l], passed[l], evicted')
      BY <2>1, <3>1, <3>2, DropSound
    <3> QED
      BY <2>3, <3>3 DEF kept
  <2> QED
    BY <2>2, <2>3
<1> HIDE DEF kept
<1>5. Sound(now, k, e, asked[k] \cup {now}, passed[k] \cup (IF e.count > MaxHits THEN {} ELSE {now}), evicted')
  <2>1. e = IF kept(k) = NoEntry \/ now > kept(k).resetAt THEN Entry(1, now + Window, now)
            ELSE Entry(kept(k).count + 1, kept(k).resetAt, now)
    BY DEF e, Counted
  <2>2. Sound(now, k, kept(k), asked[k], passed[k], evicted')
    BY <1>4
  <2> HIDE DEF e
  <2> QED
    BY <1>2, <2>1, <2>2, CountSound
<1> HIDE DEF e
<1>6. \A l \in Keys : l # k => hits'[l] = kept(l) /\ asked'[l] = asked[l] /\ passed'[l] = passed[l]
  BY <1>2
<1>7. /\ hits'[k] = e /\ asked'[k] = asked[k] \cup {now}
      /\ passed'[k] = passed[k] \cup (IF e.count > MaxHits THEN {} ELSE {now})
  BY <1>2 DEF RateInv, RateShapes
<1>8. RateShapes'
  <2>1. now' \in 1 .. LastTime /\ lastCleanupAt' \in 1 .. now'
    BY <1>2 DEF RateInv, RateShapes
  <2>2. evicted' \subseteq Keys
    BY <1>2 DEF RateInv, RateShapes, Fresh
  <2> QED
    BY <1>2, <2>1, <2>2 DEF RateInv, RateShapes
<1>9. \A l \in Keys : Sound(now, l, hits'[l], asked'[l], passed'[l], evicted')
  BY <1>4, <1>5, <1>6, <1>7
<1> QED
  BY <1>2, <1>8, <1>9 DEF RateInv

LEMMA RateStep == ASSUME RateInv, [RateNext]_rateVars PROVE RateInv'
<1>1. CASE UNCHANGED rateVars
  BY <1>1 DEF rateVars, RateInv, RateShapes
<1>2. CASE TimePasses
  <2>1. /\ now' = now + 1 /\ now' \in 1 .. LastTime
        /\ UNCHANGED <<hits, lastCleanupAt, asked, passed, evicted>>
    BY <1>2, RateConstants DEF TimePasses, RateInv, RateShapes
  <2>2. RateShapes'
    BY <2>1 DEF RateInv, RateShapes
  <2>3. ASSUME NEW k \in Keys PROVE Sound(now + 1, k, hits[k], asked[k], passed[k], evicted)
    BY TimeSound DEF RateInv
  <2> QED
    BY <2>1, <2>2, <2>3 DEF RateInv
<1>3. CASE LimiterRestarts
  <2>1. RateShapes'
    BY <1>3, RateConstants DEF LimiterRestarts, RateInv, RateShapes
  <2>2. ASSUME NEW k \in Keys PROVE Sound(now, k, NoEntry, asked[k], passed[k], Keys)
    <3>1. Sound(now, k, hits[k], asked[k], passed[k], evicted) /\ evicted \subseteq Keys
      BY DEF RateInv, RateShapes
    <3> QED
      BY <3>1, DropSound
  <2>3. /\ evicted' = Keys /\ now' = now /\ asked' = asked /\ passed' = passed
        /\ \A k \in Keys : hits'[k] = NoEntry
    BY <1>3 DEF LimiterRestarts
  <2> QED
    BY <2>1, <2>2, <2>3 DEF RateInv
<1>4. ASSUME NEW k \in Keys, Limiter(k) PROVE RateInv'
  BY <1>4, LimiterStep
<1> QED
  BY <1>1, <1>2, <1>3, <1>4 DEF RateNext

LEMMA RateKeeps == RateSpec => []RateInv
  BY RateBegins, RateStep, RateConstants, PTL DEF RateSpec

LEMMA RateIsTyped == RateInv => RateTypeOK
<1> SUFFICES ASSUME RateInv PROVE RateTypeOK
  OBVIOUS
<1>1. ASSUME NEW k \in Keys
      PROVE  /\ hits[k].count \in Nat /\ hits[k].resetAt \in 0 .. now + Window /\ hits[k].lastSeenAt \in 0 .. now
             /\ passed[k] \subseteq asked[k] /\ asked[k] \subseteq 1 .. now
  <2>1. Sound(now, k, hits[k], asked[k], passed[k], evicted)
    BY DEF RateInv
  <2>2. CASE hits[k] = NoEntry
    BY <2>1, <2>2, NoEntryIs, RateConstants DEF Sound
  <2>3. CASE hits[k] # NoEntry
    BY <2>1, <2>3, RateConstants DEF Sound, Opened, Entries
  <2> QED
    BY <2>2, <2>3
<1> QED
  BY <1>1 DEF RateTypeOK, RateInv, RateShapes

\* Whatever cleanups drop, in no window's time more than twice the limit is let
\* through, unless a counter was evicted; a cleanup for staleness changes
\* nothing, and who asks no more than the limit is served.
THEOREM LimitsAreKept == RateSpec => [](RateTypeOK /\ StaleIsOver /\ LimitHolds /\ ModestAreServed)
<1>1. ASSUME RateInv PROVE StaleIsOver
  <2> SUFFICES ASSUME NEW k \in Keys, hits[k] # NoEntry, Stale(hits[k])
               PROVE  Counted(hits[k]) = Counted(NoEntry)
    BY DEF StaleIsOver
  <2>1. now > hits[k].resetAt
    <3>1. Sound(now, k, hits[k], asked[k], passed[k], evicted) /\ now - hits[k].lastSeenAt > 2 * Window
      BY <1>1 DEF RateInv, Stale
    <3> QED
      BY <3>1, StaleEntries
  <2> QED
    BY <2>1 DEF Counted
<1>2. ASSUME RateInv, NEW k \in Keys \ evicted, NEW t \in 1 .. now
      PROVE  Cardinality(Within(passed[k], t)) <= 2 * MaxHits
  <2>1. Limits(now, passed[k])
    BY <1>2 DEF RateInv, Sound
  <2> QED
    BY <2>1 DEF Limits
<1>3. ASSUME RateInv, NEW k \in Keys, NEW t \in asked[k], Cardinality(Within(asked[k], t)) <= MaxHits
      PROVE  t \in passed[k]
  <2>1. Serves(asked[k], passed[k])
    BY <1>3 DEF RateInv, Sound
  <2> QED
    BY <1>3, <2>1 DEF Serves
<1>4. RateInv => LimitHolds
  BY <1>2 DEF LimitHolds
<1>5. RateInv => ModestAreServed
  BY <1>3 DEF ModestAreServed
<1> QED
  BY <1>1, <1>4, <1>5, RateKeeps, RateIsTyped, PTL

-----------------------------------------------------------------------------
(* Support tickets.                                                         *)

TicketRows == [email : Emails, linked : BOOLEAN, excused : BOOLEAN,
               replied : BOOLEAN, told : BOOLEAN, flagged : BOOLEAN]
HelpRecords(n) ==
    [pc : {"idle", "find", "pick", "create", "linked", "unlinked", "reply", "flag", "tell"},
     op : {"none", "ask", "user", "admin", "link"}, email : Emails \cup {None},
     name : {"local", "other"}, row : 0 .. n, raced : BOOLEAN]

\* What a request carries is true of the rows: acc are the accounts by now, n
\* counts the tickets, and links were mailed for `sent`.
HelpIsSound(q, acc, n, sent) ==
    /\ q \in HelpRecords(n)
    /\ q.pc \in {"find", "pick", "create", "linked", "unlinked"} => q.op = "ask" /\ q.email \in Emails
    /\ q.pc = "linked" => acc[q.email] # None
    /\ q.pc = "unlinked" => q.raced
    /\ q.pc \in {"reply", "flag", "tell"} => q.op \in {"user", "admin", "link"} /\ q.row \in 1 .. n
    /\ q.pc = "tell" => q.row \in sent

HelpsInv == \A c \in Calls : HelpIsSound(helps[c], accounts, Len(tickets), linkMailed)

SupportInv == SupportTypeOK /\ HelpsInv /\ RecoveryIsLinked /\ RepliesAreFlagged /\ ToldIsMailed

LEMMA NoHelpIsSound == ASSUME NEW acc, NEW n \in Nat, NEW sent PROVE HelpIsSound(NoHelp, acc, n, sent) /\ NoHelp.pc = "idle"
  BY DEF HelpIsSound, NoHelp, Help, HelpRecords

LEMMA SupportBegins == SupportInit => SupportInv
<1> SUFFICES ASSUME SupportInit PROVE SupportInv
  OBVIOUS
<1>1. tickets = <<>> /\ Len(tickets) = 0 /\ \A c \in Calls : helps[c] = NoHelp
  BY DEF SupportInit
<1>2. HelpsInv
  BY <1>1, NoHelpIsSound DEF HelpsInv
<1>3. helps \in [Calls -> HelpRecords(0)]
  BY <1>1, NoHelpIsSound DEF SupportInit, HelpIsSound
<1>4. tickets \in Seq(TicketRows)
  BY <1>1
<1>5. SupportTypeOK
  BY <1>1, <1>3, <1>4, SupportAssumption DEF SupportTypeOK, SupportInit, HelpRecords, TicketRows
<1>6. RecoveryIsLinked /\ RepliesAreFlagged /\ ToldIsMailed
  BY <1>1 DEF RecoveryIsLinked, RepliesAreFlagged, ToldIsMailed
<1> QED
  BY <1>2, <1>5, <1>6 DEF SupportInv

\* The tickets stay as they are, and what is said of them stays so.
LEMMA TicketsStay ==
    ASSUME SupportInv, NEW c \in Calls, NEW q, helps' = [helps EXCEPT ![c] = q],
           HelpIsSound(q, accounts', Len(tickets), linkMailed'),
           accounts' \in [Emails -> {None, "local", "other"}],
           \A e \in Emails : accounts[e] # None => accounts'[e] # None,
           tickets' = tickets, linkMailed \subseteq linkMailed', halfway \subseteq halfway',
           linkMailed' \cup halfway' \subseteq 1 .. Len(tickets),
           helps[c].pc = "flag" => helps[c].row \in halfway' \/ (q.pc = "flag" /\ q.row = helps[c].row)
    PROVE  SupportInv'
<1>1. /\ \A d \in Calls : d # c => helps'[d] = helps[d]
      /\ helps'[c] = q
  BY DEF SupportInv, SupportTypeOK
<1>2. /\ helps \in [Calls -> HelpRecords(Len(tickets))] /\ q \in HelpRecords(Len(tickets))
      /\ tickets \in Seq(TicketRows)
  BY DEF SupportInv, SupportTypeOK, HelpRecords, HelpIsSound, TicketRows
<1>3. helps' \in [Calls -> HelpRecords(Len(tickets))]
  BY <1>2
<1>4. SupportTypeOK'
  BY <1>2, <1>3 DEF SupportInv, SupportTypeOK, HelpRecords, TicketRows
<1>5. HelpsInv'
  <2>1. ASSUME NEW d \in Calls PROVE HelpIsSound(helps'[d], accounts', Len(tickets), linkMailed')
    <3>1. CASE d = c
      BY <1>1, <3>1
    <3>2. CASE d # c
      BY <1>1, <3>2 DEF SupportInv, HelpsInv, HelpIsSound
    <3> QED
      BY <3>1, <3>2
  <2> QED
    BY <2>1 DEF HelpsInv
<1>6. \A i \in 1 .. Len(tickets) : tickets[i].email \in Emails
  <2>1. \A i \in 1 .. Len(tickets) : tickets[i] \in TicketRows
    BY <1>2
  <2> QED
    BY <2>1 DEF TicketRows
<1>7. RecoveryIsLinked'
  BY <1>6 DEF SupportInv, RecoveryIsLinked
<1>8. RepliesAreFlagged'
  <2> SUFFICES ASSUME NEW i \in 1 .. Len(tickets), tickets[i].replied, ~tickets[i].flagged, i \notin halfway'
               PROVE  \E d \in Calls : helps'[d].pc = "flag" /\ helps'[d].row = i
    BY DEF RepliesAreFlagged
  <2>1. PICK d \in Calls : helps[d].pc = "flag" /\ helps[d].row = i
    BY DEF SupportInv, RepliesAreFlagged
  <2> QED
    BY <1>1, <2>1
<1>9. ToldIsMailed'
  BY DEF SupportInv, ToldIsMailed
<1> QED
  BY <1>4, <1>5, <1>7, <1>8, <1>9 DEF SupportInv

\* One ticket is answered, and the request that answers it goes on or ends.
LEMMA TicketIsAnswered ==
    ASSUME SupportInv, NEW c \in Calls, NEW q, helps' = [helps EXCEPT ![c] = q],
           helps[c].row \in 1 .. Len(tickets),
           HelpIsSound(q, accounts, Len(tickets), linkMailed),
           NEW t, tickets' = [tickets EXCEPT ![helps[c].row] = t],
           t \in TicketRows, t.email = tickets[helps[c].row].email,
           t.linked = tickets[helps[c].row].linked, t.excused = tickets[helps[c].row].excused,
           t.told => tickets[helps[c].row].told \/ helps[c].row \in linkMailed,
           t.flagged \/ (q.pc = "flag" /\ q.row = helps[c].row),
           UNCHANGED <<accounts, linkMailed, halfway>>
    PROVE  SupportInv'
<1> DEFINE r == helps[c].row
<1>1. /\ \A d \in Calls : d # c => helps'[d] = helps[d]
      /\ helps'[c] = q
  BY DEF SupportInv, SupportTypeOK
<1>2. /\ helps \in [Calls -> HelpRecords(Len(tickets))] /\ q \in HelpRecords(Len(tickets))
      /\ tickets \in Seq(TicketRows) /\ r \in 1 .. Len(tickets)
  BY DEF SupportInv, SupportTypeOK, HelpRecords, HelpIsSound, TicketRows
<1>3. helps' \in [Calls -> HelpRecords(Len(tickets))]
  BY <1>2
<1>4. tickets' \in Seq(TicketRows) /\ Len(tickets') = Len(tickets)
      /\ tickets'[r] = t /\ \A i \in 1 .. Len(tickets) : i # r => tickets'[i] = tickets[i]
  <2>1. tickets' = [tickets EXCEPT ![r] = t]
    OBVIOUS
  <2> HIDE DEF r
  <2> QED
    BY <1>2, <2>1
<1> HIDE DEF r
<1>5. SupportTypeOK'
  BY <1>3, <1>4 DEF SupportInv, SupportTypeOK, HelpRecords, TicketRows
<1>6. HelpsInv'
  <2>1. ASSUME NEW d \in Calls PROVE HelpIsSound(helps'[d], accounts, Len(tickets), linkMailed)
    BY <1>1 DEF SupportInv, HelpsInv
  <2> QED
    BY <1>4, <2>1 DEF HelpsInv
<1>7. RecoveryIsLinked'
  <2>1. ASSUME NEW i \in 1 .. Len(tickets)
        PROVE  /\ tickets'[i].linked = tickets[i].linked /\ tickets'[i].excused = tickets[i].excused
               /\ tickets'[i].email = tickets[i].email
    BY <1>4 DEF r
  <2> QED
    BY <1>4, <2>1 DEF SupportInv, RecoveryIsLinked
<1>8. RepliesAreFlagged'
  <2> SUFFICES ASSUME NEW i \in 1 .. Len(tickets), tickets'[i].replied, ~tickets'[i].flagged, i \notin halfway
               PROVE  \E d \in Calls : helps'[d].pc = "flag" /\ helps'[d].row = i
    BY <1>4 DEF RepliesAreFlagged
  <2>1. CASE i = r
    BY <1>1, <1>4, <2>1 DEF r
  <2>2. CASE i # r
    <3>1. PICK d \in Calls : helps[d].pc = "flag" /\ helps[d].row = i
      BY <1>4, <2>2 DEF SupportInv, RepliesAreFlagged
    <3> QED
      BY <1>1, <2>2, <3>1 DEF r
  <2> QED
    BY <2>1, <2>2
<1>9. ToldIsMailed'
  <2>1. ASSUME NEW i \in 1 .. Len(tickets), tickets'[i].told PROVE i \in linkMailed
    <3>1. CASE i = r
      BY <1>4, <2>1, <3>1 DEF SupportInv, ToldIsMailed, r
    <3>2. CASE i # r
      BY <1>4, <2>1, <3>2 DEF SupportInv, ToldIsMailed
    <3> QED
      BY <3>1, <3>2
  <2> QED
    BY <1>4, <2>1 DEF ToldIsMailed
<1> QED
  BY <1>5, <1>6, <1>7, <1>8, <1>9 DEF SupportInv

LEMMA SupportStep == ASSUME SupportInv, [SupportNext]_supportVars PROVE SupportInv'
<1>0. /\ Len(tickets) \in Nat /\ accounts \in [Emails -> {None, "local", "other"}]
      /\ helps \in [Calls -> HelpRecords(Len(tickets))] /\ tickets \in Seq(TicketRows)
      /\ linkMailed \cup halfway \subseteq 1 .. Len(tickets) /\ None \notin {"local", "other"}
      /\ \A c \in Calls : HelpIsSound(helps[c], accounts, Len(tickets), linkMailed)
  BY SupportAssumption DEF SupportInv, SupportTypeOK, HelpRecords, TicketRows, HelpsInv
<1>1. CASE UNCHANGED supportVars
  BY <1>1 DEF supportVars, SupportInv, SupportTypeOK, HelpsInv, RecoveryIsLinked, RepliesAreFlagged, ToldIsMailed
<1>2. CASE SomeoneRegisters
  <2>1. PICK e \in Emails, name \in {"local", "other"} :
          accounts[e] = None /\ accounts' = [accounts EXCEPT ![e] = name]
    BY <1>2 DEF SomeoneRegisters
  <2>2. /\ accounts' \in [Emails -> {None, "local", "other"}]
        /\ \A f \in Emails : accounts[f] # None => accounts'[f] # None
        /\ UNCHANGED <<tickets, helps, linkMailed, halfway>>
    BY <1>0, <1>2, <2>1 DEF SomeoneRegisters
  <2>3. PICK c \in Calls : TRUE
    BY RequestsAssumption
  <2>4. helps' = [helps EXCEPT ![c] = helps[c]]
    BY <1>0, <2>2
  <2>5. HelpIsSound(helps[c], accounts', Len(tickets), linkMailed')
    BY <1>0, <2>2 DEF HelpIsSound
  <2> QED
    BY <1>0, <2>2, <2>4, <2>5, TicketsStay
<1>3. ASSUME NEW c \in Calls, NEW q, HelpGoes(c, q), HelpIsSound(q, accounts, Len(tickets), linkMailed),
             helps[c].pc # "flag", UNCHANGED <<accounts, tickets, linkMailed, halfway>>
      PROVE  SupportInv'
  BY <1>0, <1>3, TicketsStay DEF HelpGoes
<1>4. ASSUME NEW c \in Calls, createMessage(c) PROVE SupportInv'
  <2>1. PICK e \in Emails : HelpGoes(c, Help("find", "ask", e, "other", 0, FALSE))
    BY <1>4 DEF createMessage
  <2>2. HelpIsSound(Help("find", "ask", e, "other", 0, FALSE), accounts, Len(tickets), linkMailed)
    BY <1>0 DEF HelpIsSound, Help, HelpRecords
  <2>3. helps[c].pc # "flag" /\ UNCHANGED <<accounts, tickets, linkMailed, halfway>>
    BY <1>4, NoHelpIsSound, <1>0 DEF createMessage
  <2> QED
    BY <1>3, <2>1, <2>2, <2>3
<1>5. ASSUME NEW c \in Calls, FindsUser(c) PROVE SupportInv'
  <2> DEFINE q == [helps[c] EXCEPT !.pc = IF accounts[helps[c].email] = None THEN "pick" ELSE "linked"]
  <2>1. HelpGoes(c, q) /\ helps[c].pc = "find" /\ UNCHANGED <<accounts, tickets, linkMailed, halfway>>
    BY <1>5 DEF FindsUser
  <2>2. HelpIsSound(q, accounts, Len(tickets), linkMailed)
    BY <1>0, <2>1 DEF HelpIsSound, HelpRecords
  <2> HIDE DEF q
  <2> QED
    BY <1>3, <2>1, <2>2
<1>6. ASSUME NEW c \in Calls, PicksName(c) PROVE SupportInv'
  <2> DEFINE q == [helps[c] EXCEPT !.pc = "create", !.name = IF NameIsFree(helps[c].email) THEN "local" ELSE "other"]
  <2>1. HelpGoes(c, q) /\ helps[c].pc = "pick" /\ UNCHANGED <<accounts, tickets, linkMailed, halfway>>
    BY <1>6 DEF PicksName
  <2>2. HelpIsSound(q, accounts, Len(tickets), linkMailed)
    BY <1>0, <2>1 DEF HelpIsSound, HelpRecords
  <2> HIDE DEF q
  <2> QED
    BY <1>3, <2>1, <2>2
<1>7. ASSUME NEW c \in Calls, CreatesUser(c) PROVE SupportInv'
  <2>1. helps[c].pc = "create" /\ helps[c].email \in Emails /\ UNCHANGED <<tickets, linkMailed, halfway>>
    BY <1>0, <1>7 DEF CreatesUser, HelpIsSound
  <2>2. CASE Clashes(helps[c])
    <3> DEFINE q == [helps[c] EXCEPT !.pc = AfterClash(helps[c]), !.raced = accounts[helps[c].email] = None]
    <3>1. HelpGoes(c, q) /\ UNCHANGED accounts
      BY <1>7, <2>2 DEF CreatesUser
    <3>2. HelpIsSound(q, accounts, Len(tickets), linkMailed)
      <4>1. CASE accounts[helps[c].email] = None
        <5>1. q = [helps[c] EXCEPT !.pc = "unlinked", !.raced = TRUE]
          BY <4>1 DEF AfterClash
        <5> HIDE DEF q
        <5> QED
          BY <1>0, <2>1, <5>1 DEF HelpIsSound, HelpRecords
      <4>2. CASE accounts[helps[c].email] # None
        <5>1. q = [helps[c] EXCEPT !.pc = "linked", !.raced = FALSE]
          BY <4>2 DEF AfterClash
        <5> HIDE DEF q
        <5> QED
          BY <1>0, <2>1, <4>2, <5>1 DEF HelpIsSound, HelpRecords
      <4> QED
        BY <4>1, <4>2
    <3> HIDE DEF q
    <3> QED
      BY <1>3, <2>1, <3>1, <3>2
  <2>3. CASE ~Clashes(helps[c])
    <3> DEFINE q == [helps[c] EXCEPT !.pc = "linked"]
               e == helps[c].email
    <3>1. helps' = [helps EXCEPT ![c] = q] /\ accounts' = [accounts EXCEPT ![e] = helps[c].name]
      BY <1>7, <2>3 DEF CreatesUser, HelpGoes
    <3>2. helps[c].name \in {"local", "other"} /\ e \in Emails /\ q.email = e /\ q.pc = "linked"
      BY <1>0, <2>1 DEF HelpIsSound, HelpRecords
    <3>3. /\ accounts' \in [Emails -> {None, "local", "other"}] /\ accounts'[e] # None
          /\ \A f \in Emails : accounts[f] # None => accounts'[f] # None
      <4> HIDE DEF e, q
      <4> QED
        BY <1>0, <3>1, <3>2
    <3>4. HelpIsSound(q, accounts', Len(tickets), linkMailed')
      <4>1. q \in HelpRecords(Len(tickets)) /\ q.op = "ask"
        BY <1>0, <2>1 DEF HelpIsSound, HelpRecords
      <4> HIDE DEF e, q
      <4> QED
        BY <3>2, <3>3, <4>1 DEF HelpIsSound
    <3> HIDE DEF q, e
    <3> QED
      BY <1>0, <2>1, <3>1, <3>3, <3>4, TicketsStay
  <2> QED
    BY <2>2, <2>3
<1>8. ASSUME NEW c \in Calls, RecoveryFails(c) PROVE SupportInv'
  <2> DEFINE q == [helps[c] EXCEPT !.pc = "unlinked", !.raced = TRUE]
  <2>1. /\ HelpGoes(c, q) /\ helps[c].pc \in {"find", "pick", "create"}
        /\ UNCHANGED <<accounts, tickets, linkMailed, halfway>>
    BY <1>8 DEF RecoveryFails
  <2>2. HelpIsSound(q, accounts, Len(tickets), linkMailed)
    BY <1>0, <2>1 DEF HelpIsSound, HelpRecords
  <2> HIDE DEF q
  <2> QED
    BY <1>3, <2>1, <2>2
<1>9. ASSUME NEW c \in Calls, Replies(c) PROVE SupportInv'
  <2>1. PICK i \in 1 .. Len(tickets), op \in {"user", "admin", "link"} :
          HelpGoes(c, Help("reply", op, tickets[i].email, "other", i, FALSE))
    BY <1>9 DEF Replies
  <2>2. tickets[i].email \in Emails
    <3>1. tickets[i] \in TicketRows
      BY <1>0
    <3> QED
      BY <3>1 DEF TicketRows
  <2>3. HelpIsSound(Help("reply", op, tickets[i].email, "other", i, FALSE), accounts, Len(tickets), linkMailed)
    BY <1>0, <2>2 DEF HelpIsSound, Help, HelpRecords
  <2>4. helps[c].pc # "flag" /\ UNCHANGED <<accounts, tickets, linkMailed, halfway>>
    BY <1>9, NoHelpIsSound, <1>0 DEF Replies
  <2> QED
    BY <1>3, <2>1, <2>3, <2>4
<1>10. ASSUME NEW c \in Calls, MailsLink(c) PROVE SupportInv'
  <2> DEFINE q == [helps[c] EXCEPT !.pc = "tell"]
  <2>1. /\ helps[c].pc = "reply" /\ helps[c].op = "link" /\ helps' = [helps EXCEPT ![c] = q]
        /\ linkMailed' = linkMailed \cup {helps[c].row}
        /\ UNCHANGED <<accounts, tickets, halfway>>
    BY <1>10 DEF MailsLink, HelpGoes
  <2>2. helps[c].row \in 1 .. Len(tickets) /\ HelpIsSound(q, accounts', Len(tickets), linkMailed')
    BY <1>0, <2>1 DEF HelpIsSound, HelpRecords
  <2> HIDE DEF q
  <2> QED
    BY <1>0, <2>1, <2>2, TicketsStay
<1>11. ASSUME NEW c \in Calls, HelpFails(c) PROVE SupportInv'
  <2>1. /\ halfway' = IF helps[c].pc = "flag" THEN halfway \cup {helps[c].row} ELSE halfway
        /\ helps' = [helps EXCEPT ![c] = NoHelp]
        /\ UNCHANGED <<accounts, tickets, linkMailed>>
    BY <1>11 DEF HelpFails, HelpGoes
  <2>2. helps[c].pc = "flag" => helps[c].row \in 1 .. Len(tickets)
    BY <1>0 DEF HelpIsSound
  <2>3. HelpIsSound(NoHelp, accounts', Len(tickets), linkMailed')
    BY <1>0, <2>1, NoHelpIsSound
  <2> QED
    BY <1>0, <2>1, <2>2, <2>3, TicketsStay
<1>12. ASSUME NEW c \in Calls, UserReplies(c) PROVE SupportInv'
  <2> DEFINE r == helps[c].row
             q == [helps[c] EXCEPT !.pc = "flag"]
             t == [tickets[r] EXCEPT !.replied = TRUE]
  <2>1. /\ helps[c].pc = "reply" /\ helps' = [helps EXCEPT ![c] = q]
        /\ tickets' = [tickets EXCEPT ![r] = t]
        /\ UNCHANGED <<accounts, linkMailed, halfway>>
    BY <1>12 DEF UserReplies, HelpGoes
  <2>2. r \in 1 .. Len(tickets) /\ HelpIsSound(q, accounts, Len(tickets), linkMailed)
        /\ q.pc = "flag" /\ q.row = r
    BY <1>0, <2>1 DEF HelpIsSound, HelpRecords
  <2>3. tickets[r] \in TicketRows
    BY <1>0, <2>2
  <2>4. /\ t \in TicketRows /\ t.email = tickets[r].email /\ t.linked = tickets[r].linked
        /\ t.excused = tickets[r].excused /\ t.told = tickets[r].told
    BY <2>3 DEF TicketRows
  <2> HIDE DEF q, t
  <2> QED
    BY <2>1, <2>2, <2>4, TicketIsAnswered
<1>13. ASSUME NEW c \in Calls, UserFlags(c) PROVE SupportInv'
  <2> DEFINE r == helps[c].row
             t == [tickets[r] EXCEPT !.flagged = TRUE]
  <2>1. /\ helps[c].pc = "flag" /\ helps' = [helps EXCEPT ![c] = NoHelp]
        /\ tickets' = [tickets EXCEPT ![r] = t]
        /\ UNCHANGED <<accounts, linkMailed, halfway>>
    BY <1>13 DEF UserFlags, HelpGoes
  <2>2. r \in 1 .. Len(tickets) /\ HelpIsSound(NoHelp, accounts, Len(tickets), linkMailed)
    BY <1>0, <2>1, NoHelpIsSound DEF HelpIsSound
  <2>3. tickets[r] \in TicketRows
    BY <1>0, <2>2
  <2>4. /\ t \in TicketRows /\ t.email = tickets[r].email /\ t.linked = tickets[r].linked
        /\ t.excused = tickets[r].excused /\ t.told = tickets[r].told /\ t.flagged
    BY <2>3 DEF TicketRows
  <2> HIDE DEF t
  <2> QED
    BY <2>1, <2>2, <2>4, TicketIsAnswered
<1>14. ASSUME NEW c \in Calls, AdminReplies(c) PROVE SupportInv'
  <2> DEFINE r == helps[c].row
             t == [tickets[r] EXCEPT !.replied = TRUE, !.flagged = TRUE, !.told = @ \/ helps[c].op = "link"]
  <2>1. /\ (helps[c].op = "admin" /\ helps[c].pc = "reply") \/ helps[c].pc = "tell"
        /\ helps' = [helps EXCEPT ![c] = NoHelp]
        /\ tickets' = [tickets EXCEPT ![r].replied = TRUE, ![r].flagged = TRUE,
                                      ![r].told = @ \/ helps[c].op = "link"]
        /\ UNCHANGED <<accounts, linkMailed, halfway>>
    BY <1>14 DEF AdminReplies, HelpGoes
  <2>2. r \in 1 .. Len(tickets) /\ HelpIsSound(NoHelp, accounts, Len(tickets), linkMailed)
    BY <1>0, <2>1, NoHelpIsSound DEF HelpIsSound
  <2>3. tickets[r] \in TicketRows
    BY <1>0, <2>2
  <2>4. /\ t \in TicketRows /\ t.email = tickets[r].email /\ t.linked = tickets[r].linked
        /\ t.excused = tickets[r].excused /\ t.told = (tickets[r].told \/ helps[c].op = "link") /\ t.flagged
    BY <2>3 DEF TicketRows
  <2>5. t.told => tickets[r].told \/ r \in linkMailed
    BY <1>0, <2>1, <2>4 DEF HelpIsSound
  <2>6. tickets' = [tickets EXCEPT ![r] = t]
    <3> HIDE DEF r
    <3> QED
      BY <1>0, <2>1, <2>2, <2>3 DEF TicketRows
  <2> HIDE DEF t
  <2> QED
    BY <2>1, <2>2, <2>4, <2>5, <2>6, TicketIsAnswered
<1>15. ASSUME NEW c \in Calls, WritesTicket(c) PROVE SupportInv'
  <2> DEFINE q == helps[c]
             t == Ticket(q.email, q.pc = "linked", q.raced)
  <2>1. /\ q.pc \in {"linked", "unlinked"} /\ q.email \in Emails /\ q.raced \in BOOLEAN
        /\ q.pc = "linked" \/ q.raced
        /\ q.pc = "linked" => accounts[q.email] # None
        /\ Len(tickets) < MaxTickets
        /\ tickets' = Append(tickets, t)
        /\ helps' = [helps EXCEPT ![c] = NoHelp]
        /\ UNCHANGED <<accounts, linkMailed, halfway>>
    BY <1>0, <1>15 DEF WritesTicket, HelpGoes, HelpIsSound, HelpRecords
  <2>2. t \in TicketRows /\ t.email = q.email /\ t.linked = (q.pc = "linked") /\ t.excused = q.raced
        /\ t.replied = FALSE /\ t.told = FALSE
    BY <2>1 DEF Ticket, TicketRows
  <2> HIDE DEF t
  <2>3. /\ tickets' \in Seq(TicketRows) /\ Len(tickets') = Len(tickets) + 1
        /\ tickets'[Len(tickets) + 1] = t
        /\ \A i \in 1 .. Len(tickets) : tickets'[i] = tickets[i]
    BY <1>0, <2>1, <2>2
  <2>4. /\ \A d \in Calls : d # c => helps'[d] = helps[d]
        /\ helps'[c] = NoHelp
    BY <1>0, <2>1
  <2>5. 0 .. Len(tickets) \subseteq 0 .. Len(tickets') /\ 1 .. Len(tickets) \subseteq 1 .. Len(tickets')
    BY <1>0, <2>3
  <2>6. ASSUME NEW d \in Calls PROVE HelpIsSound(helps'[d], accounts, Len(tickets'), linkMailed)
    <3>1. CASE d = c
      BY <1>0, <2>3, <2>4, <3>1, NoHelpIsSound
    <3>2. CASE d # c
      <4>1. HelpIsSound(helps[d], accounts, Len(tickets), linkMailed)
        BY <1>0
      <4>2. HelpIsSound(helps[d], accounts, Len(tickets'), linkMailed)
        BY <2>5, <4>1 DEF HelpIsSound, HelpRecords
      <4> QED
        BY <2>4, <3>2, <4>2
    <3> QED
      BY <3>1, <3>2
  <2>7. helps' \in [Calls -> HelpRecords(Len(tickets'))]
    <3>1. \A d \in Calls : helps'[d] \in HelpRecords(Len(tickets'))
      BY <2>6 DEF HelpIsSound
    <3> QED
      BY <1>0, <2>1, <3>1
  <2>8. SupportTypeOK'
    <3>1. Len(tickets') <= MaxTickets
      BY <1>0, <2>1, <2>3, SupportAssumption
    <3>2. linkMailed \cup halfway \subseteq 1 .. Len(tickets')
      BY <1>0, <2>5
    <3> QED
      BY <1>0, <2>1, <2>3, <2>7, <3>1, <3>2 DEF SupportTypeOK, HelpRecords, TicketRows
  <2>9. HelpsInv'
    BY <2>1, <2>6 DEF HelpsInv
  <2>10. \A i \in 1 .. Len(tickets') : i \in 1 .. Len(tickets) \/ tickets'[i] = t
    BY <1>0, <2>3
  <2>11. RecoveryIsLinked'
    <3>1. ASSUME NEW i \in 1 .. Len(tickets')
          PROVE  /\ tickets'[i].linked \/ tickets'[i].excused
                 /\ tickets'[i].linked => accounts[tickets'[i].email] # None
      <4>1. CASE i \in 1 .. Len(tickets)
        BY <2>3, <4>1 DEF SupportInv, RecoveryIsLinked
      <4>2. CASE tickets'[i] = t
        BY <2>1, <2>2, <4>2
      <4> QED
        BY <2>10, <4>1, <4>2
    <3> QED
      BY <2>1, <3>1 DEF RecoveryIsLinked
  <2>12. RepliesAreFlagged'
    <3> SUFFICES ASSUME NEW i \in 1 .. Len(tickets'), tickets'[i].replied, ~tickets'[i].flagged, i \notin halfway
                 PROVE  \E d \in Calls : helps'[d].pc = "flag" /\ helps'[d].row = i
      BY <2>1 DEF RepliesAreFlagged
    <3>1. i \in 1 .. Len(tickets)
      BY <2>2, <2>10
    <3>2. PICK d \in Calls : helps[d].pc = "flag" /\ helps[d].row = i
      BY <2>3, <3>1 DEF SupportInv, RepliesAreFlagged
    <3> QED
      BY <2>1, <2>4, <3>2
  <2>13. ToldIsMailed'
    BY <2>1, <2>2, <2>3, <2>10 DEF SupportInv, ToldIsMailed
  <2> QED
    BY <2>8, <2>9, <2>11, <2>12, <2>13 DEF SupportInv
<1> QED
  BY <1>1, <1>2, <1>4, <1>5, <1>6, <1>7, <1>8, <1>9, <1>10, <1>11, <1>12, <1>13, <1>14, <1>15 DEF SupportNext

LEMMA SupportKeeps == SupportSpec => []SupportInv
  BY SupportBegins, SupportStep, PTL DEF SupportSpec

\* However requests overlap and fail, a recovery ends with an account or an
\* excuse, a reply with its flag, and a link is told of only if it was mailed.
THEOREM TicketsAreSettled ==
    SupportSpec => [](SupportTypeOK /\ RecoveryIsLinked /\ RepliesAreFlagged /\ ToldIsMailed)
<1>1. SupportInv => SupportTypeOK /\ RecoveryIsLinked /\ RepliesAreFlagged /\ ToldIsMailed
  BY DEF SupportInv
<1> QED
  BY <1>1, SupportKeeps, PTL

-----------------------------------------------------------------------------
(* The analysis of a deposit.                                               *)

\* Of each wallet to be asked for, the transactions are merged, or the wallet is
\* left or broken; what was read as credited to the account is.
ScannedInv ==
    /\ step \in {"chain", "done"} =>
          /\ \A x \in merged : x.from \in ScanWallets \/ x.to \in ScanWallets
          /\ toScan \subseteq ScanWallets
          /\ \A w \in ScanWallets : \/ w \in toScan \cup broken
                                    \/ \A x \in Chain : w \in {x.from, x.to} => x \in merged
    /\ step = "done" => toScan = {}
    /\ \A x \in ledger : linked # None /\ credited[x] = linked
    /\ step \in {"resolve", "ledger"} => ledger = {} /\ merged = {} /\ broken = {}

RequestIsSound ==
    /\ request.wallets \subseteq Wallets /\ request.user \in Players \cup {None}
    /\ request.named \in Players \cup {None} /\ request.matching \subseteq Players

ForensicsInv == ForensicsTypeOK /\ RequestIsSound /\ ScannedInv

LEMMA ForensicsBegins == ForensicsInit => ForensicsInv
<1> SUFFICES ASSUME ForensicsInit PROVE ForensicsInv
  OBVIOUS
<1>1. RequestIsSound
  BY DEF ForensicsInit, RequestIsSound, Requested
<1>2. ForensicsTypeOK /\ ScannedInv
  BY DEF ForensicsInit, ForensicsTypeOK, ScannedInv
<1> QED
  BY <1>1, <1>2 DEF ForensicsInv

LEMMA ScansAreWallets ==
    ASSUME ForensicsTypeOK, RequestIsSound PROVE ScanWallets \subseteq Wallets
  BY ForensicsAssumption DEF ForensicsTypeOK, RequestIsSound, ScanWallets

LEMMA ForensicsStep == ASSUME ForensicsInv, [ForensicsNext]_forensicsVars PROVE ForensicsInv'
<1> USE DEF ForensicsInv
<1>1. CASE UNCHANGED forensicsVars
  BY <1>1 DEF forensicsVars, ForensicsTypeOK, RequestIsSound, ScannedInv, ScanWallets
<1>2. CASE ResolvesUser
  <2>1. Resolved(request) \subseteq Players
    BY DEF RequestIsSound, Resolved
  <2>2. linked' \in Players \cup {None}
    BY <1>2, <2>1 DEF ResolvesUser
  <2> QED
    BY <1>2, <2>2 DEF ResolvesUser, ForensicsTypeOK, RequestIsSound, ScannedInv
<1>3. CASE ReadsLedger
  <2>1. /\ ledger' = {x \in Chain : linked # None /\ credited[x] = linked}
        /\ toScan' = ScanWallets /\ step' = "chain" /\ merged = {} /\ broken = {}
        /\ UNCHANGED <<request, linked, credited, merged, broken>>
    BY <1>3 DEF ReadsLedger, ScannedInv
  <2>2. ScanWallets' = ScanWallets
    BY <2>1 DEF ScanWallets
  <2>3. ForensicsTypeOK' /\ RequestIsSound'
    BY <2>1, ScansAreWallets DEF ForensicsTypeOK, RequestIsSound
  <2>4. ScannedInv'
    BY <2>1, <2>2 DEF ScannedInv
  <2> QED
    BY <2>3, <2>4
<1>4. CASE AsksExplorer
  <2>1. PICK w \in toScan :
          /\ step = "chain" /\ toScan' = toScan \ {w}
          /\ \/ merged' = merged \cup {x \in Chain : w \in {x.from, x.to}} /\ UNCHANGED broken
             \/ broken' = broken \cup {w} /\ UNCHANGED merged
    BY <1>4 DEF AsksExplorer
  <2>2. UNCHANGED <<request, step, linked, credited, ledger>>
    BY <1>4 DEF AsksExplorer
  <2>3. ScanWallets' = ScanWallets
    BY <2>2 DEF ScanWallets
  <2>4. ForensicsTypeOK' /\ RequestIsSound'
    BY <2>1, <2>2 DEF ForensicsTypeOK, RequestIsSound
  <2>5. ScannedInv'
    BY <2>1, <2>2, <2>3 DEF ScannedInv
  <2> QED
    BY <2>4, <2>5
<1>5. CASE AnalysisAnswered
  BY <1>5 DEF AnalysisAnswered, ForensicsTypeOK, RequestIsSound, ScannedInv, ScanWallets
<1>6. CASE Credits
  <2>1. PICK x \in Chain, p \in Players : credited[x] = None /\ credited' = [credited EXCEPT ![x] = p]
    BY <1>6 DEF Credits
  <2>2. UNCHANGED <<request, step, linked, ledger, toScan, merged, broken>>
    BY <1>6 DEF Credits
  <2>3. ScanWallets' = ScanWallets
    BY <2>2 DEF ScanWallets
  <2>4. credited' \in [Chain -> Players \cup {None}] /\ \A y \in Chain : credited[y] # None => credited'[y] = credited[y]
    BY <2>1 DEF ForensicsTypeOK
  <2>5. ForensicsTypeOK' /\ RequestIsSound'
    BY <2>2, <2>4 DEF ForensicsTypeOK, RequestIsSound
  <2>6. \A y \in ledger : linked # None /\ credited'[y] = linked
    BY <2>4 DEF ScannedInv, ForensicsTypeOK
  <2>7. ScannedInv'
    BY <2>2, <2>3, <2>6 DEF ScannedInv
  <2> QED
    BY <2>5, <2>7
<1>7. CASE Analyses
  BY <1>7 DEF Analyses, ForensicsTypeOK, RequestIsSound, ScannedInv
<1> QED
  BY <1>1, <1>2, <1>3, <1>4, <1>5, <1>6, <1>7 DEF ForensicsNext

LEMMA ForensicsKeep == ForensicsSpec => []ForensicsInv
  BY ForensicsBegins, ForensicsStep, PTL DEF ForensicsSpec

\* The answer shows every transaction it found once, every deposit of the
\* account's wallet unless the explorer failed, and none as credited that is not.
THEOREM AnswersAreComplete == ForensicsSpec => [](ForensicsTypeOK /\ EachIsShownOnce /\ DepositsAreShown)
<1>1. ASSUME ForensicsInv PROVE EachIsShownOnce
  <2> SUFFICES ASSUME step = "done"
               PROVE  /\ onChainDepositsToGame \cap chainSample = {}
                      /\ merged = onChainDepositsToGame \cup chainSample
                                  \cup {x \in merged : x.to = "game" /\ ~x.worth}
    BY DEF EachIsShownOnce
  <2>1. ScanWallets \subseteq Wallets /\ merged \subseteq Chain
    BY <1>1, ScansAreWallets DEF ForensicsInv, ForensicsTypeOK
  <2>2. ASSUME NEW x \in merged
        PROVE  x.worth \in BOOLEAN /\ (x.to = "game" => x.from \in ScanWallets)
               /\ (x.from \in ScanWallets \/ x.to \in ScanWallets)
    BY <1>1, <2>1, ForensicsAssumption DEF ForensicsInv, ScannedInv
  <2> QED
    BY <2>2 DEF onChainDepositsToGame, chainSample
<1>2. ASSUME ForensicsInv PROVE DepositsAreShown
  <2> SUFFICES ASSUME step = "done", linked # None, NEW x \in Chain,
                      x.to = "game", x.worth, x.from = WalletOf[linked]
               PROVE  /\ x \in onChainDepositsToGame \/ x.from \in broken
                      /\ x \in inLedger => credited[x] = linked
    BY DEF DepositsAreShown
  <2>1. x.from \in ScanWallets
    BY ForensicsAssumption DEF ScanWallets
  <2> QED
    BY <1>2, <2>1 DEF ForensicsInv, ScannedInv, onChainDepositsToGame, inLedger
<1>3. ForensicsInv => ForensicsTypeOK
  BY DEF ForensicsInv
<1> QED
  BY <1>1, <1>2, <1>3, ForensicsKeep, PTL

-----------------------------------------------------------------------------
(* The backups.                                                             *)

WholeGz(f) == f.kind = "gz" /\ f.whole

\* How far a pipeline is says what it works on.
PipesInv ==
    \A c \in Calls :
        /\ pipe[c].pc = "idle" <=> pipe[c] = NoPipe
        /\ pipe[c].pc = "writes" => pipe[c].what \in {"sql", "tar"}
        /\ pipe[c].pc = "gzips" => pipe[c].what = "sql"
        /\ pipe[c].pc = "copies" => pipe[c].what = "gz"
        /\ pipe[c].pc \in {"uploads", "prunes"} => pipe[c].what \in {"gz", "tar"}

\* While no two dumps are begun in one second, each has its file to itself.
OwnFilesInv ==
    "sameSecond" \notin mishap =>
        /\ \A c, d \in Calls :
              pipe[c].what = "sql" /\ pipe[d].what = "sql" /\ pipe[c].begun = pipe[d].begun => c = d
        /\ \A c \in Calls, f \in files : pipe[c].what = "sql" /\ f.begun = pipe[c].begun => f.kind # "gz"
        /\ \A c \in Calls, f \in files :
              pipe[c].pc = "gzips" /\ f.begun = pipe[c].begun /\ f.kind = "sql" => f.whole

\* A pipeline that has its dump prunes in the presence of one as young.
YoungestInv ==
    mishap = {} =>
        /\ \A c \in Calls : pipe[c].what = "gz" => \E f \in files : WholeGz(f) /\ f.begun >= pipe[c].begun
        /\ hadDump => \E f \in files : WholeGz(f)

BackupsInv == BackupsTypeOK /\ PipesInv /\ OwnFilesInv /\ YoungestInv

LEMMA BackupsBegin == BackupsInit => BackupsInv
<1> SUFFICES ASSUME BackupsInit PROVE BackupsInv
  OBVIOUS
<1>1. BackupsTypeOK
  <2> DEFINE Pipes == [pc : {"idle", "writes", "gzips", "copies", "uploads", "prunes"},
                       what : {"none", "tar"} \cup Dumps, begun : 0 .. stamp]
  <2>1. NoPipe \in Pipes
    BY DEF BackupsInit, NoPipe, Pipe
  <2>2. pipe = [c \in Calls |-> NoPipe]
    BY DEF BackupsInit
  <2>3. pipe \in [Calls -> Pipes]
    <3> HIDE DEF Pipes
    <3> QED
      BY <2>1, <2>2
  <2>4. stamp \in 0 .. LastStamp /\ files = {} /\ timers = {"cron", "db", "site"} /\ hadDump = FALSE /\ mishap = {}
    BY BackupsAssumption DEF BackupsInit
  <2> QED
    BY <2>3, <2>4 DEF BackupsTypeOK
<1>2. PipesInv
  BY DEF BackupsInit, PipesInv, NoPipe, Pipe
<1>3. OwnFilesInv /\ YoungestInv
  BY DEF BackupsInit, OwnFilesInv, YoungestInv, NoPipe, Pipe
<1> QED
  BY <1>1, <1>2, <1>3 DEF BackupsInv

\* Only the pipeline's own progress changes.
LEMMA PipeMoves ==
    ASSUME BackupsInv, NEW c \in Calls, NEW q, pipe' = [pipe EXCEPT ![c] = q],
           q \in [pc : {"idle", "writes", "gzips", "copies", "uploads", "prunes"},
                  what : {"none", "tar"} \cup Dumps, begun : 0 .. stamp],
           q = NoPipe \/ (q.pc \in {"uploads", "prunes"} /\ q.what = pipe[c].what
                          /\ q.begun = pipe[c].begun /\ q.what \in {"gz", "tar"}),
           UNCHANGED <<stamp, files, timers, hadDump, mishap>>
    PROVE  BackupsInv'
<1>1. /\ \A d \in Calls : d # c => pipe'[d] = pipe[d]
      /\ pipe'[c] = q
  BY DEF BackupsInv, BackupsTypeOK
<1>2. BackupsTypeOK'
  BY DEF BackupsInv, BackupsTypeOK
<1>3. PipesInv'
  BY <1>1 DEF BackupsInv, PipesInv, NoPipe, Pipe
<1>4. NoPipe.what = "none" /\ NoPipe.pc = "idle"
  BY DEF NoPipe, Pipe
<1>5. OwnFilesInv'
  BY <1>1, <1>4 DEF BackupsInv, OwnFilesInv
<1>6. YoungestInv'
  BY <1>1, <1>4 DEF BackupsInv, YoungestInv, WholeGz
<1> QED
  BY <1>2, <1>3, <1>5, <1>6 DEF BackupsInv

LEMMA BackupsStep == ASSUME BackupsInv, [BackupsNext]_backupsVars PROVE BackupsInv'
<1> DEFINE Pipes == [pc : {"idle", "writes", "gzips", "copies", "uploads", "prunes"},
                     what : {"none", "tar"} \cup Dumps, begun : 0 .. stamp]
<1>0. /\ stamp \in Nat /\ pipe \in [Calls -> Pipes] /\ NoPipe \in Pipes
      /\ files \subseteq [kind : Dumps, begun : 0 .. stamp, whole : BOOLEAN]
      /\ NoPipe.what = "none" /\ NoPipe.pc = "idle" /\ NoPipe.begun = 0
  BY BackupsAssumption DEF BackupsInv, BackupsTypeOK, NoPipe, Pipe
<1>1. CASE UNCHANGED backupsVars
  BY <1>1 DEF backupsVars, BackupsInv, BackupsTypeOK, PipesInv, OwnFilesInv, YoungestInv
<1>2. CASE ServerRestarts
  <2>1. /\ \A c \in Calls : pipe'[c] = NoPipe
        /\ pipe' \in [Calls -> Pipes]
        /\ timers' = {"cron", "db", "site"}
        /\ UNCHANGED <<stamp, files, hadDump, mishap>>
    BY <1>0, <1>2 DEF ServerRestarts
  <2>2. BackupsTypeOK'
    BY <2>1 DEF BackupsInv, BackupsTypeOK
  <2>3. PipesInv' /\ OwnFilesInv'
    BY <1>0, <2>1 DEF PipesInv, OwnFilesInv
  <2>4. YoungestInv'
    BY <1>0, <2>1 DEF BackupsInv, YoungestInv
  <2> QED
    BY <2>2, <2>3, <2>4 DEF BackupsInv
<1>3. CASE StampPasses
  <2>1. /\ stamp' = stamp + 1 /\ stamp' \in 0 .. LastStamp
        /\ timers' \subseteq {"cron", "db", "site"}
        /\ UNCHANGED <<files, pipe, hadDump, mishap>>
    BY <1>3, BackupsAssumption DEF StampPasses, BackupsInv, BackupsTypeOK
  <2>2. BackupsTypeOK'
    <3>1. 0 .. stamp \subseteq 0 .. stamp'
      BY <1>0, <2>1
    <3>2. files \subseteq [kind : Dumps, begun : 0 .. stamp', whole : BOOLEAN]
      BY <1>0, <3>1
    <3>3. pipe \in [Calls -> [pc : {"idle", "writes", "gzips", "copies", "uploads", "prunes"},
                              what : {"none", "tar"} \cup Dumps, begun : 0 .. stamp']]
      BY <1>0, <3>1
    <3> QED
      BY <2>1, <3>2, <3>3 DEF BackupsInv, BackupsTypeOK
  <2>3. PipesInv' /\ OwnFilesInv' /\ YoungestInv'
    BY <2>1 DEF BackupsInv, PipesInv, OwnFilesInv, YoungestInv
  <2> QED
    BY <2>2, <2>3 DEF BackupsInv
<1>4. CASE PageUnlinks
  <2>1. PICK f \in files : f.kind = "sql" /\ files' = files \ {f}
    BY <1>4 DEF PageUnlinks
  <2>2. UNCHANGED <<stamp, timers, pipe, hadDump, mishap>>
    BY <1>4 DEF PageUnlinks
  <2>3. BackupsTypeOK' /\ PipesInv' /\ OwnFilesInv'
    BY <2>1, <2>2 DEF BackupsInv, BackupsTypeOK, PipesInv, OwnFilesInv
  <2>4. YoungestInv'
    BY <2>1, <2>2 DEF BackupsInv, YoungestInv, WholeGz
  <2> QED
    BY <2>3, <2>4 DEF BackupsInv
<1>5. ASSUME NEW c \in Calls, PipelineBegins(c) PROVE BackupsInv'
  <2>1. PICK t \in timers :
          /\ pipe[c] = NoPipe
          /\ timers' = timers \ {t}
          /\ files' = IF t = "site" THEN files
                      ELSE (files \ Named(files, "sql", stamp)) \cup {File("sql", stamp, FALSE)}
          /\ pipe' = [pipe EXCEPT ![c] = Pipe("writes", IF t = "site" THEN "tar" ELSE "sql", stamp)]
          /\ mishap' = mishap \cup
                (IF t # "site" /\ stamp \in DumpsBegun THEN {"sameSecond"} ELSE {})
          /\ UNCHANGED <<stamp, hadDump>>
    BY <1>5 DEF PipelineBegins
  <2> DEFINE q == Pipe("writes", IF t = "site" THEN "tar" ELSE "sql", stamp)
             new == File("sql", stamp, FALSE)
  <2>2. /\ q.pc = "writes" /\ q.what = (IF t = "site" THEN "tar" ELSE "sql") /\ q.begun = stamp
        /\ q \in Pipes /\ q # NoPipe
    BY <1>0 DEF Pipe, Dumps
  <2>3. new.kind = "sql" /\ new.begun = stamp /\ new.whole = FALSE
        /\ new \in [kind : Dumps, begun : 0 .. stamp, whole : BOOLEAN]
    BY <1>0 DEF File, Dumps
  <2>4. /\ \A d \in Calls : d # c => pipe'[d] = pipe[d]
        /\ pipe'[c] = q /\ pipe' \in [Calls -> Pipes]
        /\ \A f \in files' : f \in files \/ (t # "site" /\ f = new)
        /\ \A f \in files : f.kind = "gz" => f \in files'
    BY <1>0, <2>1, <2>2 DEF Named
  <2>5. "sameSecond" \notin mishap' =>
          /\ "sameSecond" \notin mishap
          /\ t # "site" => /\ \A f \in files : f.begun # stamp
                           /\ \A d \in Calls : pipe[d].what = "sql" => pipe[d].begun # stamp
    BY <2>1 DEF DumpsBegun, Dumps
  <2> HIDE DEF q, new
  <2>6. BackupsTypeOK'
    BY <2>1, <2>3, <2>4 DEF BackupsInv, BackupsTypeOK, q, new
  <2>7. PipesInv'
    BY <2>2, <2>4 DEF BackupsInv, PipesInv
  <2>8. OwnFilesInv'
    <3> SUFFICES ASSUME "sameSecond" \notin mishap' PROVE OwnFilesInv'
      BY DEF OwnFilesInv
    <3>1. "sameSecond" \notin mishap
      BY <2>5
    <3>2. CASE t = "site"
      <4>1. pipe'[c].what = "tar" /\ pipe'[c].pc = "writes" /\ \A f \in files' : f \in files
        BY <2>2, <2>4, <3>2
      <4> QED
        BY <2>4, <3>1, <4>1 DEF BackupsInv, OwnFilesInv
    <3>3. CASE t # "site"
      <4>1. pipe'[c].what = "sql" /\ pipe'[c].pc = "writes" /\ pipe'[c].begun = stamp
        BY <2>2, <2>4, <3>3
      <4>2. /\ \A f \in files : f.begun # stamp
            /\ \A d \in Calls : pipe[d].what = "sql" => pipe[d].begun # stamp
            /\ \A d \in Calls : pipe[d].pc = "gzips" => pipe[d].what = "sql"
        BY <2>5, <3>3 DEF BackupsInv, PipesInv
      <4>3. \A d, g \in Calls :
              pipe'[d].what = "sql" /\ pipe'[g].what = "sql" /\ pipe'[d].begun = pipe'[g].begun => d = g
        BY <2>4, <3>1, <4>1, <4>2 DEF BackupsInv, OwnFilesInv
      <4>4. \A d \in Calls, f \in files' : pipe'[d].what = "sql" /\ f.begun = pipe'[d].begun => f.kind # "gz"
        BY <2>3, <2>4, <3>1, <4>1, <4>2 DEF BackupsInv, OwnFilesInv
      <4>5. \A d \in Calls, f \in files' :
              pipe'[d].pc = "gzips" /\ f.begun = pipe'[d].begun /\ f.kind = "sql" => f.whole
        BY <2>3, <2>4, <3>1, <4>1, <4>2 DEF BackupsInv, OwnFilesInv
      <4> QED
        BY <4>3, <4>4, <4>5 DEF OwnFilesInv
    <3> QED
      BY <3>2, <3>3
  <2>9. YoungestInv'
    BY <2>1, <2>2, <2>4 DEF BackupsInv, YoungestInv, WholeGz
  <2> QED
    BY <2>6, <2>7, <2>8, <2>9 DEF BackupsInv
<1>6. ASSUME NEW c \in Calls, DumpEnds(c) PROVE BackupsInv'
  <2> DEFINE p == pipe[c]
             q == Pipe(IF p.what = "tar" THEN "uploads" ELSE "gzips", p.what, p.begun)
             mine == Named(files, p.what, p.begun)
  <2>1. /\ p.pc = "writes" /\ p.what \in {"sql", "tar"} /\ p \in Pipes
        /\ files' = (files \ mine) \cup {File(f.kind, f.begun, TRUE) : f \in mine}
        /\ pipe' = [pipe EXCEPT ![c] = q]
        /\ UNCHANGED <<stamp, timers, hadDump, mishap>>
    BY <1>0, <1>6 DEF DumpEnds, BackupsInv, PipesInv
  <2>2. /\ q.pc = (IF p.what = "tar" THEN "uploads" ELSE "gzips") /\ q.what = p.what /\ q.begun = p.begun
        /\ q \in Pipes /\ q # NoPipe
    BY <1>0, <2>1 DEF Pipe
  <2> DEFINE finished == {File(f.kind, f.begun, TRUE) : f \in mine}
  <2>3. \A g \in finished : /\ g.kind = "sql" /\ g.begun = p.begun /\ g.whole
                        /\ g \in [kind : Dumps, begun : 0 .. stamp, whole : BOOLEAN]
                        /\ \E f \in files : f.kind = g.kind /\ f.begun = g.begun
    <3> SUFFICES ASSUME NEW g \in finished
                 PROVE  /\ g.kind = "sql" /\ g.begun = p.begun /\ g.whole
                        /\ g \in [kind : Dumps, begun : 0 .. stamp, whole : BOOLEAN]
                        /\ \E h \in files : h.kind = g.kind /\ h.begun = g.begun
      OBVIOUS
    <3>0. PICK f \in mine : g = File(f.kind, f.begun, TRUE)
      OBVIOUS
    <3>1. f \in files /\ f.kind = "sql" /\ f.begun = p.begun /\ p.begun \in 0 .. stamp
      BY <1>0, <2>1 DEF Named, Dumps
    <3> QED
      BY <3>0, <3>1 DEF File, Dumps
  <2>4. /\ \A d \in Calls : d # c => pipe'[d] = pipe[d]
        /\ pipe'[c] = q /\ pipe' \in [Calls -> Pipes]
    BY <1>0, <2>1, <2>2
  <2>5. /\ \A g \in files' : \/ g \in files /\ ~(g.kind = p.what /\ g.begun = p.begun)
                             \/ g.kind = "sql" /\ g.begun = p.begun /\ g.whole
        /\ \A f \in files : f.kind = "gz" => f \in files'
        /\ files' \subseteq [kind : Dumps, begun : 0 .. stamp, whole : BOOLEAN]
        /\ \A g \in files' : \E f \in files : f.kind = g.kind /\ f.begun = g.begun
    <3>1. \A g \in files' : (g \in files /\ g \notin mine) \/ g \in finished
      BY <2>1
    <3>2. \A g \in files : g \in mine <=> g.kind = p.what /\ g.begun = p.begun
      BY DEF Named
    <3> HIDE DEF mine, p, q, finished
    <3>4. \A f \in files : f.kind = "gz" => f \in files'
      BY <2>1, <3>2 DEF finished
    <3>5. files' \subseteq [kind : Dumps, begun : 0 .. stamp, whole : BOOLEAN]
      BY <1>0, <2>3, <3>1
    <3>6. \A g \in files' : \/ g \in files /\ ~(g.kind = p.what /\ g.begun = p.begun)
                            \/ g.kind = "sql" /\ g.begun = p.begun /\ g.whole
      BY <2>3, <3>1, <3>2
    <3>7. \A g \in files' : \E f \in files : f.kind = g.kind /\ f.begun = g.begun
      BY <2>3, <3>1
    <3> QED
      BY <3>4, <3>5, <3>6, <3>7
  <2> HIDE DEF q, mine, finished
  <2>6. BackupsTypeOK'
    BY <2>1, <2>4, <2>5 DEF BackupsInv, BackupsTypeOK
  <2>7. PipesInv'
    BY <2>1, <2>2, <2>4 DEF BackupsInv, PipesInv
  <2>8. OwnFilesInv'
    <3> SUFFICES ASSUME "sameSecond" \notin mishap PROVE OwnFilesInv'
      BY <2>1 DEF OwnFilesInv
    <3>1. /\ \A d, g \in Calls :
              pipe[d].what = "sql" /\ pipe[g].what = "sql" /\ pipe[d].begun = pipe[g].begun => d = g
          /\ \A d \in Calls, f \in files : pipe[d].what = "sql" /\ f.begun = pipe[d].begun => f.kind # "gz"
          /\ \A d \in Calls, f \in files :
              pipe[d].pc = "gzips" /\ f.begun = pipe[d].begun /\ f.kind = "sql" => f.whole
      BY DEF BackupsInv, OwnFilesInv
    <3>2. \A d \in Calls : pipe'[d].what = pipe[d].what /\ pipe'[d].begun = pipe[d].begun
      BY <2>2, <2>4
    <3>3. \A d, g \in Calls :
              pipe'[d].what = "sql" /\ pipe'[g].what = "sql" /\ pipe'[d].begun = pipe'[g].begun => d = g
      BY <3>1, <3>2
    <3>4. \A d \in Calls, f \in files' : pipe'[d].what = "sql" /\ f.begun = pipe'[d].begun => f.kind # "gz"
      BY <2>5, <3>1, <3>2
    <3>5. \A d \in Calls, f \in files' :
              pipe'[d].pc = "gzips" /\ f.begun = pipe'[d].begun /\ f.kind = "sql" => f.whole
      <4> SUFFICES ASSUME NEW d \in Calls, NEW f \in files', pipe'[d].pc = "gzips",
                          f.begun = pipe'[d].begun, f.kind = "sql"
                   PROVE  f.whole
        OBVIOUS
      <4>1. CASE d = c
        BY <2>1, <2>2, <2>4, <2>5, <4>1
      <4>2. CASE d # c
        BY <2>4, <2>5, <3>1, <4>2
      <4> QED
        BY <4>1, <4>2
    <3> QED
      BY <3>3, <3>4, <3>5 DEF OwnFilesInv
  <2>9. YoungestInv'
    <3>1. \A d \in Calls : pipe'[d].what = "gz" => pipe[d].what = "gz" /\ pipe'[d].begun = pipe[d].begun
      BY <2>1, <2>2, <2>4
    <3>2. \A f \in files : WholeGz(f) => f \in files'
      BY <2>5 DEF WholeGz
    <3>3. mishap' = mishap /\ hadDump' = hadDump
      BY <2>1
    <3> QED
      BY <3>1, <3>2, <3>3 DEF BackupsInv, YoungestInv
  <2> QED
    BY <2>6, <2>7, <2>8, <2>9 DEF BackupsInv
<1>7. ASSUME NEW c \in Calls, Gzips(c) PROVE BackupsInv'
  <2> DEFINE p == pipe[c]
             q == Pipe("copies", "gz", p.begun)
             mine == Named(files, "sql", p.begun)
             old == Named(files, "gz", p.begun)
             gz == {File("gz", f.begun, f.whole) : f \in mine}
  <2>1. /\ p.pc = "gzips" /\ p.what = "sql" /\ p \in Pipes /\ mine # {}
        /\ files' = (files \ (mine \cup old)) \cup gz
        /\ hadDump' = (hadDump \/ WholeDumps(gz) # {})
        /\ pipe' = [pipe EXCEPT ![c] = q]
        /\ UNCHANGED <<stamp, timers, mishap>>
    BY <1>0, <1>7 DEF Gzips, BackupsInv, PipesInv
  <2>2. /\ q.pc = "copies" /\ q.what = "gz" /\ q.begun = p.begun /\ q \in Pipes /\ q # NoPipe
    BY <1>0, <2>1 DEF Pipe, Dumps
  <2>3. /\ \A d \in Calls : d # c => pipe'[d] = pipe[d]
        /\ pipe'[c] = q /\ pipe' \in [Calls -> Pipes]
    BY <1>0, <2>1, <2>2
  <2>4. \A f \in mine : /\ f \in files /\ f.kind = "sql" /\ f.begun = p.begun /\ f.whole \in BOOLEAN
    BY <1>0 DEF Named
  <2>5. \A g \in gz : /\ g.kind = "gz" /\ g.begun = p.begun
                      /\ g \in [kind : Dumps, begun : 0 .. stamp, whole : BOOLEAN]
                      /\ \E f \in mine : g.whole = f.whole
    <3> SUFFICES ASSUME NEW f \in mine
                 PROVE  LET g == File("gz", f.begun, f.whole) IN
                        /\ g.kind = "gz" /\ g.begun = p.begun
                        /\ g \in [kind : Dumps, begun : 0 .. stamp, whole : BOOLEAN]
                        /\ g.whole = f.whole
      OBVIOUS
    <3>1. f.begun = p.begun /\ f.whole \in BOOLEAN /\ p.begun \in 0 .. stamp
      BY <2>1, <2>4
    <3> QED
      BY <3>1 DEF File, Dumps
  <2>6. /\ \A f \in files' : f \in files \/ f \in gz
        /\ \A f \in files' : f \in files => ~(f.begun = p.begun /\ f.kind \in {"sql", "gz"})
                             \/ f \in gz
        /\ gz \subseteq files'
        /\ \A f \in files : f.begun # p.begun => f \in files'
    BY <2>1 DEF Named
  <2>7. gz # {}
    BY <2>1
  <2> HIDE DEF q, mine, old, gz
  <2>8. BackupsTypeOK'
    <3>1. files' \subseteq [kind : Dumps, begun : 0 .. stamp, whole : BOOLEAN]
      BY <1>0, <2>5, <2>6
    <3>2. hadDump' \in BOOLEAN
      BY <2>1 DEF BackupsInv, BackupsTypeOK
    <3> QED
      BY <2>1, <2>3, <3>1, <3>2 DEF BackupsInv, BackupsTypeOK
  <2>9. PipesInv'
    BY <2>2, <2>3 DEF BackupsInv, PipesInv
  <2>10. OwnFilesInv'
    <3> SUFFICES ASSUME "sameSecond" \notin mishap PROVE OwnFilesInv'
      BY <2>1 DEF OwnFilesInv
    <3>1. /\ \A d, g \in Calls :
              pipe[d].what = "sql" /\ pipe[g].what = "sql" /\ pipe[d].begun = pipe[g].begun => d = g
          /\ \A d \in Calls, f \in files : pipe[d].what = "sql" /\ f.begun = pipe[d].begun => f.kind # "gz"
          /\ \A d \in Calls, f \in files :
              pipe[d].pc = "gzips" /\ f.begun = pipe[d].begun /\ f.kind = "sql" => f.whole
      BY DEF BackupsInv, OwnFilesInv
    <3>2. \A d \in Calls : pipe'[d].what = "sql" => d # c /\ pipe[d].what = "sql" /\ pipe[d].begun # p.begun
      BY <2>1, <2>2, <2>3, <3>1
    <3> QED
      BY <2>1, <2>2, <2>3, <2>5, <2>6, <3>1, <3>2 DEF OwnFilesInv
  <2>11. YoungestInv'
    <3> SUFFICES ASSUME mishap = {} PROVE YoungestInv'
      BY <2>1 DEF YoungestInv
    <3>1. \A f \in mine : f.whole
      BY <2>1, <2>4 DEF BackupsInv, OwnFilesInv
    <3>2. \A f \in files : WholeGz(f) => f \in files'
      <4>1. \A f \in files : f.begun = p.begun => f.kind # "gz"
        BY <2>1 DEF BackupsInv, OwnFilesInv
      <4> QED
        BY <2>6, <4>1 DEF WholeGz
    <3>3. PICK g \in gz : g.kind = "gz" /\ g.whole /\ g.begun = p.begun /\ g \in files'
      BY <2>5, <2>6, <2>7, <3>1
    <3>4. p.begun \in Nat
      BY <1>0, <2>1
    <3>5. \A d \in Calls : pipe'[d].what = "gz" => \E f \in files' : WholeGz(f) /\ f.begun >= pipe'[d].begun
      BY <2>2, <2>3, <3>2, <3>3, <3>4 DEF BackupsInv, YoungestInv, WholeGz
    <3> QED
      BY <3>3, <3>5 DEF YoungestInv, WholeGz
  <2> QED
    BY <2>8, <2>9, <2>10, <2>11 DEF BackupsInv
<1>8. ASSUME NEW c \in Calls, Copies(c) \/ CloudAnswers(c) PROVE BackupsInv'
  <2>1. PICK at \in {"uploads", "prunes"} : pipe' = [pipe EXCEPT ![c] = Pipe(at, @.what, @.begun)]
    BY <1>8 DEF Copies, CloudAnswers
  <2>2. pipe[c].what \in {"gz", "tar"} /\ UNCHANGED <<stamp, files, timers, hadDump, mishap>>
    BY <1>8 DEF Copies, CloudAnswers, BackupsInv, PipesInv
  <2> DEFINE q == Pipe(at, pipe[c].what, pipe[c].begun)
  <2>3. q \in Pipes /\ q.pc = at /\ q.what = pipe[c].what /\ q.begun = pipe[c].begun
        /\ pipe' = [pipe EXCEPT ![c] = q]
    BY <1>0, <2>1 DEF Pipe
  <2> HIDE DEF q
  <2> QED
    BY <2>2, <2>3, PipeMoves
<1>9. ASSUME NEW c \in Calls, Prunes(c) PROVE BackupsInv'
  <2> DEFINE p == pipe[c]
             old == {f \in files : IsOld(f.begun)}
  <2>1. /\ p.pc = "prunes" /\ p.what \in {"gz", "tar"} /\ p \in Pipes
        /\ files' = files \ old
        /\ mishap' = mishap \cup (IF p.what = "tar" /\ WholeDumps(old) # {} THEN {"site"} ELSE {})
                            \cup (IF p.what = "gz" /\ IsOld(p.begun) THEN {"slow"} ELSE {})
        /\ pipe' = [pipe EXCEPT ![c] = NoPipe]
        /\ UNCHANGED <<stamp, timers, hadDump>>
    BY <1>0, <1>9 DEF Prunes, BackupsInv, PipesInv
  <2>2. /\ \A d \in Calls : d # c => pipe'[d] = pipe[d]
        /\ pipe'[c] = NoPipe /\ pipe' \in [Calls -> Pipes]
    BY <1>0, <2>1
  <2>3. BackupsTypeOK'
    BY <2>1, <2>2 DEF BackupsInv, BackupsTypeOK
  <2>4. PipesInv'
    BY <1>0, <2>2 DEF BackupsInv, PipesInv
  <2>5. OwnFilesInv'
    BY <1>0, <2>1, <2>2 DEF BackupsInv, OwnFilesInv
  <2>6. YoungestInv'
    <3> SUFFICES ASSUME mishap' = {} PROVE YoungestInv'
      BY DEF YoungestInv
    <3>1. /\ mishap = {}
          /\ p.what = "tar" => WholeDumps(old) = {}
          /\ p.what = "gz" => ~IsOld(p.begun)
      BY <2>1
    <3>2. ASSUME NEW f \in files, WholeGz(f)
          PROVE  \E g \in files' : WholeGz(g) /\ g.begun >= f.begun
      <4>1. CASE f \notin old
        <5>1. f \in files' /\ f.begun \in Nat
          BY <1>0, <2>1, <4>1
        <5> QED
          BY <3>2, <5>1
      <4>2. CASE f \in old
        <5>1. p.what = "gz"
          BY <2>1, <3>1, <3>2, <4>2 DEF WholeDumps, WholeGz
        <5>2. PICK g \in files : WholeGz(g) /\ g.begun >= p.begun
          BY <3>1, <5>1 DEF BackupsInv, YoungestInv
        <5>3. g.begun \in Nat /\ f.begun \in Nat /\ p.begun \in Nat
          BY <1>0, <2>1
        <5>4. ~IsOld(g.begun) /\ g.begun >= f.begun
          BY <1>0, <3>1, <4>2, <5>1, <5>2, <5>3, BackupsAssumption DEF IsOld
        <5> QED
          BY <2>1, <5>2, <5>4
      <4> QED
        BY <4>1, <4>2
    <3>3. ASSUME NEW d \in Calls, pipe'[d].what = "gz"
          PROVE  \E f \in files' : WholeGz(f) /\ f.begun >= pipe'[d].begun
      <4>1. d # c /\ pipe'[d] = pipe[d] /\ pipe[d].begun \in Nat
        BY <1>0, <2>2, <3>3
      <4>2. PICK f \in files : WholeGz(f) /\ f.begun >= pipe[d].begun
        BY <3>1, <3>3, <4>1 DEF BackupsInv, YoungestInv
      <4>3. PICK g \in files' : WholeGz(g) /\ g.begun >= f.begun
        BY <3>2, <4>2
      <4>4. f.begun \in Nat /\ g.begun \in Nat
        BY <1>0, <2>1, <4>2, <4>3
      <4>5. g.begun >= pipe[d].begun
        BY <4>1, <4>2, <4>3, <4>4
      <4> QED
        BY <4>1, <4>3, <4>5
    <3>4. hadDump' => \E f \in files' : WholeGz(f)
      BY <2>1, <3>1, <3>2 DEF BackupsInv, YoungestInv
    <3> QED
      BY <3>3, <3>4 DEF YoungestInv
  <2> QED
    BY <2>3, <2>4, <2>5, <2>6 DEF BackupsInv
<1>10. ASSUME NEW c \in Calls, PipelineFails(c) PROVE BackupsInv'
  <2>1. /\ pipe' = [pipe EXCEPT ![c] = NoPipe]
        /\ UNCHANGED <<stamp, files, timers, hadDump, mishap>>
    BY <1>10 DEF PipelineFails, PipelineGivesUp
  <2> QED
    BY <1>0, <2>1, PipeMoves
<1> QED
  BY <1>1, <1>2, <1>3, <1>4, <1>5, <1>6, <1>7, <1>8, <1>9, <1>10 DEF BackupsNext, backupsVars

LEMMA BackupsKeep == BackupsSpec => []BackupsInv
  BY BackupsBegin, BackupsStep, PTL DEF BackupsSpec

\* A pipeline prunes only beside a complete dump as young as its own: once there
\* was one there always is, unless a mishap is recorded.
THEOREM HistoryStays == BackupsSpec => [](BackupsTypeOK /\ HistoryIsKept)
<1>1. BackupsInv => BackupsTypeOK /\ HistoryIsKept
  <2> SUFFICES ASSUME BackupsInv, hadDump, mishap \cap {"sameSecond", "site", "slow"} = {}
               PROVE  WholeDumps(files) # {}
    BY DEF BackupsInv, HistoryIsKept
  <2>1. mishap = {}
    BY DEF BackupsInv, BackupsTypeOK
  <2> QED
    BY <2>1 DEF BackupsInv, YoungestInv, WholeDumps, WholeGz
<1> QED
  BY <1>1, BackupsKeep, PTL

-----------------------------------------------------------------------------
(* The boost.                                                               *)

\* The miner's boost was begun by a purchase, and no end lies further off than a
\* boost lasts.
BoundedInv ==
    /\ miner.boosted <=> miner.ends > 0
    /\ miner.boosted => \E b \in begun : miner.ends = b + Duration
    /\ \A b \in begun : b <= moment
    /\ paidUntil <= moment + Duration
    /\ \A c \in Calls : bcall[c].until <= moment + Duration

BoostInv == BoostTypeOK /\ BoundedInv /\ WorkIsBoostedInTime /\ PaidBoostRuns /\ BoostIsPaidOrDue

LEMMA BoostBegins == BoostInit => BoostInv
  BY BoostAssumption
     DEF BoostInit, BoostInv, BoostTypeOK, BoundedInv, WorkIsBoostedInTime, PaidBoostRuns,
         BoostIsPaidOrDue, NewMiner, Miner, BIdle, BCall

\* A purchase that ends, however it does: what was charged for at most grows to
\* the end of its boost.
LEMMA ChargeEnds ==
    ASSUME BoostInv, NEW c \in Calls, bcall' = [bcall EXCEPT ![c] = BIdle],
           UNCHANGED <<moment, begun, boostedAt, boosts>>,
           paidUntil' \in {paidUntil, bcall[c].until},
           miner' \in {miner, rollbackBoost(miner)}, bluck' \subseteq {"undone", "reply", "restart"}
    PROVE  BoostTypeOK' /\ BoundedInv' /\ WorkIsBoostedInTime'
<1>1. /\ \A d \in Calls : d # c => bcall'[d] = bcall[d]
      /\ bcall'[c].until = 0 /\ bcall'[c].pc = "idle"
      /\ bcall[c].until \in 0 .. LastNow + Duration /\ bcall[c].until <= moment + Duration
  BY DEF BoostInv, BoostTypeOK, BoundedInv, BIdle, BCall
<1>2. BoostTypeOK'
  <2>1. miner' \in [boosted : BOOLEAN, ends : 0 .. LastNow + Duration, active : BOOLEAN]
    <3>1. CASE miner' = miner
      BY <3>1 DEF BoostInv, BoostTypeOK
    <3>2. CASE miner' = rollbackBoost(miner)
      BY <3>2, BoostAssumption DEF BoostInv, BoostTypeOK, rollbackBoost, Miner
    <3> QED
      BY <3>1, <3>2
  <2>2. bcall' \in [Calls -> [pc : {"idle", "reads", "charges"}, until : 0 .. LastNow + Duration]]
    BY BoostAssumption DEF BoostInv, BoostTypeOK, BIdle, BCall
  <2> QED
    BY <1>1, <2>1, <2>2 DEF BoostInv, BoostTypeOK
<1>3. BoundedInv'
  <2>1. CASE miner' = miner
    BY <1>1, <2>1, BoostAssumption DEF BoostInv, BoostTypeOK, BoundedInv
  <2>2. CASE miner' = rollbackBoost(miner)
    BY <1>1, <2>2, BoostAssumption DEF BoostInv, BoostTypeOK, BoundedInv, rollbackBoost, Miner
  <2> QED
    BY <2>1, <2>2
<1>4. WorkIsBoostedInTime'
  BY DEF BoostInv, WorkIsBoostedInTime
<1> QED
  BY <1>2, <1>3, <1>4

LEMMA BoostStep == ASSUME BoostInv, [BoostNext]_boostVars PROVE BoostInv'
<1> USE BoostAssumption
<1>1. CASE UNCHANGED boostVars
  BY <1>1 DEF boostVars, BoostInv, BoostTypeOK, BoundedInv, WorkIsBoostedInTime, PaidBoostRuns, BoostIsPaidOrDue
<1>2. CASE ClockMoves
  <2>1. BoostTypeOK' /\ BoundedInv'
    BY <1>2 DEF ClockMoves, BoostInv, BoostTypeOK, BoundedInv
  <2>2. WorkIsBoostedInTime' /\ PaidBoostRuns' /\ BoostIsPaidOrDue'
    BY <1>2 DEF ClockMoves, BoostInv, BoostTypeOK, BoundedInv, WorkIsBoostedInTime, PaidBoostRuns, BoostIsPaidOrDue
  <2> QED
    BY <2>1, <2>2 DEF BoostInv
<1>3. CASE tick
  <2>1. CASE IsOver(miner)
    <3>1. /\ miner' = Miner(FALSE, 0, miner.active) /\ boostedAt' = boostedAt
          /\ UNCHANGED <<moment, bcall, begun, paidUntil, boosts, bluck>>
      BY <1>3, <2>1 DEF tick, Miner
    <3>2. BoostTypeOK' /\ BoundedInv'
      BY <3>1 DEF BoostInv, BoostTypeOK, BoundedInv, Miner
    <3>3. WorkIsBoostedInTime' /\ PaidBoostRuns' /\ BoostIsPaidOrDue'
      BY <2>1, <3>1 DEF BoostInv, BoostTypeOK, WorkIsBoostedInTime, PaidBoostRuns, BoostIsPaidOrDue, IsOver, Miner
    <3> QED
      BY <3>2, <3>3 DEF BoostInv
  <2>2. CASE ~IsOver(miner)
    <3>1. /\ boostedAt' = boostedAt \cup IF miner.active /\ miner.boosted THEN {moment} ELSE {}
          /\ UNCHANGED <<miner, moment, bcall, begun, paidUntil, boosts, bluck>>
      BY <1>3, <2>2 DEF tick
    <3>2. BoostTypeOK'
      BY <3>1 DEF BoostInv, BoostTypeOK
    <3>3. BoundedInv'
      BY <3>1 DEF BoostInv, BoundedInv
    <3>4. PaidBoostRuns' /\ BoostIsPaidOrDue'
      BY <3>1 DEF BoostInv, PaidBoostRuns, BoostIsPaidOrDue
    <3>5. WorkIsBoostedInTime'
      BY <2>2, <3>1 DEF BoostInv, BoostTypeOK, BoundedInv, WorkIsBoostedInTime, IsOver
    <3> QED
      BY <3>2, <3>3, <3>4, <3>5 DEF BoostInv
  <2> QED
    BY <2>1, <2>2
<1>4. CASE setActive
  <2>1. PICK works \in BOOLEAN : miner' = Miner(miner.boosted, miner.ends, works)
    BY <1>4 DEF setActive
  <2>2. /\ miner'.boosted = miner.boosted /\ miner'.ends = miner.ends
        /\ boosts' \in 0 .. MaxBoosts
        /\ UNCHANGED <<moment, bcall, begun, boostedAt, paidUntil, bluck>>
    BY <1>4, <2>1 DEF setActive, OneMore, Miner, BoostInv, BoostTypeOK
  <2>3. miner' \in [boosted : BOOLEAN, ends : 0 .. LastNow + Duration, active : BOOLEAN]
    BY <2>1 DEF Miner, BoostInv, BoostTypeOK
  <2>4. BoostTypeOK'
    BY <2>2, <2>3 DEF BoostInv, BoostTypeOK
  <2>5. BoundedInv'
    BY <2>2 DEF BoostInv, BoundedInv
  <2>6. WorkIsBoostedInTime' /\ PaidBoostRuns' /\ BoostIsPaidOrDue'
    BY <2>2 DEF BoostInv, WorkIsBoostedInTime, PaidBoostRuns, BoostIsPaidOrDue
  <2> QED
    BY <2>4, <2>5, <2>6 DEF BoostInv
<1>5. CASE EngineRestarts
  <2>1. BoostTypeOK' /\ BoundedInv'
    BY <1>5 DEF EngineRestarts, BoostInv, BoostTypeOK, BoundedInv, NewMiner, Miner, BIdle, BCall
  <2>2. WorkIsBoostedInTime' /\ PaidBoostRuns' /\ BoostIsPaidOrDue'
    BY <1>5 DEF EngineRestarts, BoostInv, WorkIsBoostedInTime, PaidBoostRuns, BoostIsPaidOrDue, NewMiner, Miner
  <2> QED
    BY <2>1, <2>2 DEF BoostInv
<1>6. ASSUME NEW c \in Calls, applyBoost(c) PROVE BoostInv'
  <2>1. /\ \A d \in Calls : d # c => bcall'[d] = bcall[d]
        /\ bcall'[c].until = moment + Duration /\ bcall'[c].pc = "reads"
        /\ bcall' \in [Calls -> [pc : {"idle", "reads", "charges"}, until : 0 .. LastNow + Duration]]
        /\ miner'.boosted /\ miner'.ends = moment + Duration
        /\ miner' \in [boosted : BOOLEAN, ends : 0 .. LastNow + Duration, active : BOOLEAN]
        /\ begun' = begun \cup {moment}
        /\ boosts' \in 0 .. MaxBoosts
        /\ UNCHANGED <<moment, boostedAt, paidUntil, bluck>>
    BY <1>6 DEF applyBoost, OneMore, BCall, Miner, BoostInv, BoostTypeOK
  <2>2. BoostTypeOK'
    BY <2>1 DEF BoostInv, BoostTypeOK
  <2>3. BoundedInv'
    BY <2>1 DEF BoostInv, BoostTypeOK, BoundedInv
  <2>4. WorkIsBoostedInTime'
    BY <2>1 DEF BoostInv, WorkIsBoostedInTime
  <2>5. PaidBoostRuns'
    BY <2>1 DEF BoostInv, BoundedInv, PaidBoostRuns
  <2>6. BoostIsPaidOrDue'
    BY <2>1 DEF BoostIsPaidOrDue
  <2> QED
    BY <2>2, <2>3, <2>4, <2>5, <2>6 DEF BoostInv
<1>7. ASSUME NEW c \in Calls, FindsMoney(c) PROVE BoostInv'
  <2>1. /\ \A d \in Calls : bcall'[d].until = bcall[d].until /\ (bcall[d].pc # "idle" => bcall'[d].pc # "idle")
        /\ bcall' \in [Calls -> [pc : {"idle", "reads", "charges"}, until : 0 .. LastNow + Duration]]
        /\ UNCHANGED <<moment, miner, begun, boostedAt, paidUntil, boosts, bluck>>
    BY <1>7 DEF FindsMoney, BCall, BoostInv, BoostTypeOK
  <2>2. BoostTypeOK'
    BY <2>1 DEF BoostInv, BoostTypeOK
  <2>3. BoundedInv'
    BY <2>1 DEF BoostInv, BoundedInv
  <2>4. WorkIsBoostedInTime' /\ PaidBoostRuns' /\ BoostIsPaidOrDue'
    BY <2>1 DEF BoostInv, WorkIsBoostedInTime, PaidBoostRuns, BoostIsPaidOrDue
  <2> QED
    BY <2>2, <2>3, <2>4 DEF BoostInv
<1>8. ASSUME NEW c \in Calls, ChargeCommits(c) PROVE BoostInv'
  <2>1. BoostTypeOK' /\ BoundedInv' /\ WorkIsBoostedInTime'
    BY <1>8, ChargeEnds DEF ChargeCommits, BoostInv, BoostTypeOK
  <2>2. /\ bcall[c].until \in Nat /\ paidUntil \in Nat /\ moment \in Nat /\ miner.ends \in Nat
        /\ paidUntil' >= bcall[c].until /\ paidUntil' >= paidUntil
        /\ paidUntil' \in {paidUntil, bcall[c].until}
        /\ \A d \in Calls : d # c => bcall'[d] = bcall[d]
        /\ UNCHANGED <<moment, miner>>
        /\ bluck' = {} => bluck = {} /\ ~WasUndone(c)
    BY <1>8 DEF ChargeCommits, BoostInv, BoostTypeOK
  <2>3. PaidBoostRuns'
    BY <2>2 DEF BoostInv, BoundedInv, PaidBoostRuns, WasUndone
  <2>4. BoostIsPaidOrDue'
    BY <2>2 DEF BoostInv, BoostIsPaidOrDue
  <2> QED
    BY <2>1, <2>3, <2>4 DEF BoostInv
<1>9. ASSUME NEW c \in Calls, ChargeFails(c) PROVE BoostInv'
  <2>1. PICK lost \in BOOLEAN :
          /\ paidUntil' = IF lost /\ bcall[c].until > paidUntil THEN bcall[c].until ELSE paidUntil
          /\ bluck' = bluck \cup (IF lost THEN {"reply"} ELSE {})
                            \cup (IF moment < paidUntil /\ miner.boosted THEN {"undone"} ELSE {})
    BY <1>9 DEF ChargeFails
  <2>2. /\ bluck' \subseteq {"undone", "reply", "restart"}
        /\ paidUntil' \in {paidUntil, bcall[c].until}
        /\ miner' = rollbackBoost(miner)
        /\ bcall' = [bcall EXCEPT ![c] = BIdle]
        /\ UNCHANGED <<moment, begun, boostedAt, boosts>>
    BY <1>9, <2>1 DEF ChargeFails, BoostInv, BoostTypeOK
  <2>3. BoostTypeOK' /\ BoundedInv' /\ WorkIsBoostedInTime'
    BY <2>2, ChargeEnds
  <2>4. PaidBoostRuns'
    BY <2>1, <2>2 DEF BoostInv, BoostTypeOK, PaidBoostRuns, rollbackBoost, Miner
  <2>5. BoostIsPaidOrDue'
    BY <2>2 DEF BoostIsPaidOrDue, rollbackBoost, Miner
  <2> QED
    BY <2>3, <2>4, <2>5 DEF BoostInv
<1> QED
  BY <1>1, <1>2, <1>3, <1>4, <1>5, <1>6, <1>7, <1>8, <1>9 DEF BoostNext

LEMMA BoostKeeps == BoostSpec => []BoostInv
  BY BoostBegins, BoostStep, PTL DEF BoostSpec

\* However late ticks, charges and failures come, work counts as boosted only
\* within the time of a purchase, a boost that was paid for runs to its end
\* unless a mishap is recorded, and none runs that nobody is being charged for.
THEOREM BoostsArePaid == BoostSpec => [](BoostTypeOK /\ WorkIsBoostedInTime /\ PaidBoostRuns /\ BoostIsPaidOrDue)
<1>1. BoostInv => BoostTypeOK /\ WorkIsBoostedInTime /\ PaidBoostRuns /\ BoostIsPaidOrDue
  BY DEF BoostInv
<1> QED
  BY <1>1, BoostKeeps, PTL

-----------------------------------------------------------------------------
(* The blocks that the bootstrap loads.                                     *)

Falls(s) == \A i, j \in 1 .. Len(s) : i < j => s[i].number > s[j].number

LEMMA FeedConstants == HistoryLength \in Nat \ {0} /\ LastBlock \in Nat \ {0} /\ MaxDrops \in Nat
BY StateFeedAssumption

LEMMA NewestAreKept ==
    ASSUME NEW S, NEW s \in Seq(S), NEW n \in Nat
    PROVE  /\ NewestOf(s, n) \in Seq(S) /\ Len(NewestOf(s, n)) <= n /\ Len(NewestOf(s, n)) <= Len(s)
           /\ \A i \in 1 .. Len(NewestOf(s, n)) : i \in 1 .. Len(s) /\ NewestOf(s, n)[i] = s[i]
<1> DEFINE m == IF Len(s) < n THEN Len(s) ELSE n
<1>1. m \in Nat /\ m <= Len(s) /\ m <= n /\ Len(s) \in Nat
  OBVIOUS
<1>2. NewestOf(s, n) = SubSeq(s, 1, m)
  BY DEF NewestOf
<1> HIDE DEF m
<1>3. \A i \in 1 .. m : s[i] \in S
  BY <1>1
<1>4. /\ SubSeq(s, 1, m) \in Seq(S) /\ Len(SubSeq(s, 1, m)) = m
      /\ \A i \in 1 .. m : SubSeq(s, 1, m)[i] = s[i]
  <2>1. /\ SubSeq(s, 1, m) \in Seq(S)
        /\ Len(SubSeq(s, 1, m)) = IF 1 <= m THEN m - 1 + 1 ELSE 0
        /\ \A i \in 1 .. m - 1 + 1 : SubSeq(s, 1, m)[i] = s[1 + i - 1]
    BY <1>1, <1>3, SubSeqProperties
  <2>2. m - 1 + 1 = m /\ \A i \in 1 .. m : 1 + i - 1 = i
    BY <1>1
  <2> QED
    BY <1>1, <2>1, <2>2
<1> QED
  BY <1>1, <1>2, <1>4

\* A larger block put before a falling history keeps it falling.
LEMMA FrontFalls ==
    ASSUME NEW S, \A b \in S : b.number \in Int, NEW s \in Seq(S), NEW b \in S, Falls(s),
           \A i \in 1 .. Len(s) : s[i].number < b.number
    PROVE  <<b>> \o s \in Seq(S) /\ Falls(<<b>> \o s) /\ Len(<<b>> \o s) = Len(s) + 1
           /\ \A i \in 1 .. Len(<<b>> \o s) : (<<b>> \o s)[i] = IF i = 1 THEN b ELSE s[i - 1]
<1>1. <<b>> \in Seq(S) /\ Len(<<b>>) = 1 /\ <<b>>[1] = b /\ Len(s) \in Nat
  OBVIOUS
<1> DEFINE q == <<b>> \o s
<1>2. q \in Seq(S) /\ Len(q) = 1 + Len(s)
      /\ \A i \in 1 .. 1 + Len(s) : q[i] = IF i <= 1 THEN <<b>>[i] ELSE s[i - 1]
  BY <1>1, ConcatProperties
<1> HIDE DEF q
<1>3. \A i \in 1 .. Len(q) : q[i] = IF i = 1 THEN b ELSE s[i - 1]
  BY <1>1, <1>2
<1>4. Falls(q)
  <2> SUFFICES ASSUME NEW i \in 1 .. Len(q), NEW j \in 1 .. Len(q), i < j
               PROVE  q[i].number > q[j].number
    BY DEF Falls
  <2>1. j - 1 \in 1 .. Len(s) /\ q[j] = s[j - 1] /\ s[j - 1].number \in Int /\ b.number \in Int
    BY <1>1, <1>2, <1>3
  <2>2. CASE i = 1
    BY <1>3, <2>1, <2>2
  <2>3. CASE i # 1
    <3>1. i - 1 \in 1 .. Len(s) /\ i - 1 < j - 1 /\ q[i] = s[i - 1]
      BY <1>1, <1>2, <1>3, <2>3
    <3> QED
      BY <2>1, <3>1 DEF Falls
  <2> QED
    BY <2>2, <2>3
<1> QED
  BY <1>2, <1>3, <1>4 DEF q

LEMMA NewestFall ==
    ASSUME NEW S, NEW s \in Seq(S), NEW n \in Nat, Falls(s)
    PROVE  Falls(NewestOf(s, n))
BY NewestAreKept DEF Falls

LEMMA HighestOf ==
    ASSUME NEW ns, IsFiniteSet(ns), ns \subseteq Nat, ns # {}
    PROVE  Highest(ns) \in ns /\ \A m \in ns : m <= Highest(ns)
BY LargestThereIs DEF Highest

\* What `down` is: a function that says, of every set of numbers, the blocks
\* of these numbers from the highest down.
GoesDown(f, D, blocks) ==
    f = [ns \in D |-> IF ns = {} THEN <<>>
                      ELSE <<CHOOSE b \in blocks : b.number = Highest(ns)>> \o f[ns \ {Highest(ns)}]]

LEMMA HighestAdded ==
    ASSUME NEW n \in Nat, NEW ns \in SUBSET (1 .. n + 1), n + 1 \in ns
    PROVE  Highest(ns) = n + 1 /\ ns \ {n + 1} \in SUBSET (1 .. n)
<1>1. IsFiniteSet(ns) /\ ns \subseteq Nat /\ ns # {}
  <2>1. IsFiniteSet(1 .. n + 1)
    BY FS_Interval, n + 1 \in Int, 1 \in Int
  <2>2. ns \subseteq 1 .. n + 1
    OBVIOUS
  <2>3. IsFiniteSet(ns)
    <3> DEFINE T == 1 .. n + 1
    <3> HIDE DEF T
    <3> QED
      BY <2>1, <2>2, FS_Subset DEF T
  <2> QED
    BY <2>2, <2>3
<1>2. Highest(ns) \in ns /\ \A m \in ns : m <= Highest(ns)
  BY <1>1, HighestOf
<1> DEFINE h == Highest(ns)
<1>3. h \in 1 .. n + 1 /\ n + 1 <= h
  BY <1>2
<1> HIDE DEF h
<1>4. h = n + 1
  BY <1>3
<1>5. ns \ {n + 1} \in SUBSET (1 .. n)
  OBVIOUS
<1> QED
  BY <1>4, <1>5 DEF h

\* There is one: one for the numbers below n + 1 is that for those up to n,
\* gone on with.
LEMMA DownThereIs ==
    ASSUME NEW N \in Nat, NEW blocks
    PROVE  \E f : GoesDown(f, SUBSET (1 .. N), blocks)
<1> DEFINE Good(n) == \E f : GoesDown(f, SUBSET (1 .. n), blocks)
           Bad == {n \in Nat : ~Good(n)}
<1>1. SUFFICES ASSUME N \in Bad PROVE FALSE
  OBVIOUS
<1>2. PICK k \in Bad : \A b \in Bad : k <= b
  <2> HIDE DEF Bad
  <2>1. Bad \subseteq Nat
    BY DEF Bad
  <2> QED
    BY <1>1, <2>1, LeastThereIs
<1>3. k \in Nat /\ ~Good(k)
  BY <1>2
<1>4. CASE k = 0
  <2> DEFINE f == [ns \in SUBSET (1 .. 0) |-> <<>>]
  <2>1. SUBSET (1 .. 0) = {{}}
    OBVIOUS
  <2>2. GoesDown(f, SUBSET (1 .. 0), blocks)
    BY <2>1 DEF GoesDown
  <2> QED
    BY <1>3, <1>4, <2>2
<1>5. CASE k # 0
  <2> DEFINE n == k - 1
  <2>1. n \in Nat /\ n + 1 = k /\ n < k
    BY <1>3, <1>5
  <2> HIDE DEF n
  <2>2. Good(n)
    <3>1. n \notin Bad
      <4> HIDE DEF Bad
      <4> QED
        BY <1>2, <1>3, <2>1
    <3> QED
      BY <2>1, <3>1
  <2>3. PICK g : GoesDown(g, SUBSET (1 .. n), blocks)
    BY <2>2
  <2> DEFINE First(ns) == CHOOSE b \in blocks : b.number = Highest(ns)
             f == [ns \in SUBSET (1 .. k) |-> IF k \in ns THEN <<First(ns)>> \o g[ns \ {k}] ELSE g[ns]]
  <2>4. ASSUME NEW ns \in SUBSET (1 .. k)
        PROVE  f[ns] = IF ns = {} THEN <<>> ELSE <<First(ns)>> \o f[ns \ {Highest(ns)}]
    <3>1. CASE k \in ns
      <4>1. Highest(ns) = k /\ ns \ {k} \in SUBSET (1 .. n)
        BY <2>1, <3>1, HighestAdded
      <4>2. f[ns] = <<First(ns)>> \o g[ns \ {k}]
        BY <3>1
      <4>3. f[ns \ {k}] = g[ns \ {k}]
        OBVIOUS
      <4> QED
        BY <3>1, <4>1, <4>2, <4>3
    <3>2. CASE k \notin ns
      <4>1. ns \in SUBSET (1 .. n)
        BY <2>1, <3>2
      <4>2. g[ns] = IF ns = {} THEN <<>> ELSE <<First(ns)>> \o g[ns \ {Highest(ns)}]
        BY <2>3, <4>1 DEF GoesDown
      <4>3. f[ns] = g[ns] /\ f[ns \ {Highest(ns)}] = g[ns \ {Highest(ns)}]
        <5>1. k \notin ns \ {Highest(ns)} /\ ns \ {Highest(ns)} \in SUBSET (1 .. k)
          BY <3>2
        <5> QED
          BY <3>2, <5>1
      <4> HIDE DEF f, First
      <4> QED
        BY <4>2, <4>3
    <3> QED
      BY <3>1, <3>2
  <2>5. GoesDown(f, SUBSET (1 .. k), blocks)
    <3>1. f = [ns \in SUBSET (1 .. k) |-> f[ns]]
      OBVIOUS
    <3>2. [ns \in SUBSET (1 .. k) |-> f[ns]]
          = [ns \in SUBSET (1 .. k) |-> IF ns = {} THEN <<>> ELSE <<First(ns)>> \o f[ns \ {Highest(ns)}]]
      <4> HIDE DEF f, First
      <4> QED
        BY <2>4
    <3> HIDE DEF f
    <3> QED
      BY <3>1, <3>2 DEF GoesDown
  <2> HIDE DEF f
  <2> QED
    BY <1>3, <2>5
<1> QED
  BY <1>4, <1>5

\* Blocks of numbers up to a last one.
BlocksTo(N) == [number : 1 .. N, mine : BOOLEAN]

\* What the bootstrap loads are the newest blocks, the newest first.
LEMMA LoadedFall ==
    ASSUME NEW N \in Nat, NEW blocks \in SUBSET BlocksTo(N)
    PROVE  /\ loadRecentBlocks(blocks) \in Seq(blocks) /\ Falls(loadRecentBlocks(blocks))
           /\ Len(loadRecentBlocks(blocks)) <= HistoryLength
<1> DEFINE D == SUBSET Numbers(blocks)
           down == CHOOSE f : GoesDown(f, D, blocks)
           First(ns) == CHOOSE b \in blocks : b.number = Highest(ns)
<1>1. Numbers(blocks) \subseteq 1 .. N /\ \A n \in Numbers(blocks) : \E b \in blocks : b.number = n
  BY DEF Numbers, BlocksTo
<1>2. GoesDown(down, D, blocks)
  <2>1. PICK g : GoesDown(g, SUBSET (1 .. N), blocks)
    BY DownThereIs
  <2> DEFINE f == [ns \in D |-> g[ns]]
  <2>2. ASSUME NEW ns \in D
        PROVE  f[ns] = IF ns = {} THEN <<>> ELSE <<First(ns)>> \o f[ns \ {Highest(ns)}]
    <3>1. ns \in SUBSET (1 .. N) /\ ns \ {Highest(ns)} \in D
      BY <1>1
    <3>2. g[ns] = IF ns = {} THEN <<>> ELSE <<First(ns)>> \o g[ns \ {Highest(ns)}]
      BY <2>1, <3>1 DEF GoesDown
    <3>3. f[ns] = g[ns] /\ f[ns \ {Highest(ns)}] = g[ns \ {Highest(ns)}]
      BY <3>1
    <3> HIDE DEF f, First
    <3> QED
      BY <3>2, <3>3
  <2>3. f = [ns \in D |-> f[ns]]
    OBVIOUS
  <2>4. [ns \in D |-> f[ns]] = [ns \in D |-> IF ns = {} THEN <<>> ELSE <<First(ns)>> \o f[ns \ {Highest(ns)}]]
    <3> HIDE DEF f, First, D
    <3> QED
      BY <2>2
  <2>5. GoesDown(f, D, blocks)
    <3> HIDE DEF f, D
    <3> QED
      BY <2>3, <2>4 DEF GoesDown
  <2> HIDE DEF f, D
  <2> QED
    BY <2>5
<1>3. loadRecentBlocks(blocks) = NewestOf(down[Numbers(blocks)], HistoryLength)
  BY DEF loadRecentBlocks, GoesDown
<1> DEFINE Right(ns) == /\ down[ns] \in Seq(blocks) /\ Falls(down[ns])
                        /\ \A i \in 1 .. Len(down[ns]) : down[ns][i].number \in ns
<1> HIDE DEF down
<1>4. Right(Numbers(blocks))
  <2> DEFINE Bad == {n \in Nat : ~\A ns \in D : ns \subseteq 1 .. n => Right(ns)}
  <2>1. SUFFICES Bad = {}
    <3>1. N \notin Bad
      BY <2>1
    <3> QED
      BY <1>1, <3>1
  <2>2. SUFFICES ASSUME Bad # {} PROVE FALSE
    OBVIOUS
  <2>3. PICK k \in Bad : \A b \in Bad : k <= b
    <3>1. Bad \subseteq Nat
      OBVIOUS
    <3> HIDE DEF Bad
    <3> QED
      BY <2>2, <3>1, LeastThereIs
  <2>4. k \in Nat /\ \E ns \in D : ns \subseteq 1 .. k /\ ~Right(ns)
    BY <2>3
  <2>5. PICK ns \in D : ns \subseteq 1 .. k /\ ~Right(ns)
    BY <2>4
  <2>6. \A n \in Nat : n < k => n \notin Bad
    <3> HIDE DEF Bad
    <3> QED
      BY <2>3, <2>4
  <2>7. down[ns] = IF ns = {} THEN <<>> ELSE <<First(ns)>> \o down[ns \ {Highest(ns)}]
    BY <1>2 DEF GoesDown
  <2>8. ns # {}
    <3> SUFFICES ASSUME ns = {} PROVE FALSE
      OBVIOUS
    <3>1. down[ns] = <<>>
      BY <2>7
    <3>2. <<>> \in Seq(blocks) /\ Falls(<<>>) /\ Len(<<>>) = 0
      BY DEF Falls
    <3> QED
      BY <2>5, <3>1, <3>2
  <2> DEFINE h == Highest(ns)
             r == ns \ {h}
  <2>9. h \in ns /\ (\A m \in ns : m <= h) /\ ns \subseteq Nat
    <3>1. IsFiniteSet(1 .. k)
      BY <2>4, FS_Interval, 1 \in Int, k \in Int
    <3>2. IsFiniteSet(ns)
      <4> DEFINE T == 1 .. k
      <4> HIDE DEF T
      <4> QED
        BY <2>5, <3>1, FS_Subset DEF T
    <3>3. ns \subseteq Nat
      BY <2>4, <2>5
    <3> QED
      BY <2>8, <3>2, <3>3, HighestOf
  <2> HIDE DEF h
  <2>10. r \in D /\ h \in Nat /\ h >= 1 /\ h <= k /\ r \subseteq 1 .. h - 1 /\ r \subseteq ns
    BY <2>4, <2>5, <2>9
  <2>11. Right(r)
    <3>1. h - 1 \in Nat /\ h - 1 < k
      BY <2>4, <2>10
    <3>2. h - 1 \notin Bad
      BY <2>6, <3>1
    <3> QED
      BY <2>10, <3>1, <3>2
  <2>12. First(ns) \in blocks /\ First(ns).number = h
    <3>1. \E b \in blocks : b.number = h
      BY <1>1, <2>9
    <3> QED
      BY <3>1 DEF h
  <2> DEFINE a == First(ns)
             q == down[r]
  <2>13. down[ns] = <<a>> \o q
    BY <2>7, <2>8 DEF h
  <2>14. /\ a \in blocks /\ a.number = h /\ q \in Seq(blocks) /\ Falls(q)
         /\ \A i \in 1 .. Len(q) : q[i].number \in r
    BY <2>11, <2>12
  <2>15. (\A b \in blocks : b.number \in Int) /\ Len(q) \in Nat
    BY <2>14 DEF BlocksTo
  <2> HIDE DEF a, q
  <2>16. \A i \in 1 .. Len(q) : q[i].number < a.number
    BY <2>10, <2>14
  <2>17. /\ <<a>> \o q \in Seq(blocks) /\ Falls(<<a>> \o q) /\ Len(<<a>> \o q) = Len(q) + 1
         /\ \A i \in 1 .. Len(<<a>> \o q) : (<<a>> \o q)[i] = IF i = 1 THEN a ELSE q[i - 1]
    BY <2>14, <2>15, <2>16, FrontFalls
  <2>18. \A i \in 1 .. Len(<<a>> \o q) : (<<a>> \o q)[i].number \in ns
    <3> TAKE i \in 1 .. Len(<<a>> \o q)
    <3>1. CASE i = 1
      BY <2>9, <2>14, <2>17, <3>1
    <3>2. CASE i # 1
      <4>1. i - 1 \in 1 .. Len(q) /\ (<<a>> \o q)[i] = q[i - 1]
        BY <2>15, <2>17, <3>2
      <4> QED
        BY <2>10, <2>14, <4>1
    <3> QED
      BY <3>1, <3>2
  <2> QED
    BY <2>5, <2>13, <2>17, <2>18
<1> DEFINE all == down[Numbers(blocks)]
<1>5. all \in Seq(blocks) /\ Falls(all)
  BY <1>4
<1> HIDE DEF all
<1> QED
  BY <1>3, <1>5, NewestAreKept, NewestFall, FeedConstants DEF all

-----------------------------------------------------------------------------
(* The engine's blocks.                                                     *)

PageStates == [pc : {"off", "joins", "in", "visitor"}, shown : Seq(BlockSet)]

\* A socket's end that the server has yet to see or handle was a break.
SocketsInv ==
    /\ pageOf \in [Pages -> PageStates]
    /\ \A t \in Pages : Len(pageOf[t].shown) <= HistoryLength
    /\ minerConnected \in BOOLEAN /\ deaf \subseteq Pages
    /\ ghosts \in Nat /\ leaving \in Nat /\ orphans \in Nat /\ drops \in Nat
    /\ ghosts + leaving + orphans <= drops /\ drops <= MaxDrops

Below(n) ==
    /\ \A i \in 1 .. Len(blockHistory) : blockHistory[i].number < n
    /\ \A b \in written \cup writing : b.number < n

\* The next number is beyond every block's, once the bootstrap has set it.
NumbersInv ==
    /\ booting \notin {"empty", "halfway"} => Falls(blockHistory)
    /\ booting = "loads" => blockHistory = <<>> /\ writing = {}
    /\ booting = "numbers" =>
          /\ writing = {}
          /\ \A i \in 1 .. Len(blockHistory) : blockHistory[i] \in written
    /\ booting = "done" =>
          /\ Below(blockNumber)
          /\ \A b \in writing : Writable(b)
          /\ \A a, b \in writing : a.number = b.number => a = b

EngineTyped ==
    /\ blockHistory \in Seq(BlockSet) /\ Len(blockHistory) <= HistoryLength
    /\ blockNumber \in 1 .. LastBlock + 1
    /\ booting \in {"loads", "numbers", "done", "empty", "halfway"}
    /\ written \subseteq BlockSet /\ writing \subseteq BlockSet /\ told \in BOOLEAN

FeedInv == SocketsInv /\ EngineTyped /\ NumbersInv /\ HistoryIsShown

LEMMA FeedBegins == FeedInit => FeedInv
<1> SUFFICES ASSUME FeedInit PROVE FeedInv
  OBVIOUS
<1>0. <<>> \in Seq(BlockSet) /\ Len(<<>>) = 0
  OBVIOUS
<1>1. SocketsInv
  <2>1. Shows("off", <<>>) \in PageStates /\ Shows("off", <<>>).shown = <<>>
    BY <1>0 DEF PageStates, Shows
  <2>2. pageOf \in [Pages -> PageStates] /\ \A t \in Pages : Len(pageOf[t].shown) <= HistoryLength
    BY <1>0, <2>1, FeedConstants DEF FeedInit
  <2>3. /\ minerConnected \in BOOLEAN /\ told \in BOOLEAN /\ deaf \subseteq Pages
        /\ ghosts = 0 /\ leaving = 0 /\ orphans = 0 /\ drops = 0
    BY DEF FeedInit
  <2>4. 0 + 0 + 0 <= 0 /\ 0 <= MaxDrops
    BY FeedConstants
  <2> QED
    BY <2>2, <2>3, <2>4 DEF SocketsInv
<1>2. EngineTyped
  <2>1. /\ blockHistory = <<>> /\ blockNumber = 1 /\ booting = "loads" /\ told = FALSE
        /\ written = {Block(1, TRUE)} /\ writing = {}
    BY DEF FeedInit
  <2>2. 1 \in 1 .. LastBlock + 1 /\ 1 \in 1 .. LastBlock /\ 0 <= HistoryLength
    BY FeedConstants
  <2>3. Block(1, TRUE) \in BlockSet
    BY <2>2 DEF Block, BlockSet
  <2> HIDE DEF BlockSet
  <2> QED
    BY <1>0, <2>1, <2>2, <2>3 DEF EngineTyped
<1>3. NumbersInv
  BY <1>0 DEF FeedInit, NumbersInv, Falls
<1>4. HistoryIsShown
  BY DEF FeedInit, HistoryIsShown
<1> QED
  BY <1>1, <1>2, <1>3, <1>4 DEF FeedInv

LEMMA FeedImplies == FeedInv => FeedTypeOK /\ HistoryIsShown /\ BlocksAreNumberedOn
<1> SUFFICES ASSUME FeedInv PROVE FeedTypeOK /\ HistoryIsShown /\ BlocksAreNumberedOn
  OBVIOUS
<1>1. \A t \in Pages : pageOf[t] \in PageStates
  BY DEF FeedInv, SocketsInv
<1>2. {ghosts, leaving, orphans, drops} \subseteq 0 .. MaxDrops
  <2>1. /\ ghosts \in Nat /\ leaving \in Nat /\ orphans \in Nat /\ drops \in Nat
        /\ ghosts + leaving + orphans <= drops /\ drops <= MaxDrops
    BY DEF FeedInv, SocketsInv
  <2>2. ghosts \in 0 .. MaxDrops /\ leaving \in 0 .. MaxDrops /\ orphans \in 0 .. MaxDrops /\ drops \in 0 .. MaxDrops
    BY <2>1, FeedConstants
  <2> QED
    BY <2>2
<1>3. FeedTypeOK
  BY <1>1, <1>2 DEF FeedInv, SocketsInv, EngineTyped, FeedTypeOK, PageStates
<1>4. BlocksAreNumberedOn
  <2>1. DOMAIN blockHistory = 1 .. Len(blockHistory)
    BY DEF FeedInv, EngineTyped
  <2>2. booting \notin {"empty", "halfway"} => booting \in {"loads", "numbers", "done"}
    BY DEF FeedInv, EngineTyped
  <2>3. booting \in {"loads", "numbers", "done"} => \A b \in writing : Writable(b)
    BY DEF FeedInv, NumbersInv
  <2> QED
    BY <2>1, <2>2, <2>3 DEF FeedInv, NumbersInv, BlocksAreNumberedOn, Falls
<1> QED
  BY <1>3, <1>4 DEF FeedInv

LEMMA EngineStays ==
    ASSUME FeedInv, UNCHANGED engineVars
    PROVE  EngineTyped' /\ NumbersInv'
<1>1. UNCHANGED <<blockHistory, blockNumber, booting, written, writing, told>>
  BY DEF engineVars
<1>2. EngineTyped'
  BY <1>1 DEF FeedInv, EngineTyped
<1>3. NumbersInv'
  BY <1>1 DEF FeedInv, NumbersInv, Falls, Below, Writable
<1> QED
  BY <1>2, <1>3

LEMMA SocketsStay ==
    ASSUME FeedInv, UNCHANGED <<socketVars, drops>>
    PROVE  SocketsInv'
<1>1. UNCHANGED <<pageOf, minerConnected, ghosts, leaving, orphans, deaf, drops>>
  BY DEF socketVars
<1> QED
  BY <1>1 DEF FeedInv, SocketsInv

\* One page goes on to q.
LEMMA OnePageGoes ==
    ASSUME FeedInv, NEW t \in Pages, NEW q \in PageStates, Len(q.shown) <= HistoryLength,
           pageOf' = [pageOf EXCEPT ![t] = q]
    PROVE  /\ pageOf' \in [Pages -> PageStates]
           /\ \A d \in Pages : Len(pageOf'[d].shown) <= HistoryLength
           /\ pageOf'[t] = q /\ \A d \in Pages : d # t => pageOf'[d] = pageOf[d]
BY DEF FeedInv, SocketsInv

LEMMA PageIsTyped ==
    ASSUME FeedInv, NEW t \in Pages
    PROVE  /\ pageOf[t] \in PageStates /\ pageOf[t].shown \in Seq(BlockSet)
           /\ Len(pageOf[t].shown) <= HistoryLength
           /\ \A pc \in {"off", "joins", "in", "visitor"} :
                /\ Shows(pc, pageOf[t].shown) \in PageStates
                /\ [pageOf[t] EXCEPT !.pc = pc] = Shows(pc, pageOf[t].shown)
                /\ Shows(pc, pageOf[t].shown).shown = pageOf[t].shown /\ Shows(pc, pageOf[t].shown).pc = pc
BY DEF FeedInv, SocketsInv, PageStates, Shows

LEMMA HistoryIsTyped ==
    ASSUME NEW h \in Seq(BlockSet)
    PROVE  /\ VisitorsView(h) \in Seq(BlockSet) /\ Len(VisitorsView(h)) = Len(h)
           /\ \A pc \in {"off", "joins", "in", "visitor"} : Shows(pc, h) \in PageStates
<1>1. DOMAIN h = 1 .. Len(h) /\ Len(h) \in Nat
  OBVIOUS
<1>2. \A i \in 1 .. Len(h) : h[i].number \in 1 .. LastBlock
  <2>1. \A i \in 1 .. Len(h) : h[i] \in BlockSet
    OBVIOUS
  <2> QED
    BY <2>1 DEF BlockSet
<1>3. \A i \in 1 .. Len(h) : Block(h[i].number, FALSE) \in BlockSet
  BY <1>2 DEF Block, BlockSet
<1>4. VisitorsView(h) = [i \in 1 .. Len(h) |-> Block(h[i].number, FALSE)]
  BY <1>1 DEF VisitorsView
<1> HIDE DEF Block
<1>5. VisitorsView(h) \in [1 .. Len(h) -> BlockSet]
  BY <1>3, <1>4
<1>6. VisitorsView(h) \in Seq(BlockSet) /\ Len(VisitorsView(h)) = Len(h)
  BY <1>1, <1>5
<1> QED
  BY <1>6 DEF PageStates, Shows

LEMMA BootHolds ==
    ASSUME FeedInv, BootLoads \/ BootNumbers \/ BootBreaks
    PROVE  FeedInv'
<1>1. SocketsInv'
  BY SocketsStay DEF BootLoads, BootNumbers, BootBreaks
<1>2. CASE BootLoads
  <2>1. /\ booting = "loads" /\ booting' = "numbers" /\ told' = FALSE
        /\ UNCHANGED <<blockNumber, written, writing>>
        /\ blockHistory' = loadRecentBlocks(written)
    BY <1>2 DEF BootLoads
  <2>2. written \in SUBSET BlocksTo(LastBlock) /\ LastBlock \in Nat
    BY FeedConstants DEF FeedInv, EngineTyped, BlocksTo, BlockSet
  <2>3. blockHistory' \in Seq(written) /\ Falls(blockHistory') /\ Len(blockHistory') <= HistoryLength
    BY <2>1, <2>2, LoadedFall
  <2>4. blockHistory' \in Seq(BlockSet) /\ \A i \in 1 .. Len(blockHistory') : blockHistory'[i] \in written
    BY <2>3 DEF FeedInv, EngineTyped
  <2>5. EngineTyped'
    BY <2>1, <2>3, <2>4 DEF FeedInv, EngineTyped
  <2>6. NumbersInv'
    BY <2>1, <2>3, <2>4 DEF FeedInv, NumbersInv, Falls
  <2>7. HistoryIsShown'
    BY <2>1 DEF HistoryIsShown
  <2> QED
    BY <1>1, <2>5, <2>6, <2>7 DEF FeedInv
<1>3. CASE BootNumbers
  <2>1. /\ booting = "numbers" /\ booting' = "done" /\ blockNumber' = NextNumber
        /\ UNCHANGED <<pageOf, deaf, told, blockHistory, written, writing>>
    BY <1>3 DEF BootNumbers, socketVars
  <2> DEFINE ns == Numbers(written) \cup {0}
  <2>2. ns \subseteq 0 .. LastBlock /\ ns # {} /\ (\A b \in written : b.number \in ns /\ b.number \in 1 .. LastBlock)
    BY FeedConstants DEF FeedInv, EngineTyped, BlockSet, Numbers
  <2>3. IsFiniteSet(ns) /\ ns \subseteq Nat
    <3>1. IsFiniteSet(0 .. LastBlock)
      BY FeedConstants, FS_Interval, 0 \in Int, LastBlock \in Int
    <3>2. 0 .. LastBlock \subseteq Nat
      OBVIOUS
    <3> DEFINE T == 0 .. LastBlock
    <3> HIDE DEF ns, T
    <3> QED
      BY <2>2, <3>1, <3>2, FS_Subset DEF T
  <2> DEFINE h == Highest(ns)
  <2>4. h \in ns /\ \A m \in ns : m <= h
    <3> HIDE DEF ns
    <3> QED
      BY <2>2, <2>3, HighestOf
  <2>5. blockNumber' = h + 1
    BY <2>1 DEF NextNumber
  <2> HIDE DEF h, ns
  <2>6. h \in 0 .. LastBlock
    BY <2>2, <2>4
  <2>7. blockNumber' \in 1 .. LastBlock + 1 /\ \A b \in written : b.number < blockNumber'
    <3>1. ASSUME NEW b \in written PROVE b.number < h + 1
      BY <2>2, <2>4, <2>6
    <3> QED
      BY <2>5, <2>6, <3>1, FeedConstants
  <2>8. EngineTyped'
    BY <2>1, <2>7 DEF FeedInv, EngineTyped
  <2>9. NumbersInv'
    BY <2>1, <2>7 DEF FeedInv, NumbersInv, Falls, Below
  <2>10. HistoryIsShown'
    BY <2>1 DEF FeedInv, HistoryIsShown
  <2> QED
    BY <1>1, <2>8, <2>9, <2>10 DEF FeedInv
<1>4. CASE BootBreaks
  <2>1. /\ booting' \in {"empty", "halfway"}
        /\ UNCHANGED <<pageOf, deaf, told, blockHistory, blockNumber, written, writing>>
    BY <1>4 DEF BootBreaks, socketVars
  <2>2. EngineTyped'
    BY <2>1 DEF FeedInv, EngineTyped
  <2>3. NumbersInv'
    BY <2>1 DEF NumbersInv
  <2>4. HistoryIsShown'
    BY <2>1 DEF FeedInv, HistoryIsShown
  <2> QED
    BY <1>1, <2>2, <2>3, <2>4 DEF FeedInv
<1> QED
  BY <1>2, <1>3, <1>4

LEMMA BlocksHold ==
    ASSUME FeedInv, BlockCommits \/ BlockFails
    PROVE  FeedInv'
<1>0. booting \in {"loads", "numbers"} => writing = {}
  BY DEF FeedInv, NumbersInv
<1>1. SocketsInv'
  BY SocketsStay DEF BlockCommits, BlockFails
<1>2. PICK b \in writing :
        /\ writing' = writing \ {b} /\ written' \in {written, written \cup {b}}
        /\ UNCHANGED <<pageOf, deaf, told, blockHistory, blockNumber, booting>>
  BY DEF BlockCommits, BlockFails, socketVars
<1>3. EngineTyped'
  BY <1>2 DEF FeedInv, EngineTyped
<1>4. NumbersInv'
  <2>1. booting' = "done" =>
          /\ Below(blockNumber)'
          /\ (\A a \in writing : Writable(a))'
          /\ (\A a, d \in writing : a.number = d.number => a = d)'
    BY <1>2 DEF FeedInv, NumbersInv, Below, Writable, Numbers
  <2>2. booting' \notin {"empty", "halfway"} => Falls(blockHistory')
    BY <1>2 DEF FeedInv, NumbersInv
  <2> QED
    BY <1>0, <1>2, <2>1, <2>2 DEF NumbersInv
<1>5. HistoryIsShown'
  BY <1>2 DEF FeedInv, HistoryIsShown
<1> QED
  BY <1>1, <1>3, <1>4, <1>5 DEF FeedInv

\* A tick keeps the history or puts the next block before it.
LEMMA TickHolds ==
    ASSUME FeedInv, TickSends
    PROVE  FeedInv'
<1> DEFINE NextBlock(mine) == Block(blockNumber, mine)
           Longer(mine) == NewestOf(<<NextBlock(mine)>> \o blockHistory, HistoryLength)
           OwnState(t) == pageOf[t].pc = "in" /\ minerConnected
           Seen(t, history) == Merged(pageOf[t].shown, IF OwnState(t) THEN history ELSE VisitorsView(history))
<1>1. PICK history :
        /\ \/ history = blockHistory
           \/ /\ booting \notin {"loads", "numbers"} /\ ~(blockNumber > LastBlock)
              /\ \E mine \in BOOLEAN : history = Longer(mine)
        /\ blockHistory' = history
        /\ blockNumber' = IF history # blockHistory THEN blockNumber + 1 ELSE blockNumber
        /\ writing' \in {writing, IF history # blockHistory THEN writing \cup {history[1]} ELSE writing}
        /\ pageOf' = [t \in Pages |-> IF pageOf[t].pc = "off" THEN pageOf[t]
                                      ELSE Shows(pageOf[t].pc, Seen(t, history))]
        /\ deaf' = {t \in Pages : pageOf[t].pc = "in" /\ ~OwnState(t)}
        /\ told' = TRUE
        /\ UNCHANGED <<minerConnected, ghosts, leaving, orphans, booting, written, drops>>
  BY DEF TickSends
<1>2. /\ blockHistory \in Seq(BlockSet) /\ Len(blockHistory) <= HistoryLength
      /\ blockNumber \in 1 .. LastBlock + 1 /\ written \subseteq BlockSet /\ writing \subseteq BlockSet
      /\ HistoryLength \in Nat \ {0} /\ LastBlock \in Nat
  BY FeedConstants DEF FeedInv, EngineTyped
<1>3. ASSUME NEW mine \in BOOLEAN, ~(blockNumber > LastBlock)
      PROVE  /\ NextBlock(mine) \in BlockSet /\ NextBlock(mine).number = blockNumber
             /\ Longer(mine) \in Seq(BlockSet) /\ Len(Longer(mine)) <= HistoryLength
             /\ Len(Longer(mine)) > 0 /\ Longer(mine)[1] = NextBlock(mine)
             /\ booting = "done" =>
                  /\ Falls(Longer(mine))
                  /\ \A i \in 1 .. Len(Longer(mine)) : Longer(mine)[i].number < blockNumber + 1
  <2>1. NextBlock(mine) \in BlockSet /\ NextBlock(mine).number = blockNumber
    BY <1>2, <1>3 DEF Block, BlockSet
  <2> DEFINE f == NextBlock(mine)
             s == <<f>> \o blockHistory
  <2> HIDE DEF f
  <2>2. f \in BlockSet /\ f.number = blockNumber
    BY <2>1 DEF f
  <2>3. s \in Seq(BlockSet) /\ Len(s) = 1 + Len(blockHistory)
        /\ \A i \in 1 .. 1 + Len(blockHistory) : s[i] = IF i <= 1 THEN f ELSE blockHistory[i - 1]
    <3>1. <<f>> \in Seq(BlockSet) /\ Len(<<f>>) = 1 /\ <<f>>[1] = f
      BY <2>2
    <3>2. /\ <<f>> \o blockHistory \in Seq(BlockSet)
          /\ Len(<<f>> \o blockHistory) = Len(<<f>>) + Len(blockHistory)
          /\ \A i \in 1 .. Len(<<f>>) + Len(blockHistory) : (<<f>> \o blockHistory)[i] =
                 IF i <= Len(<<f>>) THEN <<f>>[i] ELSE blockHistory[i - Len(<<f>>)]
      BY <1>2, <3>1, ConcatProperties
    <3>3. \A i \in 1 .. 1 + Len(blockHistory) : i <= 1 => i = 1
      BY <1>2
    <3> QED
      BY <3>1, <3>2, <3>3
  <2>4. booting = "done" => Falls(s) /\ \A i \in 1 .. Len(s) : s[i].number < blockNumber + 1
    <3> SUFFICES ASSUME booting = "done"
                 PROVE  Falls(s) /\ \A i \in 1 .. Len(s) : s[i].number < blockNumber + 1
      OBVIOUS
    <3>1. Falls(blockHistory) /\ \A i \in 1 .. Len(blockHistory) : blockHistory[i].number < blockNumber
      BY DEF FeedInv, NumbersInv, Below
    <3>2. \A b \in BlockSet : b.number \in Int
      BY DEF BlockSet
    <3>3. Falls(s)
      BY <1>2, <2>2, <3>1, <3>2, FrontFalls
    <3>4. ASSUME NEW i \in 1 .. Len(s) PROVE s[i].number < blockNumber + 1
      <4>1. CASE i = 1
        BY <1>2, <2>2, <2>3, <4>1
      <4>2. CASE i # 1
        <5>1. i - 1 \in 1 .. Len(blockHistory) /\ s[i] = blockHistory[i - 1]
          BY <1>2, <2>3, <4>2
        <5>2. s[i].number \in Int /\ s[i].number < blockNumber
          BY <1>2, <3>1, <3>2, <5>1
        <5> QED
          BY <1>2, <5>2
      <4> QED
        BY <4>1, <4>2
    <3> QED
      BY <3>3, <3>4
  <2>5. Longer(mine) = NewestOf(s, HistoryLength)
    BY DEF f
  <2> HIDE DEF s, Longer
  <2>6. /\ Longer(mine) \in Seq(BlockSet) /\ Len(Longer(mine)) <= HistoryLength
        /\ \A i \in 1 .. Len(Longer(mine)) : i \in 1 .. Len(s) /\ Longer(mine)[i] = s[i]
    BY <1>2, <2>3, <2>5, NewestAreKept
  <2>7. Len(Longer(mine)) > 0
    <3>1. Len(s) > 0 /\ Len(s) \in Nat /\ (IF Len(s) < HistoryLength THEN Len(s) ELSE HistoryLength) >= 1
      BY <1>2, <2>3
    <3>2. Len(SubSeq(s, 1, IF Len(s) < HistoryLength THEN Len(s) ELSE HistoryLength)) >= 1
      <4> DEFINE m == IF Len(s) < HistoryLength THEN Len(s) ELSE HistoryLength
      <4>1. m \in Nat /\ m >= 1 /\ m <= Len(s)
        BY <1>2, <3>1
      <4> HIDE DEF m
      <4>2. \A i \in 1 .. m : s[i] \in BlockSet
        BY <2>3, <4>1
      <4>3. Len(SubSeq(s, 1, m)) = IF 1 <= m THEN m - 1 + 1 ELSE 0
        BY <4>1, <4>2, SubSeqProperties
      <4> QED
        BY <4>1, <4>3 DEF m
    <3> QED
      BY <2>5, <2>6, <3>2 DEF NewestOf
  <2>8. Longer(mine)[1] = f
    BY <1>2, <2>3, <2>6, <2>7
  <2>9. booting = "done" => Falls(Longer(mine))
    BY <1>2, <2>3, <2>4, <2>5, NewestFall
  <2>10. booting = "done" => \A i \in 1 .. Len(Longer(mine)) : Longer(mine)[i].number < blockNumber + 1
    BY <2>4, <2>6
  <2> QED
    BY <2>1, <2>6, <2>7, <2>8, <2>9, <2>10 DEF f
<1>4. /\ history \in Seq(BlockSet) /\ Len(history) <= HistoryLength
      /\ history # blockHistory =>
            /\ booting \notin {"loads", "numbers"} /\ blockNumber + 1 \in 1 .. LastBlock + 1
            /\ history[1] \in BlockSet /\ history[1].number = blockNumber
            /\ booting = "done" =>
                 /\ Falls(history)
                 /\ \A i \in 1 .. Len(history) : history[i].number < blockNumber + 1
  <2> HIDE DEF Longer, NextBlock
  <2>1. CASE history = blockHistory
    BY <1>2, <2>1
  <2>2. CASE history # blockHistory
    <3>1. ~(blockNumber > LastBlock) /\ booting \notin {"loads", "numbers"}
      BY <1>1, <2>2
    <3>2. PICK mine \in BOOLEAN : history = Longer(mine)
      BY <1>1, <2>2
    <3>3. blockNumber + 1 \in 1 .. LastBlock + 1
      BY <1>2, <3>1
    <3> QED
      BY <1>3, <3>1, <3>2, <3>3
  <2> QED
    BY <2>1, <2>2
<1>5. EngineTyped'
  <2>1. blockNumber' \in 1 .. LastBlock + 1 /\ writing' \subseteq BlockSet
    BY <1>1, <1>2, <1>4
  <2> QED
    BY <1>1, <1>4, <2>1 DEF FeedInv, EngineTyped
<1>6. NumbersInv'
  <2>1. CASE history = blockHistory
    BY <1>1, <2>1 DEF FeedInv, NumbersInv, Falls, Below, Writable
  <2>2. CASE history # blockHistory
    <3>1. booting' = booting /\ booting \in {"done", "empty", "halfway"} /\ written' = written
      BY <1>1, <1>4, <2>2 DEF FeedInv, EngineTyped
    <3>2. CASE booting = "done"
      <4>1. blockHistory' = history /\ blockNumber' = blockNumber + 1
            /\ writing' \subseteq writing \cup {history[1]}
        BY <1>1, <2>2
      <4>2. history[1].number = blockNumber /\ blockNumber \in Int
            /\ Falls(history) /\ \A i \in 1 .. Len(history) : history[i].number < blockNumber + 1
        BY <1>2, <1>4, <2>2, <3>2
      <4>3. \A b \in written \cup writing : b.number \in Int /\ b.number < blockNumber
        BY <1>2, <3>2 DEF FeedInv, NumbersInv, Below, BlockSet
      <4>4. (\A b \in writing : Writable(b)) /\ (\A a, b \in writing : a.number = b.number => a = b)
        BY <3>2 DEF FeedInv, NumbersInv
      <4>5. Below(blockNumber)'
        BY <3>1, <4>1, <4>2, <4>3 DEF Below
      <4>6. \A b \in writing' : b.number \notin Numbers(written')
        BY <3>1, <4>1, <4>2, <4>3, <4>4 DEF Writable, Numbers
      <4>7. \A a, b \in writing' : a.number = b.number => a = b
        BY <4>1, <4>2, <4>3, <4>4
      <4> QED
        BY <3>1, <3>2, <4>1, <4>2, <4>5, <4>6, <4>7 DEF NumbersInv, Writable
    <3>3. CASE booting # "done"
      BY <3>1, <3>3 DEF NumbersInv
    <3> QED
      BY <3>2, <3>3
  <2> QED
    BY <2>1, <2>2
<1> HIDE DEF Longer, NextBlock
<1>7. ASSUME NEW t \in Pages
      PROVE  /\ Seen(t, history) \in Seq(BlockSet) /\ Len(Seen(t, history)) <= HistoryLength
             /\ OwnState(t) => \/ Seen(t, history) = history
                               \/ Rewards(Seen(t, history)) /\ ~Rewards(history)
  BY <1>4, PageIsTyped, HistoryIsTyped DEF Merged, shouldKeepCurrentHistory
<1>8. SocketsInv'
  <2>1. ASSUME NEW t \in Pages
        PROVE  pageOf'[t] \in PageStates /\ Len(pageOf'[t].shown) <= HistoryLength
    <3> HIDE DEF Seen
    <3>1. pageOf[t].pc \in {"off", "joins", "in", "visitor"}
      BY PageIsTyped DEF PageStates
    <3>2. Shows(pageOf[t].pc, Seen(t, history)) \in PageStates
          /\ Shows(pageOf[t].pc, Seen(t, history)).shown = Seen(t, history)
      BY <1>7, <3>1 DEF PageStates, Shows
    <3> QED
      BY <1>1, <1>7, <3>2, PageIsTyped
  <2>2. pageOf' \in [Pages -> PageStates]
    <3>1. \E F : pageOf' = [t \in Pages |-> F[t]]
      <4> WITNESS [t \in Pages |-> pageOf'[t]]
      <4> HIDE DEF Seen
      <4> QED
        BY <1>1
    <3> QED
      BY <2>1, <3>1
  <2>3. deaf' \subseteq Pages
    BY <1>1
  <2> QED
    BY <1>1, <2>1, <2>2, <2>3 DEF FeedInv, SocketsInv
<1>9. HistoryIsShown'
  <2> SUFFICES ASSUME NEW t \in Pages, pageOf'[t].pc = "in", t \notin deaf'
               PROVE  \/ pageOf'[t].shown = blockHistory'
                      \/ Rewards(pageOf'[t].shown) /\ ~Rewards(blockHistory')
    BY DEF HistoryIsShown
  <2> HIDE DEF Seen
  <2>1. pageOf'[t] = IF pageOf[t].pc = "off" THEN pageOf[t] ELSE Shows(pageOf[t].pc, Seen(t, history))
    BY <1>1
  <2>2. pageOf[t].pc = "in" /\ pageOf'[t].shown = Seen(t, history)
    BY <2>1 DEF Shows
  <2>3. OwnState(t)
    BY <1>1, <2>2
  <2> QED
    BY <1>1, <1>7, <2>2, <2>3
<1> QED
  BY <1>5, <1>6, <1>8, <1>9 DEF FeedInv

\* The sockets' steps leave the engine alone, and a page whose state they
\* change shows what the engine keeps, or is not joined.
LEMMA SocketsHold ==
    ASSUME FeedInv, OrphanJoins \/ SeesDisconnect \/ DisconnectEnds
    PROVE  FeedInv'
<1>1. UNCHANGED <<pageOf, deaf, engineVars, drops>>
  BY DEF OrphanJoins, SeesDisconnect, DisconnectEnds
<1>2. EngineTyped' /\ NumbersInv'
  BY <1>1, EngineStays
<1>3. /\ minerConnected' \in BOOLEAN
      /\ ghosts' \in Nat /\ leaving' \in Nat /\ orphans' \in Nat
      /\ ghosts' + leaving' + orphans' <= drops
  <2>1. /\ ghosts \in Nat /\ leaving \in Nat /\ orphans \in Nat /\ drops \in Nat
        /\ ghosts + leaving + orphans <= drops /\ minerConnected \in BOOLEAN
    BY DEF FeedInv, SocketsInv
  <2>2. minerConnected' \in BOOLEAN
    BY <2>1 DEF OrphanJoins, SeesDisconnect, DisconnectEnds
  <2>3. CASE OrphanJoins
    <3>1. orphans > 0 /\ orphans' = orphans - 1 /\ leaving' = leaving /\ (ghosts' = ghosts \/ ghosts' = ghosts + 1)
      BY <2>3 DEF OrphanJoins
    <3> QED
      BY <2>1, <2>2, <3>1
  <2>4. CASE SeesDisconnect
    BY <2>1, <2>2, <2>4 DEF SeesDisconnect
  <2>5. CASE DisconnectEnds
    BY <2>1, <2>2, <2>5 DEF DisconnectEnds
  <2> QED
    BY <2>3, <2>4, <2>5
<1>4. SocketsInv'
  BY <1>1, <1>3 DEF FeedInv, SocketsInv
<1>5. HistoryIsShown'
  BY <1>1 DEF FeedInv, HistoryIsShown, engineVars
<1> QED
  BY <1>2, <1>4, <1>5 DEF FeedInv

LEMMA PageHolds ==
    ASSUME FeedInv, NEW t \in Pages, SocketConnects(t) \/ JoinEnds(t) \/ JoinRefused(t)
    PROVE  FeedInv'
<1>1. UNCHANGED <<ghosts, leaving, orphans, engineVars, drops>>
  BY DEF SocketConnects, JoinEnds, JoinRefused
<1>2. EngineTyped' /\ NumbersInv'
  BY <1>1, EngineStays
<1>3. \E q \in PageStates :
        /\ Len(q.shown) <= HistoryLength /\ pageOf' = [pageOf EXCEPT ![t] = q]
        /\ q.pc = "in" => q.shown = blockHistory
        /\ deaf' \in {deaf, deaf \ {t}} /\ minerConnected' \in {TRUE, minerConnected}
  <2>1. CASE SocketConnects(t)
    <3>1. /\ pageOf' = [pageOf EXCEPT ![t] = Shows("joins", pageOf[t].shown)]
          /\ UNCHANGED <<minerConnected, deaf>>
      BY <2>1, PageIsTyped DEF SocketConnects
    <3>2. /\ Shows("joins", pageOf[t].shown) \in PageStates
          /\ Shows("joins", pageOf[t].shown).shown = pageOf[t].shown
          /\ Shows("joins", pageOf[t].shown).pc = "joins" /\ Len(pageOf[t].shown) <= HistoryLength
      BY PageIsTyped
    <3> HIDE DEF PageStates
    <3> QED
      BY <3>1, <3>2
  <2>2. CASE JoinRefused(t)
    <3>1. /\ pageOf' = [pageOf EXCEPT ![t] = Shows("visitor", pageOf[t].shown)]
          /\ UNCHANGED <<minerConnected, deaf>>
      BY <2>2, PageIsTyped DEF JoinRefused
    <3>2. /\ Shows("visitor", pageOf[t].shown) \in PageStates
          /\ Shows("visitor", pageOf[t].shown).shown = pageOf[t].shown
          /\ Shows("visitor", pageOf[t].shown).pc = "visitor" /\ Len(pageOf[t].shown) <= HistoryLength
      BY PageIsTyped
    <3> HIDE DEF PageStates
    <3> QED
      BY <3>1, <3>2
  <2>3. CASE JoinEnds(t)
    <3>1. blockHistory \in Seq(BlockSet) /\ Len(blockHistory) <= HistoryLength
      BY DEF FeedInv, EngineTyped
    <3>2. Shows("in", blockHistory) \in PageStates
      BY <3>1, HistoryIsTyped
    <3> WITNESS Shows("in", blockHistory) \in PageStates
    <3> QED
      BY <2>3, <3>1 DEF JoinEnds, Shows
  <2> QED
    BY <2>1, <2>2, <2>3
<1>4. PICK q \in PageStates :
        /\ Len(q.shown) <= HistoryLength /\ pageOf' = [pageOf EXCEPT ![t] = q]
        /\ q.pc = "in" => q.shown = blockHistory
        /\ deaf' \in {deaf, deaf \ {t}} /\ minerConnected' \in {TRUE, minerConnected}
  BY <1>3
<1>5. /\ pageOf' \in [Pages -> PageStates]
      /\ \A d \in Pages : Len(pageOf'[d].shown) <= HistoryLength
      /\ pageOf'[t] = q /\ \A d \in Pages : d # t => pageOf'[d] = pageOf[d]
  BY <1>4, OnePageGoes
<1>6. SocketsInv'
  BY <1>1, <1>4, <1>5 DEF FeedInv, SocketsInv
<1>7. HistoryIsShown'
  <2>1. UNCHANGED <<blockHistory, told>>
    BY <1>1 DEF engineVars
  <2> SUFFICES ASSUME NEW d \in Pages, pageOf'[d].pc = "in", told, d \notin deaf'
               PROVE  \/ pageOf'[d].shown = blockHistory
                      \/ Rewards(pageOf'[d].shown) /\ ~Rewards(blockHistory)
    BY <2>1 DEF HistoryIsShown
  <2>2. CASE d = t
    BY <1>4, <1>5, <2>2
  <2>3. CASE d # t
    BY <1>4, <1>5, <2>3 DEF FeedInv, HistoryIsShown
  <2> QED
    BY <2>2, <2>3
<1> QED
  BY <1>2, <1>6, <1>7 DEF FeedInv

LEMMA BreakHolds ==
    ASSUME FeedInv, NEW t \in Pages, FeedBreaks(t)
    PROVE  FeedInv'
<1>1. PICK seen \in {pageOf[t].shown, <<>>} : pageOf' = [pageOf EXCEPT ![t] = Shows("off", seen)]
  BY DEF FeedBreaks
<1>2. /\ drops < MaxDrops /\ drops' = drops + 1
      /\ ghosts' = (IF pageOf[t].pc = "in" THEN ghosts + 1 ELSE ghosts)
      /\ orphans' = (IF pageOf[t].pc = "joins" THEN orphans + 1 ELSE orphans)
      /\ deaf' = deaf \ {t}
      /\ UNCHANGED <<minerConnected, leaving, engineVars>>
  BY DEF FeedBreaks
<1>3. EngineTyped' /\ NumbersInv'
  BY <1>2, EngineStays
<1>4. Shows("off", seen) \in PageStates /\ Len(Shows("off", seen).shown) <= HistoryLength
      /\ Shows("off", seen).pc = "off"
  <2>1. seen \in Seq(BlockSet) /\ Len(seen) <= HistoryLength
    <3>1. pageOf[t].shown \in Seq(BlockSet) /\ Len(pageOf[t].shown) <= HistoryLength
      BY PageIsTyped
    <3>2. <<>> \in Seq(BlockSet) /\ Len(<<>>) = 0 /\ 0 <= HistoryLength
      BY FeedConstants
    <3> QED
      BY <3>1, <3>2
  <2> QED
    BY <2>1 DEF Shows, PageStates
<1>5. /\ pageOf' \in [Pages -> PageStates]
      /\ \A d \in Pages : Len(pageOf'[d].shown) <= HistoryLength
      /\ pageOf'[t] = Shows("off", seen) /\ \A d \in Pages : d # t => pageOf'[d] = pageOf[d]
  BY <1>1, <1>4, OnePageGoes
<1>6. /\ ghosts' \in Nat /\ leaving' \in Nat /\ orphans' \in Nat /\ drops' \in Nat
      /\ ghosts' + leaving' + orphans' <= drops' /\ drops' <= MaxDrops
  <2>1. /\ ghosts \in Nat /\ leaving \in Nat /\ orphans \in Nat /\ drops \in Nat
        /\ ghosts + leaving + orphans <= drops /\ MaxDrops \in Nat
    BY FeedConstants DEF FeedInv, SocketsInv
  <2>2. pageOf[t].pc = "in" => pageOf[t].pc # "joins"
    OBVIOUS
  <2> QED
    BY <1>2, <2>1, <2>2
<1>7. SocketsInv'
  BY <1>2, <1>5, <1>6 DEF FeedInv, SocketsInv
<1>8. HistoryIsShown'
  <2>1. UNCHANGED <<blockHistory, told>>
    BY <1>2 DEF engineVars
  <2> SUFFICES ASSUME NEW d \in Pages, pageOf'[d].pc = "in", told, d \notin deaf'
               PROVE  \/ pageOf'[d].shown = blockHistory
                      \/ Rewards(pageOf'[d].shown) /\ ~Rewards(blockHistory)
    BY <2>1 DEF HistoryIsShown
  <2>2. d # t
    BY <1>4, <1>5
  <2> QED
    BY <1>2, <1>5, <2>2 DEF FeedInv, HistoryIsShown
<1> QED
  BY <1>3, <1>7, <1>8 DEF FeedInv

LEMMA RestartHolds ==
    ASSUME FeedInv, FeedRestarts
    PROVE  FeedInv'
<1>1. /\ drops < MaxDrops /\ drops' = drops + 1
      /\ pageOf' = [t \in Pages |-> Shows("off", pageOf[t].shown)]
      /\ minerConnected' = TRUE
      /\ ghosts' = 0 /\ leaving' = 0 /\ orphans' = 0
      /\ blockHistory' = <<>> /\ blockNumber' = 1
      /\ booting' = "loads"
      /\ writing' = {}
      /\ told' = FALSE /\ deaf' = {}
      /\ written' = written
  BY DEF FeedRestarts
<1>0. <<>> \in Seq(BlockSet) /\ Len(<<>>) = 0
  OBVIOUS
<1>2. EngineTyped'
  <2>1. 1 \in 1 .. LastBlock + 1 /\ 0 <= HistoryLength
    BY FeedConstants
  <2>2. written \subseteq BlockSet
    BY DEF FeedInv, EngineTyped
  <2> QED
    BY <1>0, <1>1, <2>1, <2>2 DEF EngineTyped
<1>3. NumbersInv'
  BY <1>0, <1>1 DEF NumbersInv, Falls
<1>4. pageOf' \in [Pages -> PageStates] /\ \A t \in Pages : Len(pageOf'[t].shown) <= HistoryLength
  <2>1. \A t \in Pages : Shows("off", pageOf[t].shown) \in PageStates
                         /\ Len(Shows("off", pageOf[t].shown).shown) <= HistoryLength
    BY PageIsTyped
  <2> HIDE DEF PageStates
  <2> QED
    BY <1>1, <2>1
<1>5. 0 + 0 + 0 <= drops + 1 /\ drops + 1 \in Nat /\ drops + 1 <= MaxDrops
  BY <1>1, FeedConstants DEF FeedInv, SocketsInv
<1>6. SocketsInv'
  BY <1>1, <1>4, <1>5 DEF SocketsInv
<1>7. HistoryIsShown'
  BY <1>1 DEF HistoryIsShown
<1> QED
  BY <1>2, <1>3, <1>6, <1>7 DEF FeedInv

\* Blocks are numbered on from those in the database, and a joined page shows
\* the engine's history, or older rewards while the newest blocks have none
\* (StateFeed, ServerKeepsCount and PlayerPagesAreTrue).
THEOREM BlocksGoOn == FeedSpec => [](FeedTypeOK /\ HistoryIsShown /\ BlocksAreNumberedOn)
<1>1. FeedInv /\ [FeedNext]_feedVars => FeedInv'
  <2> SUFFICES ASSUME FeedInv, [FeedNext]_feedVars PROVE FeedInv'
    OBVIOUS
  <2>1. CASE UNCHANGED feedVars
    <3>1. UNCHANGED <<socketVars, drops>> /\ UNCHANGED engineVars
          /\ UNCHANGED <<pageOf, told, deaf, blockHistory>>
      BY <2>1 DEF feedVars, socketVars, engineVars
    <3>2. HistoryIsShown'
      BY <3>1 DEF FeedInv, HistoryIsShown
    <3> QED
      BY <3>1, <3>2, EngineStays, SocketsStay DEF FeedInv
  <2>2. CASE FeedNext
    BY <2>2, BootHolds, BlocksHold, TickHolds, SocketsHold, PageHolds, BreakHolds, RestartHolds DEF FeedNext
  <2> QED
    BY <2>1, <2>2
<1> QED
  BY <1>1, FeedBegins, FeedImplies, PTL DEF FeedSpec

-----------------------------------------------------------------------------
(* The migration.                                                           *)

\* The k-th table's rows.
Copied(k, i) == copies[CopiedTables[k]][i]
Underway == migrating # NoMigration

\* The run under way has passed row i of the k-th table.
Past(k, i) == k < migrating.stage \/ (k = migrating.stage /\ i < migrating.at)

MailsKnown == \A j \in Olds : MailOfMember(OldUsers[j].mail)

RunInv ==
    /\ Underway => migrating.at > 0
    /\ Underway <=> ended = "running"

\* Each run copies a row at most once.
CountedInv ==
    \A k \in 1 .. 5, i \in Olds :
        /\ Copied(k, i) <= migrations
        /\ Underway /\ ~Past(k, i) => Copied(k, i) < migrations

\* Who is migrated is settled before the first row is copied.
MailsInv ==
    /\ (Underway /\ migrating.stage > 0) \/ (\E k \in 1 .. 5, i \in Olds : Copied(k, i) > 0) => MailsKnown
    /\ Underway /\ migrating.stage = 0 => \A j \in Olds : j < migrating.at => MailOfMember(OldUsers[j].mail)

\* No row is copied more often than any machine, and none of what lies ahead
\* as often as a machine the run has passed.
LooseInv ==
    \A j \in Olds : Wanted("machines", j) =>
        \A k \in 2 .. 5, i \in Olds :
            /\ Copied(k, i) <= Copied(1, j)
            /\ Underway /\ ~Past(k, i) /\ Past(1, j) => Copied(k, i) < Copied(1, j)

\* What is copied was wanted, and what is wanted and passed is copied.
WholeInv ==
    \A k \in 1 .. 5, i \in Olds :
        /\ Copied(k, i) > 0 => Wanted(CopiedTables[k], i)
        /\ Underway /\ Past(k, i) /\ Wanted(CopiedTables[k], i) => Copied(k, i) > 0
        /\ ended = "completed" /\ Wanted(CopiedTables[k], i) => Copied(k, i) > 0

MigrationInv ==
    MigrationTypeOK /\ RunInv /\ CountedInv /\ MailsInv /\ LooseInv /\ WholeInv

LEMMA TheTables ==
    /\ Len(CopiedTables) = 5 /\ DOMAIN CopiedTables = 1 .. 5 /\ CopiedTables[1] = "machines"
    /\ \A k, l \in 1 .. 5 : CopiedTables[k] = CopiedTables[l] => k = l
    /\ \A k \in 1 .. 5 : CopiedTables[k] \in TableNames
    /\ \A t \in TableNames : \E k \in 1 .. 5 : t = CopiedTables[k]
  BY DEF CopiedTables, TableNames

LEMMA TheOlds ==
    /\ Olds = 1 .. Len(OldUsers) /\ Len(OldUsers) \in Nat /\ MaxMigrations \in Nat
    /\ \A i \in Olds : OldUsers[i] \in [mail : Mails, name : Usernames, has : SUBSET TableNames]
<1> DEFINE R == [mail : Mails, name : Usernames, has : SUBSET TableNames]
<1>1. OldUsers \in Seq(R) /\ MaxMigrations \in Nat
  BY MigrationAssumption
<1> HIDE DEF R
<1>2. Olds = 1 .. Len(OldUsers) /\ Len(OldUsers) \in Nat /\ \A i \in Olds : OldUsers[i] \in R
  BY <1>1 DEF Olds
<1> QED
  BY <1>1, <1>2 DEF R

LEMMA MigrationBegins == MigrationInit => MigrationInv
<1> SUFFICES ASSUME MigrationInit PROVE MigrationInv
  OBVIOUS
<1>1. \A k \in 1 .. 5, i \in Olds : Copied(k, i) = 0
  BY TheTables DEF MigrationInit, Copied
<1>2. ~Underway /\ migrating.stage = 0 /\ migrating.at = 0 /\ ended = "none" /\ migrations = 0
  BY DEF MigrationInit, Underway, NoMigration, RunAt
<1>3. MigrationTypeOK
  BY TheOlds, TheTables DEF MigrationInit, MigrationTypeOK, NoMigration, RunAt
<1>4. \A i \in Olds, t \in TableNames : ~Wanted(t, i)
  BY DEF MigrationInit, Wanted, Migrated
<1>5. RunInv /\ CountedInv /\ MailsInv
  BY <1>1, <1>2 DEF RunInv, CountedInv, MailsInv
<1>6. LooseInv /\ WholeInv
  BY <1>1, <1>2 DEF LooseInv, WholeInv
<1> QED
  BY <1>3, <1>5, <1>6 DEF MigrationInv

\* Neither a newcomer nor an uninstalled machine matters to the run, nor a run's
\* end.
LEMMA BesidesTheRun ==
    ASSUME MigrationInv, UNCHANGED <<copies, migrations>>, members \subseteq members',
           \A m \in members' : m \in members \/ m.old = 0,
           members' \subseteq [mail : Mails, name : Usernames, old : {0} \cup Olds],
           out' \subseteq Olds,
           \/ UNCHANGED <<migrating, ended>>
           \/ migrating' = NoMigration /\ ended' = "broken"
    PROVE  MigrationInv'
<1>1. \A k, i : Copied(k, i)' = Copied(k, i)
  BY DEF Copied
<1>2. \A j \in Olds : Migrated(j)' <=> Migrated(j)
  BY TheOlds DEF Migrated
<1>3. \A t, j \in Olds : TRUE
  OBVIOUS
<1>4. \A j \in Olds : \A t : Wanted(t, j)' <=> Wanted(t, j)
  BY <1>2 DEF Wanted
<1>5. \A e : MailOfMember(e) => MailOfMember(e)'
  BY DEF MailOfMember
<1>6. MigrationTypeOK'
  BY TheOlds, TheTables DEF MigrationInv, MigrationTypeOK, NoMigration, RunAt
<1>7. CASE UNCHANGED <<migrating, ended>>
  <2>1. (Underway' <=> Underway) /\ \A k, i : Past(k, i)' <=> Past(k, i)
    BY <1>7 DEF Underway, Past
  <2>2. RunInv'
    BY <1>7, <2>1 DEF MigrationInv, RunInv
  <2>3. CountedInv'
    BY <1>1, <2>1 DEF MigrationInv, CountedInv
  <2>4. MailsInv'
    BY <1>1, <1>5, <1>7, <2>1 DEF MigrationInv, MailsInv, MailsKnown
  <2>5. LooseInv'
    BY <1>1, <1>4, <2>1 DEF MigrationInv, LooseInv
  <2>6. WholeInv'
    BY <1>1, <1>4, <1>7, <2>1 DEF MigrationInv, WholeInv
  <2> QED
    BY <1>6, <2>2, <2>3, <2>4, <2>5, <2>6 DEF MigrationInv
<1>8. CASE migrating' = NoMigration /\ ended' = "broken"
  <2>1. ~Underway'
    BY <1>8 DEF Underway
  <2>2. RunInv'
    BY <1>8, <2>1 DEF RunInv
  <2>3. CountedInv'
    BY <1>1, <2>1 DEF MigrationInv, CountedInv
  <2>4. MailsInv'
    BY <1>1, <1>5, <2>1 DEF MigrationInv, MailsInv, MailsKnown
  <2>5. LooseInv'
    BY <1>1, <1>4, <2>1 DEF MigrationInv, LooseInv
  <2>6. WholeInv'
    BY <1>1, <1>4, <1>8, <2>1 DEF MigrationInv, WholeInv
  <2> QED
    BY <1>6, <2>2, <2>3, <2>4, <2>5, <2>6 DEF MigrationInv
<1> QED
  BY <1>7, <1>8

\* The run goes on to its next row, having copied this one if it was wanted.
LEMMA RowIsPassed ==
    ASSUME MigrationInv, CopiesRow, GoesOnWith
    PROVE  MigrationInv'
<1> DEFINE s == migrating.stage
           i == migrating.at
           t == CopiedTables[s]
<1>1. /\ s \in 1 .. 5 /\ i \in Olds /\ i \in Nat /\ s \in Nat /\ Underway
      /\ migrating' = RunAt(s, i + 1) /\ ended' = ended
      /\ UNCHANGED <<members, migrations>>
  BY TheTables, TheOlds DEF CopiesRow, GoesOnWith, Underway, NoMigration, RunAt
<1>2. migrating'.stage = s /\ migrating'.at = i + 1 /\ Underway' /\ migrations \in Nat
  BY <1>1 DEF RunAt, Underway, NoMigration, MigrationInv, MigrationTypeOK
<1>3. migrating' # NoMigration
  BY <1>2 DEF Underway
<1>4. IF Wanted(t, i) THEN copies' = [copies EXCEPT ![t][i] = @ + 1] /\ out' \in {out, out \ {i}}
      ELSE UNCHANGED <<copies, out>>
  BY <1>3 DEF CopiesRow, EndsRun
<1>5. \A k \in 1 .. 5, j \in Olds : Copied(k, j) \in Nat
  BY TheTables DEF Copied, MigrationInv, MigrationTypeOK
<1>6. \A k \in 1 .. 5, j \in Olds :
         Copied(k, j)' = IF k = s /\ j = i /\ Wanted(t, i) THEN Copied(k, j) + 1 ELSE Copied(k, j)
  <2> SUFFICES ASSUME NEW k \in 1 .. 5, NEW j \in Olds
               PROVE  Copied(k, j)' = IF k = s /\ j = i /\ Wanted(t, i) THEN Copied(k, j) + 1 ELSE Copied(k, j)
    OBVIOUS
  <2>1. CASE ~Wanted(t, i)
    BY <1>4, <2>1 DEF Copied
  <2>2. CASE Wanted(t, i)
    <3> HIDE DEF i, t
    <3>1. /\ copies' = [copies EXCEPT ![t][i] = @ + 1]
          /\ copies \in [TableNames -> [Olds -> 0 .. MaxMigrations]] /\ t \in TableNames /\ i \in Olds
      BY <1>1, <1>4, <2>2, TheTables DEF MigrationInv, MigrationTypeOK, t, i
    <3>2. /\ \A u \in TableNames : u # t => copies'[u] = copies[u]
          /\ copies'[t] = [copies[t] EXCEPT ![i] = @ + 1]
      BY <3>1
    <3>3. copies'[t][j] = IF j = i THEN copies[t][j] + 1 ELSE copies[t][j]
      BY <3>1, <3>2
    <3>4. CopiedTables[k] = t <=> k = s
      BY <1>1, TheTables DEF t
    <3> QED
      BY <2>2, <3>2, <3>3, <3>4, TheTables DEF Copied
  <2> QED
    BY <2>1, <2>2
<1>7. \A j \in Olds : \A u : Wanted(u, j)' <=> Wanted(u, j)
  BY <1>1 DEF Wanted, Migrated
<1>8. \A k \in 1 .. 5, j \in Olds : Past(k, j)' <=> Past(k, j) \/ (k = s /\ j = i)
  BY <1>1, <1>2, TheOlds DEF Past
<1>9. ~Past(s, i) /\ \A k \in 1 .. 5, j \in Olds : k = s /\ j = i => ~Past(k, j)
  BY <1>1 DEF Past
<1>10. CountedInv'
  BY <1>1, <1>2, <1>5, <1>6, <1>8, <1>9 DEF MigrationInv, CountedInv
<1>11. MailsInv'
  <2>1. MailsKnown
    BY <1>1 DEF MigrationInv, MailsInv
  <2> QED
    BY <1>1, <1>2, <2>1 DEF MailsInv, MailsKnown, MailOfMember
<1> HIDE DEF i, s, t
<1>12. LooseInv'
  <2> SUFFICES ASSUME NEW j \in Olds, Wanted("machines", j), NEW k \in 2 .. 5, NEW l \in Olds
               PROVE  /\ Copied(k, l)' <= Copied(1, j)'
                      /\ ~Past(k, l)' /\ Past(1, j)' => Copied(k, l)' < Copied(1, j)'
    BY <1>7 DEF LooseInv
  <2>1. /\ Copied(k, l) <= Copied(1, j)
        /\ ~Past(k, l) /\ Past(1, j) => Copied(k, l) < Copied(1, j)
    BY <1>1 DEF MigrationInv, LooseInv
  <2>2. k \in 1 .. 5 /\ 1 \in 1 .. 5 /\ k # 1
    OBVIOUS
  <2>3. CASE s = 1
    <3>1. /\ Copied(k, l)' = Copied(k, l)
          /\ Copied(1, j)' = IF j = i THEN Copied(1, j) + 1 ELSE Copied(1, j)
      <4>1. j = i => Wanted(t, i)
        BY <2>3, TheTables DEF t
      <4> QED
        BY <1>6, <2>2, <2>3, <4>1
    <3>2. (Past(k, l)' <=> Past(k, l)) /\ (Past(1, j)' <=> Past(1, j) \/ j = i)
      BY <1>8, <2>2, <2>3
    <3> QED
      BY <1>5, <2>1, <2>2, <3>1, <3>2
  <2>4. CASE s # 1
    <3>1. Past(1, j) /\ Past(1, j)'
      BY <1>1, <1>8, <2>2, <2>4 DEF Past, s
    <3>2. Copied(1, j)' = Copied(1, j)
      BY <1>6, <2>2, <2>4
    <3>3. CASE k = s /\ l = i
      <4>1. Copied(k, l) < Copied(1, j) /\ Past(k, l)'
        BY <1>8, <1>9, <2>1, <2>2, <3>1, <3>3
      <4>2. Copied(k, l)' \in {Copied(k, l), Copied(k, l) + 1}
        BY <1>6, <2>2
      <4> QED
        BY <1>5, <2>2, <3>2, <4>1, <4>2
    <3>4. CASE ~(k = s /\ l = i)
      <4>1. Copied(k, l)' = Copied(k, l) /\ (Past(k, l)' <=> Past(k, l))
        BY <1>6, <1>8, <2>2, <3>4
      <4> QED
        BY <2>1, <3>1, <3>2, <4>1
    <3> QED
      BY <3>3, <3>4
  <2> QED
    BY <2>3, <2>4
<1>13. WholeInv'
  <2> SUFFICES ASSUME NEW k \in 1 .. 5, NEW j \in Olds
               PROVE  /\ Copied(k, j)' > 0 => Wanted(CopiedTables[k], j)
                      /\ Past(k, j)' /\ Wanted(CopiedTables[k], j) => Copied(k, j)' > 0
                      /\ ended # "completed"
    BY <1>1, <1>7 DEF WholeInv
  <2>1. ended # "completed"
    BY <1>1 DEF MigrationInv, RunInv
  <2>2. CASE k = s /\ j = i
    <3>1. CopiedTables[k] = t
      BY <2>2 DEF t
    <3>2. Copied(k, j)' = IF Wanted(t, i) THEN Copied(k, j) + 1 ELSE Copied(k, j)
      BY <1>6, <2>2
    <3> QED
      BY <1>5, <2>1, <2>2, <3>1, <3>2 DEF MigrationInv, WholeInv
  <2>3. CASE ~(k = s /\ j = i)
    BY <1>1, <1>6, <1>8, <2>1, <2>3 DEF MigrationInv, WholeInv
  <2> QED
    BY <2>2, <2>3
<1>14. RunInv'
  BY <1>1, <1>2 DEF MigrationInv, RunInv, i
<1>15. MigrationTypeOK'
  <2>1. migrating' \in [stage : 0 .. Len(CopiedTables), at : 0 .. Len(OldUsers) + 1]
    BY <1>1, TheTables, TheOlds DEF RunAt, i, s
  <2>2. out' \subseteq Olds
    BY <1>4 DEF MigrationInv, MigrationTypeOK
  <2>3. copies' \in [TableNames -> [Olds -> 0 .. MaxMigrations]]
    <3>1. copies' \in [TableNames -> [Olds -> Nat]]
      <4>1. copies \in [TableNames -> [Olds -> Nat]]
        BY TheOlds DEF MigrationInv, MigrationTypeOK
      <4>2. CASE Wanted(t, i)
        <5>1. copies' = [copies EXCEPT ![t][i] = @ + 1] /\ t \in TableNames /\ i \in Olds
          BY <1>1, <1>4, <4>2, TheTables DEF t, i, s
        <5>2. [copies[t] EXCEPT ![i] = @ + 1] \in [Olds -> Nat]
          BY <4>1, <5>1
        <5> QED
          BY <4>1, <5>1, <5>2
      <4>3. CASE ~Wanted(t, i)
        BY <1>4, <4>1, <4>3
      <4> QED
        BY <4>2, <4>3
    <3>2. \A u \in TableNames, j \in Olds : copies'[u][j] <= MaxMigrations
      <4> SUFFICES ASSUME NEW u \in TableNames, NEW j \in Olds PROVE copies'[u][j] <= MaxMigrations
        OBVIOUS
      <4>1. PICK k \in 1 .. 5 : u = CopiedTables[k]
        BY TheTables
      <4>2. copies'[u][j] <= migrations' /\ copies'[u][j] \in Nat
        BY <1>10, <3>1, <4>1 DEF CountedInv, Copied
      <4>3. migrations' <= MaxMigrations /\ migrations' \in Nat
        BY <1>1 DEF MigrationInv, MigrationTypeOK
      <4> QED
        BY <4>2, <4>3, TheOlds
    <3> QED
      BY <3>1, <3>2, TheOlds
  <2> QED
    BY <1>1, <2>1, <2>2, <2>3 DEF MigrationInv, MigrationTypeOK
<1> QED
  BY <1>10, <1>11, <1>12, <1>13, <1>14, <1>15 DEF MigrationInv

LEMMA MigrationStep == ASSUME MigrationInv, [MigrationNext]_migrationVars PROVE MigrationInv'
<1>0. MigrationTypeOK
  BY DEF MigrationInv
<1>1. CASE UNCHANGED migrationVars
  BY <1>0, <1>1, BesidesTheRun DEF migrationVars, MigrationTypeOK
<1>2. CASE Newcomer
  <2>1. PICK mail \in Mails, name \in Usernames : members' = members \cup {Member(mail, name, 0)}
    BY <1>2 DEF Newcomer
  <2>2. Member(mail, name, 0).old = 0
        /\ Member(mail, name, 0) \in [mail : Mails, name : Usernames, old : {0} \cup Olds]
    BY DEF Member
  <2>3. UNCHANGED <<copies, migrating, ended, out, migrations>>
    BY <1>2 DEF Newcomer
  <2> QED
    BY <1>0, <2>1, <2>2, <2>3, BesidesTheRun DEF MigrationTypeOK
<1>3. CASE MigrationIsOver
  BY <1>0, <1>3, BesidesTheRun DEF MigrationIsOver, migrationVars, MigrationTypeOK
<1>4. ASSUME NEW i \in Olds, Uninstalls(i) PROVE MigrationInv'
  BY <1>0, <1>4, BesidesTheRun DEF Uninstalls, MigrationTypeOK
<1>5. CASE MigrationBreaks
  BY <1>0, <1>5, BesidesTheRun DEF MigrationBreaks, EndsRun, MigrationTypeOK
<1>6. CASE MigrationStarts
  <2>1. /\ ~Underway /\ migrations \in Nat /\ migrations' = migrations + 1 /\ migrations' \in 0 .. MaxMigrations
        /\ migrating' = RunAt(0, 1) /\ migrating'.stage = 0 /\ migrating'.at = 1 /\ Underway'
        /\ ended' = "running"
        /\ UNCHANGED <<members, copies, out>>
    BY <1>0, <1>6, TheOlds DEF MigrationStarts, MigrationTypeOK, Underway, NoMigration, RunAt
  <2>2. /\ \A k \in 1 .. 5, i \in Olds : ~Past(k, i)' /\ Copied(k, i)' = Copied(k, i) /\ Copied(k, i) \in Nat
        /\ \A j \in Olds : \A t : Wanted(t, j)' <=> Wanted(t, j)
    <3>1. \A k \in 1 .. 5, i \in Olds : ~Past(k, i)'
      BY <2>1, TheOlds DEF Past
    <3>2. \A k \in 1 .. 5, i \in Olds : Copied(k, i)' = Copied(k, i) /\ Copied(k, i) \in Nat
      <4>1. copies' = copies /\ copies \in [TableNames -> [Olds -> Nat]]
        BY <1>0, <2>1, TheOlds DEF MigrationTypeOK
      <4> QED
        BY <4>1, TheTables DEF Copied
    <3>3. \A j \in Olds : \A t : Wanted(t, j)' <=> Wanted(t, j)
      BY <2>1 DEF Wanted, Migrated
    <3> QED
      BY <3>1, <3>2, <3>3
  <2>3. MigrationTypeOK'
    BY <1>0, <2>1, TheOlds, TheTables DEF MigrationTypeOK, RunAt
  <2>4. RunInv'
    BY <2>1 DEF RunInv
  <2>5. CountedInv'
    BY <2>1, <2>2 DEF MigrationInv, CountedInv
  <2>6. MailsInv'
    <3>1. (\E k \in 1 .. 5, i \in Olds : Copied(k, i)' > 0) => MailsKnown'
      BY <2>1, <2>2 DEF MigrationInv, MailsInv, MailsKnown, MailOfMember
    <3> QED
      BY <2>1, <3>1, TheOlds DEF MailsInv
  <2>7. LooseInv'
    BY <2>1, <2>2 DEF MigrationInv, LooseInv
  <2>8. WholeInv'
    BY <2>1, <2>2 DEF MigrationInv, WholeInv
  <2> QED
    BY <2>3, <2>4, <2>5, <2>6, <2>7, <2>8 DEF MigrationInv
<1>7. CASE CopiesUser
  <2>0. PICK i : i = migrating.at
    OBVIOUS
  <2> DEFINE u == OldUsers[i]
  <2>1. /\ migrating.stage = 0 /\ i \in Olds /\ i \in Nat /\ Underway /\ UNCHANGED <<copies, out, migrations>>
    BY <1>7, <2>0, TheOlds DEF CopiesUser, Underway, NoMigration, RunAt
  <2>2. CASE migrating' = NoMigration
    BY <1>0, <1>7, <2>1, <2>2, BesidesTheRun DEF CopiesUser, EndsRun, GoesOnWith, RunAt, NoMigration, MigrationTypeOK
  <2>3. CASE migrating' # NoMigration
    <3>1. /\ migrating' = RunAt(0, i + 1) /\ migrating'.stage = 0 /\ migrating'.at = i + 1
          /\ ended' = ended /\ Underway'
          /\ \/ MailOfMember(u.mail) /\ members' = members
             \/ ~MailOfMember(u.mail) /\ members' = members \cup {Member(u.mail, u.name, i)}
      BY <1>7, <2>0, <2>1, <2>3 DEF CopiesUser, EndsRun, GoesOnWith, RunAt, Underway
    <3>2. \A e : MailOfMember(e) => MailOfMember(e)'
      BY <3>1 DEF MailOfMember
    <3>3. MailOfMember(u.mail)'
      <4>1. CASE MailOfMember(u.mail)
        BY <3>2, <4>1
      <4>2. CASE ~MailOfMember(u.mail)
        <5>1. Member(u.mail, u.name, i) \in members' /\ Member(u.mail, u.name, i).mail = u.mail
          BY <3>1, <4>2 DEF Member
        <5> HIDE DEF u
        <5> QED
          BY <5>1 DEF MailOfMember
      <4> QED
        BY <4>1, <4>2
    <3>4. \A j \in Olds : j < i + 1 => MailOfMember(OldUsers[j].mail)'
      <4> SUFFICES ASSUME NEW j \in Olds, j < i + 1 PROVE MailOfMember(OldUsers[j].mail)'
        OBVIOUS
      <4>1. CASE j = i
        BY <3>3, <4>1
      <4>2. CASE j # i
        <5>1. j < i
          BY <2>1, <4>2, TheOlds
        <5>2. MailOfMember(OldUsers[j].mail)
          BY <2>0, <2>1, <5>1 DEF MigrationInv, MailsInv
        <5> QED
          BY <3>2, <5>2
      <4> QED
        BY <4>1, <4>2
    <3>5. \A k \in 1 .. 5, j \in Olds : ~Past(k, j) /\ ~Past(k, j)' /\ Copied(k, j)' = Copied(k, j) /\ Copied(k, j) \in Nat
      <4>1. \A k \in 1 .. 5, j \in Olds : ~Past(k, j) /\ ~Past(k, j)'
        BY <2>0, <2>1, <3>1, TheOlds DEF Past
      <4>2. \A k \in 1 .. 5, j \in Olds : Copied(k, j)' = Copied(k, j) /\ Copied(k, j) \in Nat
        <5>1. copies' = copies /\ copies \in [TableNames -> [Olds -> Nat]]
          BY <1>0, <2>1, TheOlds DEF MigrationTypeOK
        <5> QED
          BY <5>1, TheTables DEF Copied
      <4> QED
        BY <4>1, <4>2
    <3>6. \A j \in Olds : \A t : Wanted(t, j) => Wanted(t, j)'
      BY <3>1 DEF Wanted, Migrated
    <3>7. (\E k \in 1 .. 5, j \in Olds : Copied(k, j) > 0) => \A j \in Olds : \A t : Wanted(t, j)' => Wanted(t, j)
      <4>1. (\E k \in 1 .. 5, j \in Olds : Copied(k, j) > 0) => MailsKnown
        BY DEF MigrationInv, MailsInv
      <4>2. MailsKnown => members' = members
        BY <2>1, <3>1 DEF MailsKnown
      <4> QED
        BY <4>1, <4>2 DEF Wanted, Migrated
    <3>8. MigrationTypeOK'
      <4>1. Member(u.mail, u.name, i) \in [mail : Mails, name : Usernames, old : {0} \cup Olds]
        BY <2>1, TheOlds DEF Member
      <4>2. migrating' \in [stage : 0 .. Len(CopiedTables), at : 0 .. Len(OldUsers) + 1]
        BY <2>1, <3>1, TheOlds, TheTables DEF RunAt
      <4> QED
        BY <1>0, <2>1, <3>1, <4>1, <4>2 DEF MigrationTypeOK
    <3> HIDE DEF u
    <3>9. RunInv'
      BY <2>0, <2>1, <3>1 DEF MigrationInv, RunInv
    <3>10. CountedInv'
      BY <2>1, <3>5 DEF MigrationInv, CountedInv
    <3>11. MailsInv'
      <4>1. (\E k \in 1 .. 5, j \in Olds : Copied(k, j)' > 0) => MailsKnown'
        <5>1. (\E k \in 1 .. 5, j \in Olds : Copied(k, j) > 0) => MailsKnown
          BY DEF MigrationInv, MailsInv
        <5>2. MailsKnown => MailsKnown'
          BY <3>2 DEF MailsKnown
        <5> QED
          BY <3>5, <5>1, <5>2
      <4> QED
        BY <3>1, <3>4, <4>1 DEF MailsInv
    <3>12. LooseInv'
      <4> SUFFICES ASSUME NEW j \in Olds, Wanted("machines", j)', NEW k \in 2 .. 5, NEW l \in Olds
                   PROVE  Copied(k, l) <= Copied(1, j)
        BY <3>5 DEF LooseInv
      <4>1. CASE Copied(k, l) > 0
        BY <3>7, <4>1 DEF MigrationInv, LooseInv
      <4>2. CASE Copied(k, l) = 0
        BY <3>5, <4>2
      <4> QED
        BY <3>5, <4>1, <4>2
    <3>13. WholeInv'
      BY <2>1, <3>1, <3>5, <3>6 DEF MigrationInv, WholeInv, RunInv
    <3> QED
      BY <3>8, <3>9, <3>10, <3>11, <3>12, <3>13 DEF MigrationInv
  <2> QED
    BY <2>2, <2>3
<1>8. CASE CopiesRow
  <2>1. CASE GoesOnWith
    BY <1>8, <2>1, RowIsPassed
  <2>2. CASE ~GoesOnWith
    <3>1. migrating' = NoMigration /\ ended' = "broken" /\ UNCHANGED <<members, copies, out, migrations>>
      BY <1>8, <2>2 DEF CopiesRow, EndsRun
    <3> QED
      BY <1>0, <3>1, BesidesTheRun DEF MigrationTypeOK
  <2> QED
    BY <2>1, <2>2
<1>9. CASE TableEnds
  <2> DEFINE s == migrating.stage
  <2>1. /\ Underway /\ migrating.at > Len(OldUsers) /\ migrating.at \in Nat /\ s \in 0 .. 5
        /\ UNCHANGED <<members, copies, out, migrations>>
    BY <1>0, <1>9, TheOlds, TheTables DEF TableEnds, Underway, MigrationInv, RunInv, MigrationTypeOK
  <2>2. \A k \in 1 .. 5, j \in Olds : Past(k, j) <=> k <= s
    BY <2>1, TheOlds DEF Past
  <2>3. /\ \A k \in 1 .. 5, j \in Olds : Copied(k, j)' = Copied(k, j)
        /\ \A j \in Olds : \A t : Wanted(t, j)' <=> Wanted(t, j)
        /\ MailsKnown' <=> MailsKnown
    BY <2>1 DEF Copied, Wanted, Migrated, MailsKnown, MailOfMember
  <2>4. MailsKnown
    <3>1. CASE s = 0
      BY <2>1, <3>1, TheOlds DEF MigrationInv, MailsInv, MailsKnown
    <3>2. CASE s # 0
      BY <2>1, <3>2 DEF MigrationInv, MailsInv
    <3> QED
      BY <3>1, <3>2
  <2>5. CASE s = 5
    <3>1. migrating' = NoMigration /\ ended' = "completed" /\ ~Underway'
      BY <1>9, <2>5, TheTables DEF TableEnds, EndsRun, Underway
    <3>2. MigrationTypeOK'
      BY <1>0, <2>1, <3>1, TheOlds, TheTables DEF MigrationTypeOK, NoMigration, RunAt
    <3>3. RunInv' /\ CountedInv' /\ MailsInv'
      BY <2>1, <2>3, <2>4, <3>1 DEF RunInv, CountedInv, MailsInv, MigrationInv
    <3>4. LooseInv'
      BY <2>3, <3>1 DEF LooseInv, MigrationInv
    <3>5. WholeInv'
      BY <2>1, <2>2, <2>3, <2>5, <3>1 DEF WholeInv, MigrationInv
    <3> QED
      BY <3>2, <3>3, <3>4, <3>5 DEF MigrationInv
  <2>6. CASE s # 5
    <3>1. /\ migrating' = RunAt(s + 1, 1) /\ migrating'.stage = s + 1 /\ migrating'.at = 1 /\ ended' = ended
          /\ Underway'
      BY <1>9, <2>1, <2>6, TheTables DEF TableEnds, Underway, RunAt, NoMigration
    <3>2. \A k \in 1 .. 5, j \in Olds : Past(k, j)' <=> k <= s
      BY <2>1, <3>1, TheOlds DEF Past
    <3>3. MigrationTypeOK'
      BY <1>0, <2>1, <2>6, <3>1, TheOlds, TheTables DEF MigrationTypeOK, RunAt
    <3>4. RunInv'
      BY <2>1, <3>1 DEF RunInv, MigrationInv
    <3>5. CountedInv'
      BY <2>1, <2>2, <2>3, <3>2 DEF CountedInv, MigrationInv
    <3>6. MailsInv'
      <4>1. s + 1 # 0
        BY <2>1
      <4> QED
        BY <2>3, <2>4, <3>1, <4>1 DEF MailsInv
    <3>7. LooseInv'
      BY <2>1, <2>2, <2>3, <3>2 DEF LooseInv, MigrationInv
    <3>8. WholeInv'
      BY <2>1, <2>2, <2>3, <3>1, <3>2 DEF WholeInv, MigrationInv
    <3> QED
      BY <3>3, <3>4, <3>5, <3>6, <3>7, <3>8 DEF MigrationInv
  <2> QED
    BY <2>5, <2>6
<1> QED
  BY <1>1, <1>2, <1>3, <1>4, <1>5, <1>6, <1>7, <1>8, <1>9 DEF MigrationNext

LEMMA MigrationKeeps == MigrationSpec => []MigrationInv
  BY MigrationBegins, MigrationStep, PTL DEF MigrationSpec

\* Rows that nothing protects are copied once while a machine was, and a run
\* that completes has copied all rows of the accounts it copied.
THEOREM MigrationsAreSound == MigrationSpec => [](MigrationTypeOK /\ LooseRowsOnce /\ CompletedIsWhole)
<1>1. ASSUME MigrationInv PROVE LooseRowsOnce
  <2> SUFFICES ASSUME NEW j \in Olds, copies["machines"][j] = 1,
                      NEW t \in TableNames \ {"machines"}, NEW i \in Olds
               PROVE  copies[t][i] <= 1
    BY DEF LooseRowsOnce
  <2>1. PICK k \in 1 .. 5 : t = CopiedTables[k]
    BY TheTables
  <2>2. k \in 2 .. 5 /\ Copied(1, j) = 1 /\ Copied(k, i) = copies[t][i]
    BY <2>1, TheTables DEF Copied
  <2>3. Wanted("machines", j)
    BY <1>1, <2>2, TheTables DEF MigrationInv, WholeInv
  <2> QED
    BY <1>1, <2>2, <2>3 DEF MigrationInv, LooseInv
<1>2. ASSUME MigrationInv PROVE CompletedIsWhole
  <2> SUFFICES ASSUME ended = "completed", NEW i \in Olds, Migrated(i), NEW t \in OldUsers[i].has
               PROVE  copies[t][i] > 0
    BY DEF CompletedIsWhole
  <2>1. PICK k \in 1 .. 5 : t = CopiedTables[k]
    BY TheTables, TheOlds
  <2> QED
    BY <1>2, <2>1 DEF MigrationInv, WholeInv, Wanted, Copied
<1>3. MigrationInv => MigrationTypeOK
  BY DEF MigrationInv
<1> QED
  BY <1>1, <1>2, <1>3, MigrationKeeps, PTL

-----------------------------------------------------------------------------
(* Passwords.                                                               *)

PasswordOps == {"none", "login", "change", "reset", "force", "forgot"}
WordsRead == [word : Words \cup {None}, open : BOOLEAN, second : BOOLEAN]
PCalls == [pc : {"idle", "begun", "found", "passed", "stored"}, op : PasswordOps, typed : Words \cup {None},
           new : Words \cup {None}, row : WordsRead, code : BOOLEAN]

\* The row that a request has read was the account's at a moment since it began.
ProvedInv ==
    \A c \in Calls :
        /\ pcall[c].op \in {"change", "reset", "force"} => pcall[c].new \in Words
        /\ pcall[c].op \in {"login", "change"} =>
              /\ pcall[c].pc = "found" /\ Justifies(pcall[c].row, pcall[c]) => proved[c]
              /\ pcall[c].pc \in {"passed", "stored"} => proved[c]

PasswordsInv ==
    /\ password \in Words /\ disabled \in BOOLEAN /\ secondFactor \in BOOLEAN /\ mailed \in BOOLEAN
    /\ pcall \in [Calls -> PCalls] /\ proved \in [Calls -> BOOLEAN]
    /\ ProvedInv

LEMMA IdlePasswords == PIdle \in PCalls /\ PIdle.op = "none" /\ PIdle.pc = "idle" /\ NoRow \in WordsRead
BY DEF PIdle, PCall, NoRow, PCalls, WordsRead, PasswordOps

LEMMA PasswordsBegin == PasswordsInit => PasswordsInv
<1> SUFFICES ASSUME PasswordsInit PROVE PasswordsInv
  OBVIOUS
<1>1. /\ password \in Words /\ disabled \in BOOLEAN /\ secondFactor \in BOOLEAN /\ mailed \in BOOLEAN
      /\ proved \in [Calls -> BOOLEAN]
  BY DEF PasswordsInit
<1>2. pcall \in [Calls -> PCalls] /\ \A c \in Calls : pcall[c].op = "none"
  <2> HIDE DEF PCalls
  <2> QED
    BY IdlePasswords DEF PasswordsInit
<1>3. ProvedInv
  BY <1>2 DEF ProvedInv
<1> QED
  BY <1>1, <1>2, <1>3 DEF PasswordsInv

\* A request c goes on to q: the others are as justified as they were, and what
\* q is justified by now counts.
LEMMA RequestGoesOn ==
    ASSUME PasswordsInv, NEW c \in Calls, NEW q \in PCalls, Continues(c, q),
           q.op \in {"change", "reset", "force"} => q.new \in Words,
           q.pc = "idle" \/ (q.op = pcall[c].op /\ pcall[c].pc # "idle" /\ q.pc = "passed" /\ proved[c])
             \/ q.op \notin {"login", "change"} \/ q.pc = "begun"
             \/ (q.pc = "found" /\ (Justifies(q.row, q) => Justifies(Row', q)))
             \/ (q = pcall[c])
             \/ (q.pc = "stored" /\ q.op = pcall[c].op /\ pcall[c].pc = "passed" /\ proved[c])
    PROVE  /\ pcall' \in [Calls -> PCalls] /\ proved' \in [Calls -> BOOLEAN]
           /\ ProvedInv'
<1>1. /\ pcall' = [pcall EXCEPT ![c] = q]
      /\ proved' = [d \in Calls |-> pcall'[d].pc # "idle" /\ (proved[d] \/ Justifies(Row', pcall'[d]))]
  BY DEF Continues
<1>2. pcall' \in [Calls -> PCalls] /\ proved' \in [Calls -> BOOLEAN]
  <2> HIDE DEF PCalls, Justifies
  <2> QED
    BY <1>1 DEF PasswordsInv
<1>3. pcall'[c] = q /\ \A d \in Calls : d # c => pcall'[d] = pcall[d]
  BY <1>1 DEF PasswordsInv
<1>4. \A d \in Calls : proved'[d] <=> pcall'[d].pc # "idle" /\ (proved[d] \/ Justifies(Row', pcall'[d]))
  BY <1>1
<1>5. ASSUME NEW d \in Calls
      PROVE  /\ pcall'[d].op \in {"change", "reset", "force"} => pcall'[d].new \in Words
             /\ pcall'[d].op \in {"login", "change"} =>
                  /\ pcall'[d].pc = "found" /\ Justifies(pcall'[d].row, pcall'[d]) => proved'[d]
                  /\ pcall'[d].pc \in {"passed", "stored"} => proved'[d]
  <2> HIDE DEF Justifies
  <2>1. CASE d # c
    BY <1>3, <1>4, <2>1 DEF PasswordsInv, ProvedInv
  <2>2. CASE d = c
    BY <1>3, <1>4, <2>2 DEF PasswordsInv, ProvedInv
  <2> QED
    BY <2>1, <2>2
<1> HIDE DEF Justifies
<1>6. ProvedInv'
  BY <1>5 DEF ProvedInv, Justifies
<1> QED
  BY <1>2, <1>6

LEMMA PasswordsStep == ASSUME PasswordsInv, [PasswordsNext]_passwordsVars PROVE PasswordsInv'
<1>0. /\ password \in Words /\ disabled \in BOOLEAN /\ secondFactor \in BOOLEAN /\ mailed \in BOOLEAN
      /\ pcall \in [Calls -> PCalls] /\ proved \in [Calls -> BOOLEAN] /\ Row \in WordsRead
  BY DEF PasswordsInv, Row, WordsRead
<1>00. ASSUME NEW c \in Calls
       PROVE  /\ pcall[c] \in PCalls
              /\ pcall[c].op \in {"change", "reset", "force"} => pcall[c].new \in Words
  BY <1>0 DEF PasswordsInv, ProvedInv
<1>1. ASSUME ProvedInv', pcall' \in [Calls -> PCalls], proved' \in [Calls -> BOOLEAN],
             UNCHANGED <<password, disabled, secondFactor>>, mailed' \in BOOLEAN
      PROVE  PasswordsInv'
  BY <1>0, <1>1 DEF PasswordsInv
<1>2. CASE UNCHANGED passwordsVars \/ TokenExpires
  <2>1. UNCHANGED <<password, disabled, secondFactor, pcall, proved>> /\ mailed' \in BOOLEAN
    BY <1>0, <1>2 DEF passwordsVars, TokenExpires
  <2>2. ProvedInv'
    BY <2>1 DEF PasswordsInv, ProvedInv, Justifies
  <2> QED
    BY <1>0, <1>1, <2>1, <2>2
<1>3. ASSUME NEW c \in Calls, AccountChanges(c) PROVE PasswordsInv'
  <2>1. /\ Continues(c, pcall[c]) /\ UNCHANGED <<password, mailed>>
        /\ disabled' \in BOOLEAN /\ secondFactor' \in BOOLEAN
    BY <1>0, <1>3 DEF AccountChanges
  <2>2. ProvedInv' /\ pcall' \in [Calls -> PCalls] /\ proved' \in [Calls -> BOOLEAN]
    BY <1>00, <2>1, RequestGoesOn
  <2> QED
    BY <1>0, <2>1, <2>2 DEF PasswordsInv
<1>4. ASSUME NEW c \in Calls, Begins(c) PROVE PasswordsInv'
  <2>1. PICK op \in {"login", "change", "reset", "force", "forgot"}, entered, new \in Words \cup {None}, code \in BOOLEAN :
          /\ op = "forgot" <=> new = None
          /\ UNCHANGED <<password, disabled, secondFactor, mailed>>
          /\ Continues(c, PCall("begun", op, entered, new, NoRow, code))
    BY <1>4 DEF Begins
  <2> DEFINE q == PCall("begun", op, entered, new, NoRow, code)
  <2>2. q \in PCalls /\ q.pc = "begun" /\ (q.op \in {"change", "reset", "force"} => q.new \in Words)
    BY <2>1, IdlePasswords DEF PCall, PCalls, PasswordOps
  <2> HIDE DEF q
  <2>3. ProvedInv' /\ pcall' \in [Calls -> PCalls] /\ proved' \in [Calls -> BOOLEAN]
    <3>1. Continues(c, q)
      BY <2>1 DEF q
    <3> QED
      BY <2>2, <3>1, RequestGoesOn
  <2> QED
    BY <1>0, <1>1, <2>1, <2>3
\* The request c ends.
<1>5. ASSUME NEW c \in Calls, Continues(c, PIdle)
      PROVE  ProvedInv' /\ pcall' \in [Calls -> PCalls] /\ proved' \in [Calls -> BOOLEAN]
  BY <1>5, IdlePasswords, RequestGoesOn
<1>6. ASSUME NEW c \in Calls, FindsAccount(c) PROVE PasswordsInv'
  <2> DEFINE q == [pcall[c] EXCEPT !.pc = "found", !.row = RowFor(pcall[c].op)]
  <2>1. /\ pcall[c].pc = "begun" /\ UNCHANGED <<password, disabled, secondFactor, mailed>>
        /\ Continues(c, q) \/ Continues(c, PIdle)
    BY <1>6 DEF FindsAccount
  <2>2. q \in PCalls /\ q.pc = "found" /\ q.op = pcall[c].op /\ q.new = pcall[c].new
        /\ q.row = RowFor(pcall[c].op)
    BY <1>0, <1>00, IdlePasswords DEF PCalls, RowFor
  <2>3. q.op \in {"login", "change"} => q.row = Row /\ Row' = Row
    BY <2>1, <2>2 DEF RowFor, Row
  <2> HIDE DEF q
  <2>4. ProvedInv' /\ pcall' \in [Calls -> PCalls] /\ proved' \in [Calls -> BOOLEAN]
    <3>1. CASE Continues(c, PIdle)
      BY <1>5, <3>1
    <3>2. CASE Continues(c, q)
      <4>1. q.op \in {"change", "reset", "force"} => q.new \in Words
        BY <1>00, <2>2
      <4>2. q.op \notin {"login", "change"} \/ (q.pc = "found" /\ (Justifies(q.row, q) => Justifies(Row', q)))
        BY <2>2, <2>3
      <4> QED
        BY <2>2, <3>2, <4>1, <4>2, RequestGoesOn
    <3> QED
      BY <2>1, <3>1, <3>2
  <2> QED
    BY <1>0, <1>1, <2>1, <2>4
<1>7. ASSUME NEW c \in Calls, Compares(c) PROVE PasswordsInv'
  <2> DEFINE q == [pcall[c] EXCEPT !.pc = "passed", !.row = NoRow]
             passes == CASE pcall[c].op = "login" -> Admitted(pcall[c])
                         [] pcall[c].op = "change" -> pcall[c].typed = pcall[c].row.word
                         [] OTHER -> TRUE
  <2>1. /\ pcall[c].pc = "found" /\ UNCHANGED <<password, disabled, secondFactor, mailed>>
        /\ (passes /\ Continues(c, q)) \/ Continues(c, PIdle)
    BY <1>7 DEF Compares
  <2>2. q \in PCalls /\ q.pc = "passed" /\ q.op = pcall[c].op /\ q.new = pcall[c].new
    BY <1>0, <1>00, IdlePasswords DEF PCalls
  <2>3. passes /\ pcall[c].op \in {"login", "change"} => Justifies(pcall[c].row, pcall[c])
    BY DEF Admitted, Justifies
  <2>4. passes /\ pcall[c].op \in {"login", "change"} => proved[c]
    <3> HIDE DEF passes
    <3> QED
      BY <2>1, <2>3 DEF PasswordsInv, ProvedInv
  <2> HIDE DEF q, passes
  <2>5. ProvedInv' /\ pcall' \in [Calls -> PCalls] /\ proved' \in [Calls -> BOOLEAN]
    <3>1. CASE Continues(c, PIdle)
      BY <1>5, <3>1
    <3>2. CASE passes /\ Continues(c, q)
      <4>1. q.op \in {"change", "reset", "force"} => q.new \in Words
        BY <1>00, <2>2
      <4> QED
        BY <2>1, <2>2, <2>4, <3>2, <4>1, RequestGoesOn
    <3> QED
      BY <2>1, <3>1, <3>2
  <2> QED
    BY <1>0, <1>1, <2>1, <2>5
<1>8. ASSUME NEW c \in Calls, LoginIsStored(c) PROVE PasswordsInv'
  <2> DEFINE q == [pcall[c] EXCEPT !.pc = "stored"]
  <2>1. /\ pcall[c].pc = "passed" /\ pcall[c].op = "login" /\ Continues(c, q)
        /\ UNCHANGED <<password, disabled, secondFactor, mailed>>
    BY <1>8 DEF LoginIsStored
  <2>2. q \in PCalls /\ q.pc = "stored" /\ q.op = "login"
    BY <1>00, <2>1 DEF PCalls
  <2>3. proved[c]
    BY <2>1 DEF PasswordsInv, ProvedInv
  <2> HIDE DEF q
  <2>4. ProvedInv' /\ pcall' \in [Calls -> PCalls] /\ proved' \in [Calls -> BOOLEAN]
    BY <2>1, <2>2, <2>3, RequestGoesOn
  <2> QED
    BY <1>0, <1>1, <2>1, <2>4
<1>9. ASSUME NEW c \in Calls,
             issueAccessAndRefreshTokens(c) \/ forgotPassword(c) \/ PasswordFails(c)
      PROVE  PasswordsInv'
  <2>1. Continues(c, PIdle) /\ UNCHANGED <<password, disabled, secondFactor>> /\ mailed' \in BOOLEAN
    BY <1>0, <1>9 DEF issueAccessAndRefreshTokens, forgotPassword, PasswordFails
  <2> QED
    BY <1>1, <1>5, <2>1
<1>10. ASSUME NEW c \in Calls, SetsPassword(c) PROVE PasswordsInv'
  <2>1. Continues(c, PIdle) /\ UNCHANGED <<disabled, secondFactor, mailed>>
        /\ password' = pcall[c].new /\ pcall[c].op \in {"change", "reset", "force"}
    BY <1>10 DEF SetsPassword
  <2> QED
    BY <1>0, <1>00, <1>5, <2>1 DEF PasswordsInv
<1> QED
  BY <1>2, <1>3, <1>4, <1>6, <1>7, <1>8, <1>9, <1>10 DEF PasswordsNext

\* However its comparison and the changes of the row interleave, a login or a
\* change of the password that got past its checks was justified at one moment
\* since it began (Passwords, AccountsAreSound).
THEOREM PasswordsAreChecked == PasswordsSpec => [](PasswordsTypeOK /\ ChecksHeldAtOnce)
<1>1. PasswordsInv => PasswordsTypeOK /\ ChecksHeldAtOnce
  <2> SUFFICES ASSUME PasswordsInv PROVE PasswordsTypeOK /\ ChecksHeldAtOnce
    OBVIOUS
  <2>1. \A c \in Calls : pcall[c] \in PCalls
    BY DEF PasswordsInv
  <2>2. PasswordsTypeOK
    BY <2>1 DEF PasswordsInv, PasswordsTypeOK, PCalls
  <2>3. ChecksHeldAtOnce
    BY DEF PasswordsInv, ProvedInv, ChecksHeldAtOnce
  <2> QED
    BY <2>2, <2>3
<1>2. PasswordsInv /\ [PasswordsNext]_passwordsVars => PasswordsInv'
  BY PasswordsStep
<1> QED
  BY <1>1, <1>2, PasswordsBegin, PTL DEF PasswordsSpec

-----------------------------------------------------------------------------
(* Accounts.                                                                *)

Stored == [id : Nat, username : Spellings, email : Spellings, ip : Ips, by : {None} \cup Nat]
Typed == [id : {None}, username : Spellings, email : Spellings, ip : Ips, by : {None} \cup Nat]
\* The requests whose row is inserted by a transaction still open.
OpenRows == {d \in Calls : acall[d].pc \in {"inserted", "missing", "ready"}}
Registered == 1 .. Cardinality(users)

\* The accounts are numbered as they come, each by itself; emails are stored
\* as they are compared.
UsersInv ==
    /\ IsFiniteSet(users) /\ users \subseteq Stored
    /\ \A u \in users : u.id \in Registered /\ Fold[u.email] = u.email
    /\ \A u, v \in users : u.id = v.id \/ u.email = v.email \/ u.username = v.username => u = v
    /\ \A u \in users : u.by # None => u.by \in Nat \ {0} /\ u.by < u.id
    /\ users # {} => welcome
    /\ Cardinality(users) + Cardinality(OpenRows) <= MaxAccounts

\* The rows of open transactions repeat none in the table, and none of each
\* other.
OpenInv ==
    /\ \A c \in OpenRows, u \in users : u.username # acall[c].user.username /\ u.email # acall[c].user.email
    /\ \A c, d \in OpenRows : acall[c].user.username = acall[d].user.username
                              \/ acall[c].user.email = acall[d].user.email => c = d

RegistrationRows ==
    [pc : {"counted", "new", "referred", "inserted", "missing", "ready"}, user : Typed]

RequestsInv ==
    /\ acall \in [Calls -> RegistrationRows \cup {NoRegistration}]
    /\ \A c \in Calls : acall[c] # NoRegistration =>
          /\ Fold[acall[c].user.email] = acall[c].user.email
          /\ acall[c].user.by # None => acall[c].user.by \in Registered
    /\ \A c \in Calls : acall[c].pc = "ready" => welcome

\* A registration alone finds its answers still true when it commits.
AloneInv ==
    /\ ~crossed => \A c, d \in Calls : acall[c].pc # "idle" /\ acall[d].pc # "idle" => c = d
    /\ ~crossed => \A c \in Calls, u \in users :
          acall[c].pc \notin {"idle", "counted"} => ~SameName(u.username, acall[c].user.username)
    /\ ~crossed /\ ~moved => \A c \in Calls :
          acall[c].pc # "idle" => Cardinality(AccountsOf(acall[c].user.ip)) < Limit

AccountsInv ==
    /\ welcome \in BOOLEAN /\ crossed \in BOOLEAN /\ moved \in BOOLEAN
    /\ UsersInv /\ OpenInv /\ RequestsInv /\ AloneInv
    /\ NamesAreDistinct /\ RegistrationsAreLimited

LEMMA AccountConstants ==
    /\ Fold \in [Spellings -> Spellings] /\ Forms \subseteq Spellings \X Spellings
    /\ Limit \in Nat /\ MaxAccounts \in Nat
    /\ \A s \in Spellings : Fold[s] \in Spellings /\ Fold[Fold[s]] = Fold[s]
BY AccountsAssumption

LEMMA NobodyRegisters == NoRegistration.pc = "idle" /\ NoRegistration \notin RegistrationRows
                         /\ \A r \in RegistrationRows : r.pc # "idle" /\ r # NoRegistration
BY DEF NoRegistration, Registration, RegistrationRows

LEMMA OpenAreCalls == OpenRows \subseteq Calls /\ IsFiniteSet(OpenRows) /\ Cardinality(OpenRows) \in Nat
<1>1. OpenRows \in SUBSET Calls
  BY DEF OpenRows
<1> QED
  BY <1>1, CallsAreCounted

LEMMA AccountsBegin == AccountsInit => AccountsInv
<1> SUFFICES ASSUME AccountsInit PROVE AccountsInv
  OBVIOUS
<1>1. acall = [c \in Calls |-> NoRegistration] /\ users = {} /\ \A c \in Calls : acall[c].pc = "idle"
  BY NobodyRegisters DEF AccountsInit
<1>2. OpenRows = {}
  BY <1>1 DEF OpenRows
<1>3. IsFiniteSet({}) /\ Cardinality({}) = 0
  BY FS_EmptySet
<1>4. UsersInv
  BY <1>1, <1>2, <1>3, AccountConstants DEF UsersInv
<1>5. OpenInv
  BY <1>2 DEF OpenInv
<1>6. RequestsInv
  BY <1>1 DEF RequestsInv
<1>7. AloneInv
  BY <1>1 DEF AloneInv
<1>8. NamesAreDistinct
  BY <1>1 DEF NamesAreDistinct
<1>9. RegistrationsAreLimited
  <2>1. \A ip \in Ips : AccountsOf(ip) = {}
    BY <1>1 DEF AccountsOf
  <2> QED
    BY <1>3, <2>1, AccountConstants DEF RegistrationsAreLimited
<1> QED
  BY <1>4, <1>5, <1>6, <1>7, <1>8, <1>9 DEF AccountsInv, AccountsInit

\* A request goes on to q; no account is stored.

IsOpen(q) == q.pc \in {"inserted", "missing", "ready"}

\* A request c goes on to q, and no account is stored.
LEMMA RegistrationGoesOn ==
    ASSUME AccountsInv, NEW c \in Calls, NEW q \in RegistrationRows \cup {NoRegistration},
           acall' = [acall EXCEPT ![c] = q],
           users' = users, moved' = moved, crossed' \in BOOLEAN, crossed => crossed',
           welcome' \in BOOLEAN, welcome => welcome', q.pc = "ready" => welcome',
           q # NoRegistration => /\ Fold[q.user.email] = q.user.email
                                 /\ q.user.by # None => q.user.by \in Registered,
           IsOpen(q) => \/ IsOpen(acall[c]) /\ q.user = acall[c].user
                        \/ /\ ~IsOpen(acall[c])
                           /\ Cardinality(users) + Cardinality(OpenRows) < MaxAccounts
                           /\ \A u \in users : u.username # q.user.username /\ u.email # q.user.email
                           /\ \A d \in OpenRows : acall[d].user.username # q.user.username
                                                  /\ acall[d].user.email # q.user.email,
           ~crossed' /\ q.pc # "idle" =>
              /\ \A d \in Calls : d # c => acall[d].pc = "idle"
              /\ q.pc # "counted" => \A u \in users : ~SameName(u.username, q.user.username)
              /\ ~moved => Cardinality(AccountsOf(q.user.ip)) < Limit
    PROVE  AccountsInv'
<1>1. /\ acall' \in [Calls -> RegistrationRows \cup {NoRegistration}]
      /\ acall'[c] = q /\ \A d \in Calls : d # c => acall'[d] = acall[d]
  <2> HIDE DEF RegistrationRows, NoRegistration
  <2> QED
    BY DEF AccountsInv, RequestsInv
<1>2. Cardinality(users) \in Nat /\ Registered' = Registered
  BY FS_CardinalityType DEF AccountsInv, UsersInv, Registered
<1>3. /\ IsOpen(acall[c]) <=> c \in OpenRows
      /\ IsOpen(q) <=> c \in OpenRows'
      /\ \A d \in Calls : d # c => (d \in OpenRows' <=> d \in OpenRows)
  BY <1>1 DEF OpenRows, IsOpen
<1>4. Cardinality(users') + Cardinality(OpenRows') <= MaxAccounts
  <2>1. Cardinality(users) + Cardinality(OpenRows) <= MaxAccounts /\ MaxAccounts \in Nat
    BY AccountConstants DEF AccountsInv, UsersInv
  <2>0. OpenRows' \subseteq Calls
    BY DEF OpenRows
  <2>2. CASE IsOpen(q) /\ IsOpen(acall[c])
    <3>1. OpenRows' = OpenRows
      BY <1>3, <2>0, <2>2, OpenAreCalls
    <3> QED
      BY <2>1, <3>1
  <2>3. CASE IsOpen(q) /\ ~IsOpen(acall[c])
    <3>1. OpenRows' = OpenRows \cup {c}
      BY <1>3, <2>0, <2>3, OpenAreCalls
    <3>2. Cardinality(OpenRows \cup {c}) = Cardinality(OpenRows) + 1
      BY <1>3, <2>3, OpenAreCalls, FS_AddElement
    <3>3. Cardinality(users) + Cardinality(OpenRows) < MaxAccounts
      BY <2>3
    <3> QED
      BY <1>2, <2>1, <3>1, <3>2, <3>3, OpenAreCalls
  <2>4. CASE ~IsOpen(q)
    <3>1. OpenRows' \subseteq OpenRows
      BY <1>3, <2>0, <2>4
    <3>2. Cardinality(OpenRows') <= Cardinality(OpenRows) /\ Cardinality(OpenRows') \in Nat
      BY <3>1, OpenAreCalls, FS_Subset, FS_CardinalityType
    <3> QED
      BY <1>2, <2>1, <3>2, OpenAreCalls
  <2> QED
    BY <2>2, <2>3, <2>4
<1>5. UsersInv'
  BY <1>2, <1>4 DEF AccountsInv, UsersInv
<1>6. OpenInv'
  <2>1. ASSUME NEW a \in OpenRows', NEW u \in users
        PROVE  u.username # acall'[a].user.username /\ u.email # acall'[a].user.email
    <3>1. CASE a # c
      <4>1. a \in OpenRows /\ acall'[a] = acall[a]
        BY <1>1, <1>3, <3>1 DEF OpenRows
      <4> QED
        BY <4>1 DEF AccountsInv, OpenInv
    <3>2. CASE a = c
      BY <1>1, <1>3, <3>2 DEF AccountsInv, OpenInv
    <3> QED
      BY <3>1, <3>2
  <2>2. ASSUME NEW a \in OpenRows', NEW b \in OpenRows', a # b
        PROVE  acall'[a].user.username # acall'[b].user.username /\ acall'[a].user.email # acall'[b].user.email
    <3>0. a \in Calls /\ b \in Calls
      BY DEF OpenRows
    <3>1. CASE a # c /\ b # c
      BY <1>1, <1>3, <2>2, <3>0, <3>1 DEF AccountsInv, OpenInv
    <3>2. CASE a = c
      <4>1. b # c /\ b \in OpenRows /\ acall'[b] = acall[b] /\ IsOpen(q) /\ acall'[a] = q
        BY <1>1, <1>3, <2>2, <3>0, <3>2
      <4> QED
        BY <1>3, <4>1 DEF AccountsInv, OpenInv
    <3>3. CASE b = c
      <4>1. a # c /\ a \in OpenRows /\ acall'[a] = acall[a] /\ IsOpen(q) /\ acall'[b] = q
        BY <1>1, <1>3, <2>2, <3>0, <3>3
      <4> QED
        BY <1>3, <4>1 DEF AccountsInv, OpenInv
    <3> QED
      BY <3>1, <3>2, <3>3
  <2> QED
    BY <2>1, <2>2 DEF OpenInv
<1>7. RequestsInv'
  BY <1>1, <1>2 DEF AccountsInv, RequestsInv
<1>8. AloneInv'
  <2>1. ~crossed' => \A a, b \in Calls : acall'[a].pc # "idle" /\ acall'[b].pc # "idle" => a = b
    BY <1>1 DEF AccountsInv, AloneInv
  <2>2. ~crossed' => \A a \in Calls, u \in users :
          acall'[a].pc \notin {"idle", "counted"} => ~SameName(u.username, acall'[a].user.username)
    BY <1>1 DEF AccountsInv, AloneInv
  <2>3. \A ip : AccountsOf(ip)' = AccountsOf(ip)
    BY DEF AccountsOf
  <2>4. ~crossed' /\ ~moved' => \A a \in Calls :
          acall'[a].pc # "idle" => Cardinality(AccountsOf(acall'[a].user.ip)) < Limit
    BY <1>1 DEF AccountsInv, AloneInv
  <2> QED
    BY <2>1, <2>2, <2>4 DEF AloneInv, AccountsOf
<1>9. NamesAreDistinct' /\ RegistrationsAreLimited'
  BY DEF AccountsInv, NamesAreDistinct, RegistrationsAreLimited, AccountsOf
<1> QED
  BY <1>5, <1>6, <1>7, <1>8, <1>9 DEF AccountsInv

LEMMA RowsOfRequests ==
    ASSUME AccountsInv, NEW c \in Calls, acall[c].pc # "idle"
    PROVE  /\ acall[c] \in RegistrationRows /\ acall[c] # NoRegistration /\ acall[c].user \in Typed
           /\ Fold[acall[c].user.email] = acall[c].user.email
           /\ acall[c].user.by # None => acall[c].user.by \in Registered
           /\ \A pc \in {"counted", "new", "referred", "inserted", "missing", "ready"}, row \in Typed :
                 Registration(pc, row) \in RegistrationRows /\ Registration(pc, row).pc = pc
                 /\ Registration(pc, row).user = row
           /\ ~crossed => \A d \in Calls : d # c => acall[d].pc = "idle"
           /\ ~crossed /\ acall[c].pc # "counted" =>
                 \A u \in users : ~SameName(u.username, acall[c].user.username)
           /\ ~crossed /\ ~moved => Cardinality(AccountsOf(acall[c].user.ip)) < Limit
<1>1. acall[c] \in RegistrationRows /\ acall[c] # NoRegistration
  BY NobodyRegisters DEF AccountsInv, RequestsInv
<1>2. acall[c].user \in Typed
  BY <1>1 DEF RegistrationRows
<1>3. \A pc \in {"counted", "new", "referred", "inserted", "missing", "ready"}, row \in Typed :
        Registration(pc, row) \in RegistrationRows /\ Registration(pc, row).pc = pc
        /\ Registration(pc, row).user = row
  BY DEF Registration, RegistrationRows
<1> QED
  BY <1>1, <1>2, <1>3, NobodyRegisters DEF AccountsInv, RequestsInv, AloneInv

\* A request that is ended.
LEMMA RegistrationEnds ==
    ASSUME AccountsInv, NEW c \in Calls, acall' = [acall EXCEPT ![c] = NoRegistration],
           users' = users, moved' = moved, crossed' \in BOOLEAN, crossed => crossed',
           welcome' \in BOOLEAN, welcome => welcome'
    PROVE  AccountsInv'
<1>1. NoRegistration.pc = "idle" /\ ~IsOpen(NoRegistration)
  BY NobodyRegisters DEF IsOpen
<1> QED
  BY <1>1, RegistrationGoesOn

LEMMA RegisterHolds == ASSUME AccountsInv, NEW c \in Calls, register(c) PROVE AccountsInv'
<1>1. PICK form \in Forms, ip \in Ips, by \in {None} \cup {u.id : u \in users} :
        /\ acall[c].pc = "idle"
        /\ Registers(c, IF HasRoom(ip)
                        THEN Registration("counted", Account(None, form[1], normalizeEmail(form[2]), ip, by))
                        ELSE NoRegistration)
        /\ crossed' = (crossed \/ \E d \in Calls : acall[d].pc # "idle")
        /\ UNCHANGED <<users, welcome, moved>>
  BY DEF register
<1>2. crossed' \in BOOLEAN /\ (crossed => crossed') /\ (~crossed' => \A d \in Calls : acall[d].pc = "idle")
      /\ welcome' \in BOOLEAN
  BY <1>1 DEF AccountsInv
<1> DEFINE row == Account(None, form[1], normalizeEmail(form[2]), ip, by)
           q == Registration("counted", row)
<1>3. CASE HasRoom(ip)
  <2>1. form[1] \in Spellings /\ form[2] \in Spellings
    BY AccountConstants
  <2>2. by # None => by \in Registered /\ by \in Nat
    <3>1. \A u \in users : u.id \in Registered /\ u.id \in Nat
      BY DEF AccountsInv, UsersInv, Stored, Registered
    <3> QED
      BY <3>1
  <2>3. normalizeEmail(form[2]) \in Spellings /\ Fold[normalizeEmail(form[2])] = normalizeEmail(form[2])
    BY <2>1, AccountConstants DEF normalizeEmail
  <2>4. row \in Typed /\ row.email = normalizeEmail(form[2]) /\ row.by = by /\ row.ip = ip
    BY <2>1, <2>2, <2>3 DEF Account, Typed
  <2> HIDE DEF row
  <2>5. q \in RegistrationRows /\ q.pc = "counted" /\ q.user = row /\ ~IsOpen(q)
    BY <2>4 DEF Registration, RegistrationRows, IsOpen
  <2>6. Cardinality(AccountsOf(q.user.ip)) < Limit
    BY <1>3, <2>4, <2>5 DEF HasRoom
  <2>7. acall' = [acall EXCEPT ![c] = q]
    BY <1>1, <1>3 DEF Registers, row
  <2> HIDE DEF q
  <2> QED
    BY <1>1, <1>2, <2>2, <2>3, <2>4, <2>5, <2>6, <2>7, RegistrationGoesOn
<1>4. CASE ~HasRoom(ip)
  <2>1. acall' = [acall EXCEPT ![c] = NoRegistration]
    BY <1>1, <1>4 DEF Registers
  <2> QED
    BY <1>1, <1>2, <2>1, RegistrationEnds
<1> QED
  BY <1>3, <1>4

\* The steps of a request that has begun, but for its commit.
LEMMA StepsHold ==
    ASSUME AccountsInv, NEW c \in Calls,
           FindsExisting(c) \/ FindsReferrer(c) \/ InsertsAccount(c) \/ FindsWelcomeMiner(c)
           \/ ensureWelcomeMiner(c) \/ RegisterFails(c)
    PROVE  AccountsInv'
<1> DEFINE new == acall[c].user
<1>1. /\ users' = users /\ crossed' = crossed /\ moved' = moved /\ welcome' \in BOOLEAN /\ (welcome => welcome')
      /\ acall[c].pc # "idle"
  BY DEF FindsExisting, FindsReferrer, InsertsAccount, FindsWelcomeMiner, ensureWelcomeMiner, RegisterFails,
         AccountsInv
<1>2. /\ crossed' \in BOOLEAN /\ (crossed => crossed') /\ welcome \in BOOLEAN
  BY <1>1 DEF AccountsInv
<1>3. CASE acall' = [acall EXCEPT ![c] = NoRegistration]
  BY <1>1, <1>2, <1>3, RegistrationEnds
<1>4. CASE FindsExisting(c) /\ acall' # [acall EXCEPT ![c] = NoRegistration]
  <2> DEFINE q == Registration("new", new)
  <2>1. /\ acall' = [acall EXCEPT ![c] = q]
        /\ \A u \in users : ~SameName(u.username, new.username)
    BY <1>4 DEF FindsExisting, Registers
  <2>2. q \in RegistrationRows /\ q.pc = "new" /\ q.user = new /\ ~IsOpen(q)
    BY <1>1, RowsOfRequests DEF IsOpen
  <2>3. /\ Fold[q.user.email] = q.user.email
        /\ q.user.by # None => q.user.by \in Registered
        /\ ~crossed' /\ q.pc # "idle" =>
              /\ \A d \in Calls : d # c => acall[d].pc = "idle"
              /\ q.pc # "counted" => \A u \in users : ~SameName(u.username, q.user.username)
              /\ ~moved => Cardinality(AccountsOf(q.user.ip)) < Limit
    BY <1>1, <2>1, <2>2, RowsOfRequests
  <2> HIDE DEF q
  <2> QED
    BY <1>1, <1>2, <2>1, <2>2, <2>3, RegistrationGoesOn
<1>5. CASE FindsReferrer(c)
  <2> DEFINE row == [new EXCEPT !.by = IF \E u \in users : u.id = new.by /\ u.ip # new.ip THEN @ ELSE None]
             q == Registration("referred", row)
  <2>1. acall' = [acall EXCEPT ![c] = q] /\ acall[c].pc = "new"
    BY <1>5 DEF FindsReferrer, Registers
  <2>2. new \in Typed
    BY <1>1, RowsOfRequests
  <2>3. /\ row \in Typed /\ row.email = new.email /\ row.username = new.username /\ row.ip = new.ip
        /\ row.by # None => row.by = new.by
    BY <2>2 DEF Typed
  <2> HIDE DEF row
  <2>4. q \in RegistrationRows /\ q.pc = "referred" /\ q.user = row /\ ~IsOpen(q)
    BY <1>1, <2>3, RowsOfRequests DEF IsOpen
  <2>5. /\ Fold[q.user.email] = q.user.email
        /\ q.user.by # None => q.user.by \in Registered
        /\ ~crossed' /\ q.pc # "idle" =>
              /\ \A d \in Calls : d # c => acall[d].pc = "idle"
              /\ q.pc # "counted" => \A u \in users : ~SameName(u.username, q.user.username)
              /\ ~moved => Cardinality(AccountsOf(q.user.ip)) < Limit
    BY <1>1, <2>1, <2>3, <2>4, RowsOfRequests
  <2> HIDE DEF q
  <2> QED
    BY <1>1, <1>2, <2>1, <2>4, <2>5, RegistrationGoesOn
\* The row is kept as it is.
<1>6. ASSUME NEW pc \in {"inserted", "missing", "ready"},
             acall' = [acall EXCEPT ![c] = Registration(pc, new)], acall[c].pc # "counted",
             pc = "ready" => welcome',
             \/ IsOpen(acall[c])
             \/ /\ ~IsOpen(acall[c])
                /\ Cardinality(users) + Cardinality(OpenRows) < MaxAccounts
                /\ \A u \in users : u.username # new.username /\ u.email # new.email
                /\ \A d \in OpenRows : acall[d].user.username # new.username
                                       /\ acall[d].user.email # new.email
      PROVE  AccountsInv'
  <2> DEFINE q == Registration(pc, new)
  <2>2. q \in RegistrationRows /\ q.pc = pc /\ q.user = new
    BY <1>1, RowsOfRequests
  <2>3. /\ Fold[q.user.email] = q.user.email
        /\ q.user.by # None => q.user.by \in Registered
        /\ ~crossed' /\ q.pc # "idle" =>
              /\ \A d \in Calls : d # c => acall[d].pc = "idle"
              /\ q.pc # "counted" => \A u \in users : ~SameName(u.username, q.user.username)
              /\ ~moved => Cardinality(AccountsOf(q.user.ip)) < Limit
    BY <1>1, <1>6, <2>2, RowsOfRequests
  <2>4. acall' = [acall EXCEPT ![c] = q]
    BY <1>6
  <2> HIDE DEF q
  <2>5. IsOpen(q) => \/ IsOpen(acall[c]) /\ q.user = acall[c].user
                     \/ /\ ~IsOpen(acall[c])
                        /\ Cardinality(users) + Cardinality(OpenRows) < MaxAccounts
                        /\ \A u \in users : u.username # q.user.username /\ u.email # q.user.email
                        /\ \A d \in OpenRows : acall[d].user.username # q.user.username
                                               /\ acall[d].user.email # q.user.email
    BY <1>6, <2>2
  <2>6. q.pc = "ready" => welcome'
    BY <1>6, <2>2
  <2> QED
    BY <1>1, <1>2, <2>2, <2>3, <2>4, <2>5, <2>6, RegistrationGoesOn
<1>7. CASE InsertsAccount(c) /\ acall' # [acall EXCEPT ![c] = NoRegistration]
  <2>1. /\ acall[c].pc = "referred" /\ ~IsOpen(acall[c])
        /\ Cardinality(users) + Cardinality(OpenRows) < MaxAccounts
        /\ Blocking(new, c) = {} /\ Taken(new) = {}
        /\ acall' = [acall EXCEPT ![c] = Registration("inserted", new)]
    BY <1>7 DEF InsertsAccount, Registers, IsOpen, OpenRows
  <2>2. \A u \in users : u.username # new.username /\ u.email # new.email
    BY <2>1 DEF Taken
  <2>3. \A d \in OpenRows : acall[d].user.username # new.username /\ acall[d].user.email # new.email
    BY <2>1 DEF Blocking, OpenRows
  <2> QED
    BY <1>6, <2>1, <2>2, <2>3
<1>8. CASE FindsWelcomeMiner(c)
  <2>1. /\ acall[c].pc = "inserted" /\ IsOpen(acall[c]) /\ welcome' = welcome
        /\ \/ welcome /\ acall' = [acall EXCEPT ![c] = Registration("ready", new)]
           \/ ~welcome /\ acall' = [acall EXCEPT ![c] = Registration("missing", new)]
    BY <1>2, <1>8 DEF FindsWelcomeMiner, Registers, IsOpen
  <2> QED
    BY <1>6, <2>1
<1>9. CASE ensureWelcomeMiner(c) /\ acall' # [acall EXCEPT ![c] = NoRegistration]
  <2>1. /\ acall[c].pc = "missing" /\ IsOpen(acall[c]) /\ welcome'
        /\ acall' = [acall EXCEPT ![c] = Registration("ready", new)]
    BY <1>9 DEF ensureWelcomeMiner, Registers, IsOpen
  <2> QED
    BY <1>6, <2>1
<1>10. CASE RegisterFails(c)
  BY <1>3, <1>10 DEF RegisterFails, Registers
<1> QED
  BY <1>3, <1>4, <1>5, <1>7, <1>8, <1>9, <1>10

LEMMA CommitHolds == ASSUME AccountsInv, NEW c \in Calls, RegisterCommits(c) PROVE AccountsInv'
<1> DEFINE id == Cardinality(users) + 1
           new == acall[c].user
           row == [new EXCEPT !.id = id]
<1>1. /\ acall[c].pc = "ready" /\ users' = users \cup {row}
      /\ acall' = [acall EXCEPT ![c] = NoRegistration]
      /\ UNCHANGED <<welcome, crossed, moved>>
  BY DEF RegisterCommits, Registers
<1>2. /\ users \subseteq Stored /\ IsFiniteSet(users) /\ Cardinality(users) \in Nat /\ id \in Nat
      /\ \A u \in users : u.id \in 1 .. Cardinality(users) /\ u.id # id /\ u.id \in Nat
  <2>1. IsFiniteSet(users) /\ users \subseteq Stored /\ \A u \in users : u.id \in Registered
    BY DEF AccountsInv, UsersInv
  <2>2. Cardinality(users) \in Nat
    BY <2>1, FS_CardinalityType
  <2> QED
    BY <2>1, <2>2 DEF Registered
<1>3. /\ new \in Typed /\ Fold[new.email] = new.email
      /\ new.by # None => new.by \in 1 .. Cardinality(users)
      /\ ~crossed => (\A d \in Calls : d # c => acall[d].pc = "idle")
                     /\ \A u \in users : ~SameName(u.username, new.username)
      /\ ~crossed /\ ~moved => Cardinality(AccountsOf(new.ip)) < Limit
  BY <1>1, RowsOfRequests DEF Registered
<1>4. /\ row.id = id /\ row.username = new.username /\ row.email = new.email /\ row.ip = new.ip /\ row.by = new.by
      /\ new.username \in Spellings /\ new.email \in Spellings /\ new.ip \in Ips /\ new.by \in {None} \cup Nat
  BY <1>3 DEF Typed
<1>5. row \in Stored /\ row \notin users
  <2>1. row \in Stored
    BY <1>2, <1>3 DEF Typed, Stored
  <2> HIDE DEF row
  <2> QED
    BY <1>2, <1>4, <2>1
<1> HIDE DEF row
<1>6. IsFiniteSet(users') /\ Cardinality(users') = id
  BY <1>1, <1>2, <1>5, FS_AddElement
<1>7. c \in OpenRows /\ OpenRows' = OpenRows \ {c}
      /\ \A d \in Calls : d # c => acall'[d] = acall[d]
  <2>1. acall'[c] = NoRegistration /\ \A d \in Calls : d # c => acall'[d] = acall[d]
    BY <1>1 DEF AccountsInv, RequestsInv
  <2>2. c \in OpenRows /\ c \notin OpenRows'
    BY <1>1, <2>1, NobodyRegisters DEF OpenRows
  <2>3. \A d \in Calls : d # c => (d \in OpenRows' <=> d \in OpenRows)
    BY <2>1 DEF OpenRows
  <2>4. OpenRows' \subseteq Calls /\ OpenRows \subseteq Calls
    BY DEF OpenRows
  <2> QED
    BY <2>1, <2>2, <2>3, <2>4
<1>8. Cardinality(users') + Cardinality(OpenRows') <= MaxAccounts
  <2>1. Cardinality(OpenRows') = Cardinality(OpenRows) - 1
    BY <1>7, OpenAreCalls, FS_RemoveElement
  <2>2. Cardinality(users) + Cardinality(OpenRows) <= MaxAccounts
    BY DEF AccountsInv, UsersInv
  <2> HIDE DEF OpenRows
  <2> QED
    BY <1>2, <1>6, <2>1, <2>2, OpenAreCalls, AccountConstants
<1>9. \A u \in users : u.username # row.username /\ u.email # row.email
  BY <1>4, <1>7 DEF AccountsInv, OpenInv
<1>10. UsersInv'
  <2>1. users' \subseteq Stored
    BY <1>1, <1>2, <1>5
  <2>2. \A u \in users' : u.id \in Registered' /\ Fold[u.email] = u.email
    <3>1. \A u \in users : u.id \in 1 .. id /\ Fold[u.email] = u.email
      BY <1>2 DEF AccountsInv, UsersInv
    <3>2. row.id \in 1 .. id /\ Fold[row.email] = row.email
      BY <1>2, <1>3, <1>4
    <3> HIDE DEF id
    <3> QED
      BY <1>1, <1>6, <3>1, <3>2 DEF Registered
  <2>3. \A u, v \in users' : u.id = v.id \/ u.email = v.email \/ u.username = v.username => u = v
    <3> HIDE DEF id
    <3> QED
      BY <1>1, <1>2, <1>4, <1>9 DEF AccountsInv, UsersInv
  <2>4. \A u \in users' : u.by # None => u.by \in Nat \ {0} /\ u.by < u.id
    <3>1. row.by # None => row.by \in Nat \ {0} /\ row.by < row.id
      BY <1>2, <1>3, <1>4
    <3> QED
      BY <1>1, <3>1 DEF AccountsInv, UsersInv
  <2>5. welcome'
    BY <1>1 DEF AccountsInv, RequestsInv
  <2> QED
    BY <1>6, <1>8, <2>1, <2>2, <2>3, <2>4, <2>5 DEF UsersInv
<1>11. OpenInv'
  <2>1. \A a \in OpenRows' : a \in OpenRows /\ a # c /\ acall'[a] = acall[a]
    BY <1>7 DEF OpenRows
  <2>2. \A a \in OpenRows' : acall[a].user.username # row.username /\ acall[a].user.email # row.email
    BY <1>4, <1>7, <2>1 DEF AccountsInv, OpenInv
  <2> QED
    BY <1>1, <2>1, <2>2 DEF AccountsInv, OpenInv
<1>12. RequestsInv'
  <2>1. acall' \in [Calls -> RegistrationRows \cup {NoRegistration}] /\ acall'[c] = NoRegistration
    <3> HIDE DEF RegistrationRows, NoRegistration
    <3> QED
      BY <1>1 DEF AccountsInv, RequestsInv
  <2>2. Registered \subseteq Registered'
    <3>1. 1 .. Cardinality(users) \subseteq 1 .. id
      BY <1>2
    <3> HIDE DEF id
    <3> QED
      BY <1>6, <3>1 DEF Registered
  <2>3. \A d \in Calls : acall'[d] # NoRegistration =>
          /\ Fold[acall'[d].user.email] = acall'[d].user.email
          /\ acall'[d].user.by # None => acall'[d].user.by \in Registered'
    BY <1>7, <2>1, <2>2 DEF AccountsInv, RequestsInv
  <2>4. \A d \in Calls : acall'[d].pc = "ready" => welcome'
    BY <1>1, <1>7, <2>1, NobodyRegisters DEF AccountsInv, RequestsInv
  <2> QED
    BY <2>1, <2>3, <2>4 DEF RequestsInv
<1>13. AloneInv'
  <2>1. ~crossed' => \A d \in Calls : acall'[d].pc = "idle"
    <3>1. acall'[c] = NoRegistration
      BY <1>1 DEF AccountsInv, RequestsInv
    <3> QED
      BY <1>1, <1>3, <1>7, <3>1, NobodyRegisters
  <2> QED
    BY <2>1 DEF AloneInv
<1>14. NamesAreDistinct'
  <2> SUFFICES ASSUME ~crossed, NEW u \in users', NEW v \in users', Fold[u.username] = Fold[v.username]
               PROVE  u.id = v.id
    BY <1>1 DEF NamesAreDistinct
  <2>1. \A w \in users : Fold[w.username] # Fold[row.username]
    BY <1>3, <1>4 DEF SameName
  <2> QED
    BY <1>1, <2>1 DEF AccountsInv, NamesAreDistinct
<1>15. RegistrationsAreLimited'
  <2> SUFFICES ASSUME ~crossed, ~moved, NEW ip \in Ips
               PROVE  Cardinality(AccountsOf(ip)') <= Limit
    BY <1>1 DEF RegistrationsAreLimited
  <2>1. Cardinality(AccountsOf(ip)) <= Limit
    BY DEF AccountsInv, RegistrationsAreLimited
  <2>2. CASE ip # row.ip
    <3>1. AccountsOf(ip)' = AccountsOf(ip)
      BY <1>1, <2>2 DEF AccountsOf
    <3> QED
      BY <2>1, <3>1
  <2>3. CASE ip = row.ip
    <3>1. AccountsOf(ip)' = AccountsOf(ip) \cup {row} /\ row \notin AccountsOf(ip)
      BY <1>1, <1>5, <2>3 DEF AccountsOf
    <3>2. IsFiniteSet(AccountsOf(ip))
      <4>1. AccountsOf(ip) \subseteq users
        BY DEF AccountsOf
      <4> QED
        BY <1>2, <4>1, FS_Subset
    <3>3. Cardinality(AccountsOf(ip)') = Cardinality(AccountsOf(ip)) + 1 /\ Cardinality(AccountsOf(ip)) \in Nat
      BY <3>1, <3>2, FS_AddElement, FS_CardinalityType
    <3>4. Cardinality(AccountsOf(ip)) < Limit
      BY <1>3, <1>4, <2>3
    <3> QED
      BY <3>3, <3>4, AccountConstants
  <2> QED
    BY <2>2, <2>3
<1> QED
  BY <1>1, <1>10, <1>11, <1>12, <1>13, <1>14, <1>15 DEF AccountsInv

LEMMA LoginHolds == ASSUME AccountsInv, StoresLoginIp PROVE AccountsInv'
<1>1. PICK u \in users, ip \in Ips :
        /\ ip # u.ip /\ users' = (users \ {u}) \cup {[u EXCEPT !.ip = ip]}
        /\ moved' = TRUE /\ UNCHANGED <<welcome, acall, crossed>>
  BY DEF StoresLoginIp
<1> DEFINE w == [u EXCEPT !.ip = ip]
<1>2. u \in Stored
  BY DEF AccountsInv, UsersInv
<1>3. w \in Stored /\ w.id = u.id /\ w.username = u.username /\ w.email = u.email /\ w.by = u.by
  BY <1>2 DEF Stored
<1>4. users' = (users \ {u}) \cup {w}
  BY <1>1
<1> HIDE DEF w
<1>5. w \notin users \ {u}
  BY <1>3 DEF AccountsInv, UsersInv
<1>6. IsFiniteSet(users') /\ Cardinality(users') = Cardinality(users)
  <2>1. IsFiniteSet(users) /\ Cardinality(users) \in Nat
    BY FS_CardinalityType DEF AccountsInv, UsersInv
  <2>2. IsFiniteSet(users \ {u}) /\ Cardinality(users \ {u}) = Cardinality(users) - 1
    BY <1>1, <2>1, FS_RemoveElement
  <2>3. Cardinality((users \ {u}) \cup {w}) = Cardinality(users \ {u}) + 1 /\ IsFiniteSet((users \ {u}) \cup {w})
    BY <1>5, <2>2, FS_AddElement
  <2> QED
    BY <1>4, <2>1, <2>2, <2>3
\* Every account is one of before, but for its ip.
<1>7. \A x \in users' : \E y \in users :
        /\ x.id = y.id /\ x.username = y.username /\ x.email = y.email /\ x.by = y.by
        /\ x = y \/ (x = w /\ y = u)
  BY <1>3, <1>4
<1>8. OpenRows' = OpenRows /\ Registered' = Registered
  BY <1>1, <1>6 DEF OpenRows, Registered
<1>9. UsersInv'
  <2>1. users' \subseteq Stored
    BY <1>3, <1>4 DEF AccountsInv, UsersInv
  <2>2. \A x \in users' : x.id \in Registered' /\ Fold[x.email] = x.email
    BY <1>7, <1>8 DEF AccountsInv, UsersInv
  <2>3. \A x, y \in users' : x.id = y.id \/ x.email = y.email \/ x.username = y.username => x = y
    BY <1>3, <1>4 DEF AccountsInv, UsersInv
  <2>4. \A x \in users' : x.by # None => x.by \in Nat \ {0} /\ x.by < x.id
    BY <1>7 DEF AccountsInv, UsersInv
  <2> QED
    BY <1>1, <1>6, <1>8, <2>1, <2>2, <2>3, <2>4 DEF AccountsInv, UsersInv
<1>10. OpenInv'
  BY <1>1, <1>7, <1>8 DEF AccountsInv, OpenInv
<1>11. RequestsInv'
  BY <1>1, <1>8 DEF AccountsInv, RequestsInv
<1>12. AloneInv'
  BY <1>1, <1>7 DEF AccountsInv, AloneInv
<1>13. NamesAreDistinct'
  BY <1>1, <1>7 DEF AccountsInv, NamesAreDistinct
<1>14. RegistrationsAreLimited'
  BY <1>1 DEF RegistrationsAreLimited
<1> QED
  BY <1>1, <1>9, <1>10, <1>11, <1>12, <1>13, <1>14 DEF AccountsInv

\* However registrations and logins overlap, no two accounts have one email in
\* any case, referrals are in order and each account has the welcome machine;
\* and of registrations that did not overlap, no two have one name, and no
\* connection has more than its limit (Accounts, AccountsAreSound).
THEOREM AccountsStayDistinct ==
    AccountsSpec => [](AccountsTypeOK /\ EmailsAreDistinct /\ NamesAreDistinct
                       /\ RegistrationsAreLimited /\ ReferralsAreOrdered)
<1>1. AccountsInv => AccountsTypeOK /\ EmailsAreDistinct /\ NamesAreDistinct
                     /\ RegistrationsAreLimited /\ ReferralsAreOrdered
  <2> SUFFICES ASSUME AccountsInv
               PROVE  AccountsTypeOK /\ EmailsAreDistinct /\ NamesAreDistinct
                      /\ RegistrationsAreLimited /\ ReferralsAreOrdered
    OBVIOUS
  <2>1. ASSUME NEW u \in users
        PROVE  /\ u.id \in 1 .. MaxAccounts /\ u.by \in {None} \cup 1 .. MaxAccounts
               /\ {u.username, u.email} \subseteq Spellings /\ u.ip \in Ips
    <3>1. /\ u \in Stored /\ u.id \in 1 .. Cardinality(users)
          /\ u.by # None => u.by \in Nat \ {0} /\ u.by < u.id
          /\ Cardinality(users) + Cardinality(OpenRows) <= MaxAccounts /\ IsFiniteSet(users)
      BY DEF AccountsInv, UsersInv, Registered
    <3>2. Cardinality(users) <= MaxAccounts /\ Cardinality(users) \in Nat
      BY <3>1, FS_CardinalityType, OpenAreCalls, AccountConstants
    <3>3. u.id \in 1 .. MaxAccounts
      BY <3>1, <3>2, AccountConstants
    <3>4. u.username \in Spellings /\ u.email \in Spellings /\ u.ip \in Ips
      BY <3>1 DEF Stored
    <3>5. u.by \in {None} \cup 1 .. MaxAccounts
      <4>1. CASE u.by # None
        <5>1. u.by \in Nat /\ u.by >= 1 /\ u.by <= MaxAccounts
          BY <3>1, <3>3, <4>1, AccountConstants
        <5> QED
          BY <5>1
      <4> QED
        BY <4>1
    <3> QED
      BY <3>3, <3>4, <3>5
  <2>2. AccountsTypeOK
    BY <2>1 DEF AccountsInv, RequestsInv, AccountsTypeOK
  <2>3. EmailsAreDistinct
    BY DEF AccountsInv, UsersInv, EmailsAreDistinct
  <2>4. ReferralsAreOrdered
    BY DEF AccountsInv, UsersInv, ReferralsAreOrdered
  <2> QED
    BY <2>2, <2>3, <2>4 DEF AccountsInv
<1>2. AccountsInv /\ [AccountsNext]_accountsVars => AccountsInv'
  <2> SUFFICES ASSUME AccountsInv, [AccountsNext]_accountsVars PROVE AccountsInv'
    OBVIOUS
  <2>1. CASE UNCHANGED accountsVars
    BY <2>1 DEF accountsVars, AccountsInv, UsersInv, OpenInv, RequestsInv, AloneInv, NamesAreDistinct,
                RegistrationsAreLimited, OpenRows, Registered, AccountsOf
  <2>2. CASE AccountsNext
    BY <2>2, RegisterHolds, StepsHold, CommitHolds, LoginHolds DEF AccountsNext
  <2> QED
    BY <2>1, <2>2
<1> QED
  BY <1>1, <1>2, AccountsBegin, PTL DEF AccountsSpec

-----------------------------------------------------------------------------
(* The support chat.                                                        *)

TCalls == [pc : {"idle", "sent", "answered"}, op : {"none", "fetch", "reply", "create"},
           ticket : Chats \cup {None}, message : Messages \cup {None}]

HoldsMessage(q) == q.op \in {"create", "reply"}

ChatShapes ==
    /\ exists \subseteq Chats /\ stored \subseteq 1 .. composed /\ again \subseteq stored
    /\ chosen \in Chats \cup {None} /\ conv \in Chats \cup {None}
    /\ composed \in 0 .. MaxMessages /\ draft \in 1 .. composed \cup {None}
    /\ sending \in BOOLEAN /\ tcall \in [Calls -> TCalls]
    /\ haste \subseteq {"crossed", "lost", "given"}

\* A request has what it is about.
AboutInv ==
    \A c \in Calls :
        /\ tcall[c].pc = "idle" <=> tcall[c] = TIdle
        /\ tcall[c].op = "none" => tcall[c] = TIdle
        /\ HoldsMessage(tcall[c]) => tcall[c].message # None
        /\ tcall[c].message # None => tcall[c].message \in 1 .. composed
        /\ tcall[c].pc # "idle" => \/ tcall[c].ticket \in Chats
                                   \/ tcall[c].op = "create" /\ tcall[c].pc = "sent"
        /\ HoldsMessage(tcall[c]) /\ tcall[c].pc = "answered" => tcall[c].message \in stored

\* The chat sends while one message is on its way, until its conversation is
\* there.
OneMessageInv ==
    /\ sending <=> \E c \in Calls : tcall[c].message # None
    /\ \A c, d \in Calls : tcall[c].message # None /\ tcall[d].message # None => c = d

\* A draft that is stored is about to be cleared, and what is sent is not
\* stored, unless an answer was lost.
SentInv ==
    "lost" \notin haste =>
        /\ again = {}
        /\ \A c \in Calls : HoldsMessage(tcall[c]) /\ tcall[c].pc = "sent" => tcall[c].message \notin stored
        /\ draft \in stored =>
              \E c \in Calls : HoldsMessage(tcall[c]) /\ tcall[c].pc = "answered" /\ tcall[c].message = draft

\* What is sent is in the box, unless the customer wrote on or gave it up.
KeptInv ==
    "given" \notin haste =>
        /\ 1 .. composed \subseteq stored \cup {draft}
        /\ \A c \in Calls : HoldsMessage(tcall[c]) => tcall[c].message = draft

\* One fetch is under way at a time, of the chosen ticket.
FetchInv ==
    haste \cap {"crossed", "given"} = {} =>
        /\ conv \in {None, chosen}
        /\ \A c \in Calls : tcall[c].op = "fetch" => tcall[c].ticket = chosen
        /\ \A c, d \in Calls : tcall[c].op = "fetch" /\ tcall[d].op = "fetch" => c = d

ChatInv == ChatShapes /\ AboutInv /\ OneMessageInv /\ SentInv /\ KeptInv /\ FetchInv

LEMMA ChatConstants == MaxMessages \in Nat /\ None \notin Chats /\ \A m \in 1 .. MaxMessages : m # None
BY MiniChatAssumption

LEMMA NoTicketCall ==
    /\ TIdle \in TCalls /\ TIdle.pc = "idle" /\ TIdle.op = "none" /\ TIdle.message = None /\ TIdle.ticket = None
    /\ ~HoldsMessage(TIdle)
BY DEF TIdle, TCall, TCalls, HoldsMessage

LEMMA TicketCalls ==
    ASSUME NEW pc \in {"sent", "answered"}, NEW op \in {"fetch", "reply", "create"},
           NEW t \in Chats \cup {None}, NEW m \in Messages \cup {None}
    PROVE  /\ TCall(pc, op, t, m) \in TCalls /\ TCall(pc, op, t, m) # TIdle
           /\ TCall(pc, op, t, m).pc = pc /\ TCall(pc, op, t, m).op = op
           /\ TCall(pc, op, t, m).ticket = t /\ TCall(pc, op, t, m).message = m
BY DEF TCall, TCalls, TIdle

LEMMA ChatBegins == ChatInit => ChatInv
<1> SUFFICES ASSUME ChatInit PROVE ChatInv
  OBVIOUS
<1>1. tcall \in [Calls -> TCalls] /\ \A c \in Calls : tcall[c] = TIdle
  <2> HIDE DEF TCalls, TIdle
  <2> QED
    BY NoTicketCall DEF ChatInit
<1>2. ChatShapes
  <2>1. /\ exists = {} /\ stored = {} /\ again = {} /\ chosen = None /\ conv = None /\ draft = None
        /\ composed = 0 /\ sending = FALSE /\ haste = {}
    BY DEF ChatInit
  <2>2. 0 \in 0 .. MaxMessages
    BY ChatConstants
  <2>3. composed \in 0 .. MaxMessages
    BY <2>1, <2>2
  <2>4. exists \subseteq Chats /\ stored \subseteq 1 .. composed /\ again \subseteq stored
        /\ haste \subseteq {"crossed", "lost", "given"}
    BY <2>1
  <2> QED
    BY <1>1, <2>1, <2>3, <2>4 DEF ChatShapes
<1>3. AboutInv /\ OneMessageInv
  BY <1>1, NoTicketCall DEF ChatInit, AboutInv, OneMessageInv
<1>4. SentInv /\ FetchInv
  BY <1>1, NoTicketCall DEF ChatInit, SentInv, FetchInv
<1>5. KeptInv
  BY <1>1, NoTicketCall DEF ChatInit, KeptInv
<1> QED
  BY <1>2, <1>3, <1>4, <1>5 DEF ChatInv

\* What is so of the messages and the calls.
LEMMA ChatFacts ==
    ASSUME ChatInv
    PROVE  /\ composed \in Nat /\ composed <= MaxMessages /\ MaxMessages \in Nat
           /\ \A m \in 1 .. composed : m # None /\ m \in Messages
           /\ \A c \in Calls : tcall[c] \in TCalls /\ tcall[c].ticket \in Chats \cup {None}
                               /\ tcall[c].message \in Messages \cup {None}
                               /\ tcall[c].pc \in {"idle", "sent", "answered"}
                               /\ tcall[c].op \in {"none", "fetch", "reply", "create"}
<1>1. composed \in Nat /\ composed <= MaxMessages /\ MaxMessages \in Nat
  BY ChatConstants DEF ChatInv, ChatShapes
<1>2. \A m \in 1 .. composed : m \in 1 .. MaxMessages
  BY <1>1
<1>3. \A c \in Calls : tcall[c] \in TCalls
  BY DEF ChatInv, ChatShapes
<1> QED
  BY <1>1, <1>2, <1>3, ChatConstants DEF TCalls, Messages

\* A request c goes on to q.
LEMMA TicketCallGoes ==
    ASSUME ChatInv, NEW c \in Calls, NEW q \in TCalls, tcall' = [tcall EXCEPT ![c] = q]
    PROVE  /\ tcall' \in [Calls -> TCalls] /\ tcall'[c] = q
           /\ \A d \in Calls : d # c => tcall'[d] = tcall[d]
BY DEF ChatInv, ChatShapes

\* A fetch of t begins, of the ticket that is chosen by then.
LEMMA FetchesHold ==
    ASSUME ChatInv, NEW c \in Calls, ChoosesTicket(c) \/ Polls(c)
    PROVE  ChatInv'
<1>1. PICK t \in Chats :
        /\ tcall[c].pc = "idle" /\ chosen' = t
        /\ (t = chosen /\ conv' = conv) \/ conv' = None
        /\ WithFetch(c, t)
        /\ UNCHANGED <<exists, stored, again, draft, composed, sending>>
  BY DEF ChoosesTicket, Polls, ChatInv, ChatShapes
<1> DEFINE q == TCall("sent", "fetch", t, None)
<1>2. q \in TCalls /\ q # TIdle /\ q.pc = "sent" /\ q.op = "fetch" /\ q.ticket = t /\ q.message = None
  BY <1>1, TicketCalls
<1> HIDE DEF q
<1>3. tcall' = [tcall EXCEPT ![c] = q]
      /\ haste' = haste \cup (IF \E d \in Calls \ {c} : tcall[d].op = "fetch" THEN {"crossed"} ELSE {})
  BY <1>1 DEF WithFetch, q
<1>4. tcall' \in [Calls -> TCalls] /\ tcall'[c] = q /\ \A d \in Calls : d # c => tcall'[d] = tcall[d]
  BY <1>2, <1>3, TicketCallGoes
<1>5. tcall[c] = TIdle /\ tcall[c].message = None /\ tcall[c].op = "none"
  BY <1>1, NoTicketCall DEF ChatInv, AboutInv
<1>6. ChatShapes'
  BY <1>1, <1>3, <1>4 DEF ChatInv, ChatShapes
<1>7. AboutInv'
  BY <1>1, <1>2, <1>4 DEF ChatInv, AboutInv, HoldsMessage
<1>8. OneMessageInv'
  BY <1>1, <1>2, <1>4, <1>5 DEF ChatInv, OneMessageInv
<1>9. SentInv'
  BY <1>1, <1>2, <1>3, <1>4, <1>5 DEF ChatInv, SentInv, HoldsMessage
<1>10. KeptInv'
  BY <1>1, <1>2, <1>3, <1>4 DEF ChatInv, KeptInv, HoldsMessage
<1>11. FetchInv'
  BY <1>1, <1>2, <1>3, <1>4, <1>5 DEF ChatInv, FetchInv
<1> QED
  BY <1>6, <1>7, <1>8, <1>9, <1>10, <1>11 DEF ChatInv

LEMMA WritesHold ==
    ASSUME ChatInv, Composes \/ resetConversation
    PROVE  ChatInv'
<1>0. composed \in Nat /\ composed <= MaxMessages /\ MaxMessages \in Nat
      /\ \A m \in 1 .. composed : m # None /\ m \in Messages
  BY ChatFacts
<1>1. CASE Composes
  <2>1. /\ composed < MaxMessages /\ (draft = None \/ sending) /\ composed' = composed + 1 /\ draft' = composed + 1
        /\ haste' = haste \cup (IF sending THEN {"given"} ELSE {})
        /\ UNCHANGED <<exists, stored, again, chosen, conv, sending, tcall>>
    BY <1>1 DEF Composes
  <2>2. 1 .. composed \subseteq 1 .. composed + 1 /\ composed + 1 \in 1 .. composed + 1
        /\ composed + 1 \notin 1 .. composed /\ composed + 1 \in 0 .. MaxMessages
        /\ 1 .. composed + 1 = 1 .. composed \cup {composed + 1}
    BY <1>0, <2>1
  <2> DEFINE m == composed + 1
  <2> HIDE DEF m
  <2>3. /\ composed' = m /\ draft' = m /\ m \in 0 .. MaxMessages /\ 1 .. m = 1 .. composed \cup {m}
        /\ m \notin 1 .. composed
    BY <2>1, <2>2 DEF m
  <2>4. ChatShapes'
    BY <2>1, <2>3 DEF ChatInv, ChatShapes
  <2>5. AboutInv'
    BY <2>1, <2>3 DEF ChatInv, AboutInv
  <2>6. OneMessageInv' /\ FetchInv'
    BY <2>1 DEF ChatInv, OneMessageInv, FetchInv
  <2>7. SentInv'
    <3>1. m \notin stored
      BY <2>3 DEF ChatInv, ChatShapes
    <3> QED
      BY <2>1, <2>3, <3>1 DEF ChatInv, SentInv
  <2>8. KeptInv'
    <3> SUFFICES ASSUME "given" \notin haste' PROVE KeptInv'
      BY DEF KeptInv
    <3>1. ~sending /\ draft = None /\ "given" \notin haste
      BY <2>1
    <3>2. 1 .. m \subseteq stored \cup {m}
      BY <1>0, <2>3, <3>1 DEF ChatInv, KeptInv
    <3>3. \A d \in Calls : ~HoldsMessage(tcall[d])
      BY <3>1 DEF ChatInv, OneMessageInv, AboutInv
    <3> QED
      BY <2>1, <2>3, <3>2, <3>3 DEF KeptInv
  <2> QED
    BY <2>4, <2>5, <2>6, <2>7, <2>8 DEF ChatInv
<1>2. CASE resetConversation
  <2>1. /\ chosen' = None /\ conv' = None /\ draft' = None /\ haste' = haste \cup {"given"}
        /\ UNCHANGED <<exists, stored, again, composed, sending, tcall>>
    BY <1>2 DEF resetConversation
  <2>2. ChatShapes' /\ AboutInv'
    BY <2>1 DEF ChatInv, ChatShapes, AboutInv
  <2>3. OneMessageInv'
    BY <2>1 DEF ChatInv, OneMessageInv
  <2>4. KeptInv' /\ FetchInv'
    BY <2>1 DEF KeptInv, FetchInv
  <2>5. None \notin stored
    BY <1>0 DEF ChatInv, ChatShapes
  <2>6. SentInv'
    BY <2>1, <2>5 DEF ChatInv, SentInv
  <2> QED
    BY <2>2, <2>3, <2>4, <2>6 DEF ChatInv
<1> QED
  BY <1>1, <1>2

LEMMA ClickHolds == ASSUME ChatInv, NEW c \in Calls, handleSend(c) PROVE ChatInv'
<1> DEFINE q == TCall("sent", IF chosen = None THEN "create" ELSE "reply", chosen, draft)
<1>1. /\ tcall[c].pc = "idle" /\ draft # None /\ ~sending /\ sending' = TRUE
      /\ tcall' = [tcall EXCEPT ![c] = q]
      /\ UNCHANGED <<exists, stored, again, chosen, conv, composed, haste, draft>>
  BY DEF handleSend, Clicks, NotSendingChat
<1>2. draft \in 1 .. composed /\ draft \in Messages /\ chosen \in Chats \cup {None}
  BY <1>1, ChatFacts DEF ChatInv, ChatShapes
<1>3. q \in TCalls /\ q # TIdle /\ q.pc = "sent" /\ q.ticket = chosen /\ q.message = draft
      /\ q.op = IF chosen = None THEN "create" ELSE "reply"
  BY <1>2, TicketCalls
<1> HIDE DEF q
<1>4. tcall' \in [Calls -> TCalls] /\ tcall'[c] = q /\ \A d \in Calls : d # c => tcall'[d] = tcall[d]
  BY <1>1, <1>3, TicketCallGoes
<1>5. \A d \in Calls : tcall[d].message = None /\ ~HoldsMessage(tcall[d])
  BY <1>1 DEF ChatInv, OneMessageInv, AboutInv
<1>6. ChatShapes'
  BY <1>1, <1>4 DEF ChatInv, ChatShapes
<1>7. AboutInv'
  BY <1>1, <1>2, <1>3, <1>4 DEF ChatInv, AboutInv, HoldsMessage
<1>8. OneMessageInv'
  BY <1>1, <1>3, <1>4, <1>5 DEF OneMessageInv
<1>9. SentInv'
  BY <1>1, <1>3, <1>4, <1>5 DEF ChatInv, SentInv
<1>10. KeptInv'
  BY <1>1, <1>3, <1>4, <1>5 DEF ChatInv, KeptInv
<1>11. FetchInv'
  BY <1>1, <1>3, <1>4 DEF ChatInv, FetchInv
<1> QED
  BY <1>6, <1>7, <1>8, <1>9, <1>10, <1>11 DEF ChatInv

\* The server answers about a ticket, having stored what a message says.
LEMMA ChatServerHolds == ASSUME ChatInv, NEW c \in Calls, ChatServer(c) PROVE ChatInv'
<1>0. /\ tcall[c].pc = "sent" /\ tcall[c].op \in {"fetch", "reply", "create"}
      /\ UNCHANGED <<chosen, conv, draft, composed, sending, haste>>
  BY DEF ChatServer
<1>1. PICK t \in Chats :
        /\ tcall' = [tcall EXCEPT ![c] = TCall("answered", tcall[c].op, t, tcall[c].message)]
        /\ tcall[c].op # "create" => t = tcall[c].ticket
        /\ exists' \subseteq Chats
        /\ \/ tcall[c].op = "fetch" /\ stored' = stored /\ again' = again
           \/ /\ HoldsMessage(tcall[c]) /\ stored' = stored \cup {tcall[c].message}
              /\ again' = again \cup ({tcall[c].message} \cap stored)
  <2>1. tcall[c].op # "create" => tcall[c].ticket \in Chats
    BY <1>0 DEF ChatInv, AboutInv
  <2>2. exists \subseteq Chats
    BY DEF ChatInv, ChatShapes
  <2>3. CASE tcall[c].op \in {"fetch", "reply"}
    BY <1>0, <2>1, <2>2, <2>3 DEF ChatServer, HoldsMessage
  <2>4. CASE tcall[c].op = "create"
    BY <1>0, <2>2, <2>4 DEF ChatServer, HoldsMessage
  <2> QED
    BY <1>0, <2>3, <2>4
<1> DEFINE m == tcall[c].message
           o == tcall[c].op
           q == TCall("answered", o, t, m)
<1>2. m \in Messages \cup {None} /\ (o = "fetch" \/ HoldsMessage(tcall[c])) /\ o \in {"fetch", "reply", "create"}
  BY <1>0, ChatFacts DEF HoldsMessage
<1>3. q \in TCalls /\ q # TIdle /\ q.pc = "answered" /\ q.op = o /\ q.ticket = t /\ q.message = m
  BY <1>2, TicketCalls
<1>4. HoldsMessage(q) <=> HoldsMessage(tcall[c])
  BY <1>3 DEF HoldsMessage
<1>5. tcall' \in [Calls -> TCalls] /\ tcall'[c] = q /\ \A d \in Calls : d # c => tcall'[d] = tcall[d]
  BY <1>1, <1>3, TicketCallGoes
<1> HIDE DEF q
<1>6. HoldsMessage(tcall[c]) => m \in 1 .. composed
  BY DEF ChatInv, AboutInv
<1>7. stored \subseteq stored' /\ stored' \subseteq 1 .. composed /\ again' \subseteq stored'
      /\ (HoldsMessage(tcall[c]) => m \in stored')
  <2>1. stored \subseteq 1 .. composed /\ again \subseteq stored
    BY DEF ChatInv, ChatShapes
  <2>2. CASE o = "fetch"
    BY <1>1, <2>1, <2>2 DEF HoldsMessage
  <2>3. CASE HoldsMessage(tcall[c])
    BY <1>1, <1>6, <2>1, <2>3 DEF HoldsMessage
  <2> QED
    BY <1>2, <2>2, <2>3
<1>8. ChatShapes'
  BY <1>0, <1>1, <1>5, <1>7 DEF ChatInv, ChatShapes
<1>9. AboutInv'
  <2> SUFFICES ASSUME NEW d \in Calls
               PROVE  /\ tcall'[d].pc = "idle" <=> tcall'[d] = TIdle
                      /\ tcall'[d].op = "none" => tcall'[d] = TIdle
                      /\ HoldsMessage(tcall'[d]) => tcall'[d].message # None
                      /\ tcall'[d].message # None => tcall'[d].message \in 1 .. composed
                      /\ tcall'[d].pc # "idle" => \/ tcall'[d].ticket \in Chats
                                                  \/ tcall'[d].op = "create" /\ tcall'[d].pc = "sent"
                      /\ HoldsMessage(tcall'[d]) /\ tcall'[d].pc = "answered" => tcall'[d].message \in stored'
    BY <1>0 DEF AboutInv
  <2>1. CASE d = c
    BY <1>2, <1>3, <1>4, <1>5, <1>7, <2>1 DEF ChatInv, AboutInv
  <2>2. CASE d # c
    BY <1>5, <1>7, <2>2 DEF ChatInv, AboutInv
  <2> QED
    BY <2>1, <2>2
<1>10. OneMessageInv'
  <2>1. \A d \in Calls : tcall'[d].message = tcall[d].message
    BY <1>3, <1>5
  <2> QED
    BY <1>0, <2>1 DEF ChatInv, OneMessageInv
<1>11. SentInv'
  <2> SUFFICES ASSUME "lost" \notin haste PROVE SentInv'
    BY <1>0 DEF SentInv
  <2>1. again' = {}
    BY <1>0, <1>1 DEF ChatInv, SentInv
  <2>2. \A d \in Calls : HoldsMessage(tcall'[d]) /\ tcall'[d].pc = "sent" => tcall'[d].message \notin stored'
    <3> SUFFICES ASSUME NEW d \in Calls, HoldsMessage(tcall'[d]), tcall'[d].pc = "sent"
                 PROVE  tcall'[d].message \notin stored'
      OBVIOUS
    <3>1. d # c /\ tcall'[d] = tcall[d]
      BY <1>3, <1>5
    <3>2. tcall[d].message \notin stored /\ tcall[d].message # None
      BY <3>1 DEF ChatInv, SentInv, AboutInv
    <3>3. HoldsMessage(tcall[c]) => tcall[d].message # m
      BY <3>1, <3>2 DEF ChatInv, AboutInv, OneMessageInv
    <3> QED
      BY <1>1, <3>1, <3>2, <3>3 DEF HoldsMessage
  <2>3. draft \in stored' =>
          \E d \in Calls : HoldsMessage(tcall'[d]) /\ tcall'[d].pc = "answered" /\ tcall'[d].message = draft
    <3> SUFFICES ASSUME draft \in stored'
                 PROVE  \E d \in Calls : /\ HoldsMessage(tcall'[d]) /\ tcall'[d].pc = "answered"
                                         /\ tcall'[d].message = draft
      OBVIOUS
    <3>1. CASE draft \in stored
      <4>1. PICK d \in Calls : HoldsMessage(tcall[d]) /\ tcall[d].pc = "answered" /\ tcall[d].message = draft
        BY <3>1 DEF ChatInv, SentInv
      <4> QED
        BY <1>0, <1>5, <4>1
    <3>2. CASE draft \notin stored
      <4>1. HoldsMessage(tcall[c]) /\ m = draft
        BY <1>1, <3>2
      <4> QED
        BY <1>3, <1>4, <1>5, <4>1
    <3> QED
      BY <3>1, <3>2
  <2> QED
    BY <1>0, <2>1, <2>2, <2>3 DEF SentInv
<1>12. KeptInv'
  <2> SUFFICES ASSUME "given" \notin haste PROVE KeptInv'
    BY <1>0 DEF KeptInv
  <2>1. 1 .. composed \subseteq stored' \cup {draft}
    BY <1>7 DEF ChatInv, KeptInv
  <2>2. \A d \in Calls : HoldsMessage(tcall'[d]) => tcall'[d].message = draft
    BY <1>3, <1>4, <1>5 DEF ChatInv, KeptInv
  <2> QED
    BY <1>0, <2>1, <2>2 DEF KeptInv
<1>13. FetchInv'
  <2>1. \A d \in Calls : tcall'[d].op = tcall[d].op /\ (tcall[d].op = "fetch" => tcall'[d].ticket = tcall[d].ticket)
    BY <1>1, <1>3, <1>5
  <2> QED
    BY <1>0, <2>1 DEF ChatInv, FetchInv
<1> QED
  BY <1>8, <1>9, <1>10, <1>11, <1>12, <1>13 DEF ChatInv

\* A request ends, with a message in its closure or none.
LEMMA RequestEnds ==
    ASSUME ChatInv, NEW c \in Calls,
           tcall' = [tcall EXCEPT ![c] = TIdle], sending' = (sending /\ tcall[c].message = None),
           UNCHANGED <<exists, stored, again, chosen, draft, composed>>
    PROVE  /\ tcall' \in [Calls -> TCalls] /\ tcall'[c] = TIdle
           /\ \A d \in Calls : d # c => tcall'[d] = tcall[d]
           /\ AboutInv' /\ OneMessageInv'
<1>1. tcall' \in [Calls -> TCalls] /\ tcall'[c] = TIdle /\ \A d \in Calls : d # c => tcall'[d] = tcall[d]
  BY NoTicketCall, TicketCallGoes
<1>2. AboutInv'
  BY <1>1, NoTicketCall DEF ChatInv, AboutInv
<1>3. OneMessageInv'
  <2>1. sending \in BOOLEAN
    BY DEF ChatInv, ChatShapes
  <2>2. (sending /\ tcall[c].message = None) <=> \E d \in Calls : tcall'[d].message # None
    BY <1>1, NoTicketCall DEF ChatInv, OneMessageInv
  <2>3. \A d, e \in Calls : tcall'[d].message # None /\ tcall'[e].message # None => d = e
    BY <1>1, NoTicketCall DEF ChatInv, OneMessageInv
  <2>4. sending' <=> \E d \in Calls : tcall'[d].message # None
    BY <2>2
  <2> QED
    BY <2>3, <2>4 DEF OneMessageInv
<1> QED
  BY <1>1, <1>2, <1>3

LEMMA FetchAnswerHolds == ASSUME ChatInv, NEW c \in Calls, ChatFetchAnswered(c) PROVE ChatInv'
<1>1. /\ tcall[c].pc = "answered" /\ tcall[c].op = "fetch" /\ conv' = tcall[c].ticket
      /\ tcall' = [tcall EXCEPT ![c] = TIdle] /\ sending' = (sending /\ tcall[c].message = None)
      /\ UNCHANGED <<exists, stored, again, chosen, draft, composed, haste>>
  BY DEF ChatFetchAnswered
<1>2. tcall' \in [Calls -> TCalls] /\ tcall'[c] = TIdle /\ (\A d \in Calls : d # c => tcall'[d] = tcall[d])
      /\ AboutInv' /\ OneMessageInv'
  BY <1>1, RequestEnds
<1>3. ChatShapes'
  <2>1. sending' \in BOOLEAN /\ conv' \in Chats \cup {None}
    BY <1>1, ChatFacts DEF ChatInv, ChatShapes
  <2> QED
    BY <1>1, <1>2, <2>1 DEF ChatInv, ChatShapes
<1>4. SentInv' /\ KeptInv'
  <2>1. ~HoldsMessage(tcall[c]) /\ ~HoldsMessage(tcall'[c])
    BY <1>1, <1>2, NoTicketCall DEF HoldsMessage
  <2> QED
    BY <1>1, <1>2, <2>1 DEF ChatInv, SentInv, KeptInv
<1>5. FetchInv'
  BY <1>1, <1>2, NoTicketCall DEF ChatInv, FetchInv
<1> QED
  BY <1>2, <1>3, <1>4, <1>5 DEF ChatInv

LEMMA LossHolds == ASSUME ChatInv, NEW c \in Calls, ChatLost(c) PROVE ChatInv'
<1>1. /\ tcall[c].pc # "idle"
      /\ tcall' = [tcall EXCEPT ![c] = TIdle] /\ sending' = (sending /\ tcall[c].message = None)
      /\ conv' = (IF tcall[c].op = "fetch" THEN None ELSE conv)
      /\ haste' = haste \cup (IF tcall[c].pc = "answered" /\ tcall[c].op # "fetch" THEN {"lost"} ELSE {})
      /\ UNCHANGED <<exists, stored, again, chosen, draft, composed>>
  BY DEF ChatLost
<1>2. tcall' \in [Calls -> TCalls] /\ tcall'[c] = TIdle /\ (\A d \in Calls : d # c => tcall'[d] = tcall[d])
      /\ AboutInv' /\ OneMessageInv'
  BY <1>1, RequestEnds
<1>3. ChatShapes'
  <2>1. sending' \in BOOLEAN /\ conv' \in Chats \cup {None} /\ haste' \subseteq {"crossed", "lost", "given"}
    BY <1>1 DEF ChatInv, ChatShapes
  <2> QED
    BY <1>1, <1>2, <2>1 DEF ChatInv, ChatShapes
<1>4. SentInv'
  <2> SUFFICES ASSUME "lost" \notin haste' PROVE SentInv'
    BY DEF SentInv
  <2>1. "lost" \notin haste /\ ~(tcall[c].pc = "answered" /\ HoldsMessage(tcall[c]))
    BY <1>1 DEF HoldsMessage
  <2> QED
    BY <1>1, <1>2, <2>1, NoTicketCall DEF ChatInv, SentInv
<1>5. KeptInv'
  BY <1>1, <1>2, NoTicketCall DEF ChatInv, KeptInv
<1>6. FetchInv'
  BY <1>1, <1>2, NoTicketCall DEF ChatInv, FetchInv
<1> QED
  BY <1>2, <1>3, <1>4, <1>5, <1>6 DEF ChatInv

\* The answer clears the box and the same call goes on with a fetch.
LEMMA SendAnswerHolds == ASSUME ChatInv, NEW c \in Calls, ChatSendAnswered(c) PROVE ChatInv'
<1> DEFINE t == tcall[c].ticket
           m == tcall[c].message
           q == TCall("sent", "fetch", t, m)
<1>1. /\ tcall[c].pc = "answered" /\ HoldsMessage(tcall[c]) /\ draft' = None
      /\ \/ tcall[c].op = "create" /\ chosen' = t /\ conv' = None
         \/ tcall[c].op = "reply" /\ chosen' = chosen /\ conv' = conv
      /\ tcall' = [tcall EXCEPT ![c] = q]
      /\ haste' = haste \cup (IF Fetching \/ (tcall[c].op = "reply" /\ chosen # t) THEN {"crossed"} ELSE {})
      /\ UNCHANGED <<exists, stored, again, composed, sending>>
  BY DEF ChatSendAnswered, HoldsMessage
<1>2. t \in Chats /\ m \in Messages /\ m \in stored /\ m \in 1 .. composed /\ m # None
  BY <1>1, ChatFacts DEF ChatInv, AboutInv
<1>3. q \in TCalls /\ q # TIdle /\ q.pc = "sent" /\ q.op = "fetch" /\ q.ticket = t /\ q.message = m
  BY <1>2, TicketCalls
<1> HIDE DEF q
<1>4. tcall' \in [Calls -> TCalls] /\ tcall'[c] = q /\ \A d \in Calls : d # c => tcall'[d] = tcall[d]
  BY <1>1, <1>3, TicketCallGoes
<1>5. ~HoldsMessage(q) /\ tcall[c].op # "fetch"
  BY <1>1, <1>3 DEF HoldsMessage
<1>6. ChatShapes'
  <2>1. chosen' \in Chats \cup {None} /\ conv' \in Chats \cup {None} /\ haste' \subseteq {"crossed", "lost", "given"}
    BY <1>1, <1>2 DEF ChatInv, ChatShapes
  <2> QED
    BY <1>1, <1>4, <2>1 DEF ChatInv, ChatShapes
<1>7. AboutInv'
  <2> SUFFICES ASSUME NEW d \in Calls
               PROVE  /\ tcall'[d].pc = "idle" <=> tcall'[d] = TIdle
                      /\ tcall'[d].op = "none" => tcall'[d] = TIdle
                      /\ HoldsMessage(tcall'[d]) => tcall'[d].message # None
                      /\ tcall'[d].message # None => tcall'[d].message \in 1 .. composed
                      /\ tcall'[d].pc # "idle" => \/ tcall'[d].ticket \in Chats
                                                  \/ tcall'[d].op = "create" /\ tcall'[d].pc = "sent"
                      /\ HoldsMessage(tcall'[d]) /\ tcall'[d].pc = "answered" => tcall'[d].message \in stored
    BY <1>1 DEF AboutInv
  <2>1. CASE d = c
    BY <1>2, <1>3, <1>4, <1>5, <2>1
  <2>2. CASE d # c
    BY <1>4, <2>2 DEF ChatInv, AboutInv
  <2> QED
    BY <2>1, <2>2
<1>8. OneMessageInv'
  <2>1. \A d \in Calls : tcall'[d].message = tcall[d].message
    BY <1>3, <1>4
  <2> QED
    BY <1>1, <2>1 DEF ChatInv, OneMessageInv
<1>9. \A d \in Calls : d # c => ~HoldsMessage(tcall[d])
  BY <1>2 DEF ChatInv, OneMessageInv, AboutInv
<1>10. None \notin stored
  BY ChatFacts DEF ChatInv, ChatShapes
<1>11. SentInv'
  BY <1>1, <1>4, <1>5, <1>9, <1>10 DEF ChatInv, SentInv
<1>12. KeptInv'
  <2> SUFFICES ASSUME "given" \notin haste' PROVE KeptInv'
    BY DEF KeptInv
  <2>1. "given" \notin haste /\ draft = m
    BY <1>1 DEF ChatInv, KeptInv
  <2>2. 1 .. composed \subseteq stored
    BY <1>2, <2>1 DEF ChatInv, KeptInv
  <2> QED
    BY <1>1, <1>4, <1>5, <1>9, <2>2 DEF KeptInv
<1>13. FetchInv'
  <2> SUFFICES ASSUME haste' \cap {"crossed", "given"} = {} PROVE FetchInv'
    BY DEF FetchInv
  <2>1. haste \cap {"crossed", "given"} = {} /\ ~Fetching /\ (tcall[c].op = "reply" => chosen = t)
    BY <1>1
  <2>2. chosen' = t /\ conv' \in {None, t}
    BY <1>1, <2>1 DEF ChatInv, FetchInv
  <2>3. \A d \in Calls : tcall'[d].op = "fetch" => d = c
    BY <1>4, <2>1 DEF Fetching
  <2> QED
    BY <1>3, <1>4, <2>2, <2>3 DEF FetchInv
<1> QED
  BY <1>6, <1>7, <1>8, <1>11, <1>12, <1>13 DEF ChatInv

LEMMA ChatGoesOn == ChatInv /\ [ChatNext]_chatVars => ChatInv'
<1> SUFFICES ASSUME ChatInv, [ChatNext]_chatVars PROVE ChatInv'
  OBVIOUS
<1>1. CASE Composes \/ resetConversation
  BY <1>1, WritesHold
<1>2. ASSUME NEW c \in Calls,
             \/ ChoosesTicket(c) \/ Polls(c) \/ handleSend(c) \/ ChatServer(c)
             \/ ChatFetchAnswered(c) \/ ChatSendAnswered(c) \/ ChatLost(c)
      PROVE  ChatInv'
  BY <1>2, FetchesHold, ClickHolds, ChatServerHolds, FetchAnswerHolds, SendAnswerHolds, LossHolds
<1>3. CASE UNCHANGED chatVars
  BY <1>3 DEF chatVars, ChatInv, ChatShapes, AboutInv, OneMessageInv, SentInv, KeptInv, FetchInv
<1> QED
  BY <1>1, <1>2, <1>3 DEF ChatNext

LEMMA ChatMeans == ChatInv => ChatTypeOK /\ SentOnce /\ NothingVanishes /\ ConvOfChosen
<1> SUFFICES ASSUME ChatInv PROVE ChatTypeOK /\ SentOnce /\ NothingVanishes /\ ConvOfChosen
  OBVIOUS
<1>1. 1 .. composed \subseteq Messages
  BY ChatFacts
<1>2. ChatTypeOK
  BY <1>1 DEF ChatInv, ChatShapes, ChatTypeOK
<1> QED
  BY <1>2 DEF ChatInv, SentInv, KeptInv, FetchInv, SentOnce, NothingVanishes, ConvOfChosen

\* The chat with the support: a message is stored once, unless an answer was
\* lost and the draft sent once more; none vanishes from box and store, unless
\* the customer wrote on while it was sent; and the conversation shown is the
\* one a reply goes to, for any number of tickets, messages and requests.
THEOREM MessagesAreSent == ChatSpec => [](ChatTypeOK /\ SentOnce /\ NothingVanishes /\ ConvOfChosen)
BY ChatBegins, ChatGoesOn, ChatMeans, PTL DEF ChatSpec

-----------------------------------------------------------------------------
(* Notifications.                                                           *)

NoticeRows(n) == [id : 1 .. n, read : BOOLEAN]

NCalls(n) == [pc : {"idle", "sent", "answered"}, op : {"none", "fetch", "mark"},
              ids : SUBSET (1 .. n \cup {None}), list : Seq(NoticeRows(n))]

NoticeShapes ==
    /\ made \in 0 .. MaxNotices /\ readRows \subseteq 1 .. made /\ toPush \subseteq 1 .. made
    /\ pushed \in Seq(1 .. made) /\ joined \in BOOLEAN
    /\ notices \in Seq(NoticeRows(made)) /\ ncall \in [Calls -> NCalls(made)]
    /\ unlucky \subseteq {"missed", "crossed"}

NoneIdle == \A c \in Calls : ncall[c].pc = "idle" \/ ncall[c].op = "none" => ncall[c] = NIdle

\* What an answer says is read is read, and what an answered request has
\* marked.
ReadInv ==
    /\ \A c \in Calls : \A i \in 1 .. Len(ncall[c].list) :
          ncall[c].list[i].read => ncall[c].list[i].id \in readRows
    /\ "crossed" \notin unlucky =>
          /\ \A i \in 1 .. Len(notices) : notices[i].read => notices[i].id \in readRows
          /\ \A c \in Calls : ncall[c].pc = "answered" /\ ncall[c].op = "mark" =>
                ncall[c].ids \ {None} \subseteq readRows /\ (None \in ncall[c].ids => 1 .. made \subseteq readRows)

\* Every new notification is in the list or due, and only once.
DueInv ==
    /\ \A i, j \in 1 .. Len(notices) : notices[i].id = notices[j].id => i = j
    /\ \A i, j \in 1 .. Len(pushed) : pushed[i] = pushed[j] => i = j
    /\ \A i \in 1 .. Len(pushed) : pushed[i] \notin toPush
    /\ \A i \in 1 .. Len(notices) : notices[i].id \notin toPush
    /\ \A i \in 1 .. Len(notices), j \in 1 .. Len(pushed) : notices[i].id # pushed[j]
    /\ \A id \in 1 .. made : id > made - Newest =>
          \/ id \in toPush
          \/ \E j \in 1 .. Len(pushed) : pushed[j] = id
          \/ \E i \in 1 .. Len(notices) : notices[i].id = id

\* One request runs at a time, with nothing due, and a fetch has the newest.
AnswerInv ==
    /\ \A c, d \in Calls : ncall[c].pc # "idle" /\ ncall[d].pc # "idle" => c = d
    /\ Asking => toPush = {} /\ pushed = <<>>
    /\ \A c \in Calls : ncall[c].pc = "answered" /\ ncall[c].op = "fetch" =>
          /\ Len(ncall[c].list) = (IF made < Newest THEN made ELSE Newest)
          /\ \A i \in 1 .. Len(ncall[c].list) : ncall[c].list[i].id = made + 1 - i

LuckyInv == unlucky = {} => DueInv /\ AnswerInv

NoticesInv == NoticeShapes /\ NoneIdle /\ ReadInv /\ LuckyInv

LEMMA NoticeConstants == Newest \in Nat /\ MaxNotices \in Nat /\ \A id \in 1 .. MaxNotices : id # None
BY NoticesAssumption

LEMMA NoNoticeCall ==
    /\ \A n \in Nat : NIdle \in NCalls(n)
    /\ NIdle.pc = "idle" /\ NIdle.op = "none" /\ NIdle.ids = {} /\ NIdle.list = <<>> /\ Len(NIdle.list) = 0
<1>1. \A n \in Nat : <<>> \in Seq(NoticeRows(n))
  BY EmptySeq
<1>2. \A n \in Nat : NCall("idle", "none", {}, <<>>) \in NCalls(n)
  BY <1>1 DEF NCall, NCalls
<1>3. Len(<<>>) = 0
  BY EmptySeq
<1> QED
  BY <1>2, <1>3 DEF NIdle, NCall

\* What could be said of fewer notifications can be said of more.
LEMMA MoreNotices ==
    ASSUME NEW m \in Nat, NEW n \in Nat, m <= n
    PROVE  /\ 1 .. m \subseteq 1 .. n /\ NoticeRows(m) \subseteq NoticeRows(n) /\ NCalls(m) \subseteq NCalls(n)
           /\ \A s \in Seq(1 .. m) : s \in Seq(1 .. n)
           /\ \A s \in Seq(NoticeRows(m)) : s \in Seq(NoticeRows(n))
<1>1. 1 .. m \subseteq 1 .. n
  OBVIOUS
<1> DEFINE M == 1 .. m
           N == 1 .. n
<1>2. M \subseteq N
  BY <1>1
<1> HIDE DEF M, N
<1>3. [id : M, read : BOOLEAN] \subseteq [id : N, read : BOOLEAN]
  BY <1>2
<1>4. NoticeRows(m) \subseteq NoticeRows(n)
  BY <1>3 DEF NoticeRows, M, N
<1>5. \A s \in Seq(NoticeRows(m)) : s \in Seq(NoticeRows(n))
  BY <1>4, SeqMonotonic
<1>6. \A s \in Seq(M) : s \in Seq(N)
  BY <1>2, SeqMonotonic
<1> DEFINE Lm == Seq(NoticeRows(m))
           Ln == Seq(NoticeRows(n))
<1>7. Lm \subseteq Ln
  BY <1>5
<1> HIDE DEF Lm, Ln
<1>8. SUBSET (M \cup {None}) \subseteq SUBSET (N \cup {None})
  BY <1>2
<1>9. [pc : {"idle", "sent", "answered"}, op : {"none", "fetch", "mark"}, ids : SUBSET (M \cup {None}), list : Lm]
        \subseteq [pc : {"idle", "sent", "answered"}, op : {"none", "fetch", "mark"}, ids : SUBSET (N \cup {None}), list : Ln]
  BY <1>7, <1>8
<1>10. NCalls(m) \subseteq NCalls(n)
  BY <1>9 DEF NCalls, M, N, Lm, Ln
<1> QED
  BY <1>1, <1>4, <1>5, <1>6, <1>10 DEF M, N

LEMMA NoticesBegin == NoticesInit => NoticesInv
<1> SUFFICES ASSUME NoticesInit PROVE NoticesInv
  OBVIOUS
<1>1. /\ made = 0 /\ readRows = {} /\ toPush = {} /\ pushed = <<>> /\ joined = TRUE /\ notices = <<>> /\ unlucky = {}
  BY DEF NoticesInit
<1>2. ncall \in [Calls -> NCalls(0)] /\ \A c \in Calls : ncall[c] = NIdle
  <2> HIDE DEF NCalls, NIdle
  <2>1. NIdle \in NCalls(0)
    BY NoNoticeCall
  <2> QED
    BY <2>1 DEF NoticesInit
<1>3. NoticeShapes
  <2>1. 0 \in 0 .. MaxNotices
    BY NoticeConstants
  <2>2. <<>> \in Seq(1 .. 0) /\ <<>> \in Seq(NoticeRows(0))
    BY EmptySeq
  <2>3. made \in 0 .. MaxNotices /\ pushed \in Seq(1 .. made) /\ notices \in Seq(NoticeRows(made))
        /\ ncall \in [Calls -> NCalls(made)]
    BY <1>1, <1>2, <2>1, <2>2
  <2>4. readRows \subseteq 1 .. made /\ toPush \subseteq 1 .. made /\ unlucky \subseteq {"missed", "crossed"}
    BY <1>1
  <2> QED
    BY <1>1, <2>3, <2>4 DEF NoticeShapes
<1>4. NoneIdle /\ ReadInv
  <2>1. Len(notices) = 0
    BY <1>1, EmptySeq
  <2> QED
    BY <1>1, <1>2, <2>1, NoNoticeCall DEF NoneIdle, ReadInv
<1>5. LuckyInv
  <2>1. Len(notices) = 0 /\ Len(pushed) = 0
    BY <1>1, EmptySeq
  <2>2. DueInv
    BY <1>1, <2>1 DEF DueInv
  <2>3. AnswerInv
    BY <1>1, <1>2, NoNoticeCall DEF AnswerInv, Asking
  <2> QED
    BY <2>2, <2>3 DEF LuckyInv
<1> QED
  BY <1>3, <1>4, <1>5 DEF NoticesInv

\* What is so of the notifications and the calls.
LEMMA NoticeFacts ==
    ASSUME NoticesInv
    PROVE  /\ made \in Nat /\ made <= MaxNotices /\ MaxNotices \in Nat /\ Newest \in Nat
           /\ \A id \in 1 .. made : id # None
           /\ Len(notices) \in Nat /\ Len(pushed) \in Nat
           /\ \A i \in 1 .. Len(notices) : notices[i] \in NoticeRows(made) /\ notices[i].id \in 1 .. made
           /\ \A i \in 1 .. Len(pushed) : pushed[i] \in 1 .. made
           /\ \A c \in Calls : /\ ncall[c] \in NCalls(made) /\ ncall[c].list \in Seq(NoticeRows(made))
                               /\ ncall[c].ids \subseteq 1 .. made \cup {None}
                               /\ ncall[c].pc \in {"idle", "sent", "answered"}
                               /\ ncall[c].op \in {"none", "fetch", "mark"}
                               /\ Len(ncall[c].list) \in Nat
<1>1. made \in Nat /\ made <= MaxNotices /\ MaxNotices \in Nat /\ Newest \in Nat
  BY NoticeConstants DEF NoticesInv, NoticeShapes
<1>2. \A id \in 1 .. made : id # None
  BY <1>1, NoticeConstants
<1>3. notices \in Seq(NoticeRows(made)) /\ pushed \in Seq(1 .. made) /\ \A c \in Calls : ncall[c] \in NCalls(made)
  BY DEF NoticesInv, NoticeShapes
<1>4. \A c \in Calls : /\ ncall[c].list \in Seq(NoticeRows(made)) /\ ncall[c].ids \subseteq 1 .. made \cup {None}
                       /\ ncall[c].pc \in {"idle", "sent", "answered"} /\ ncall[c].op \in {"none", "fetch", "mark"}
  BY <1>3 DEF NCalls
<1>5. Len(notices) \in Nat /\ Len(pushed) \in Nat /\ \A c \in Calls : Len(ncall[c].list) \in Nat
  BY <1>3, <1>4, LenProperties
<1>6. \A i \in 1 .. Len(notices) : notices[i] \in NoticeRows(made)
  BY <1>3, ElementOfSeq
<1>7. \A i \in 1 .. Len(pushed) : pushed[i] \in 1 .. made
  BY <1>3, ElementOfSeq
<1>8. \A i \in 1 .. Len(notices) : notices[i].id \in 1 .. made
  BY <1>6 DEF NoticeRows
<1> QED
  BY <1>1, <1>2, <1>3, <1>4, <1>5, <1>6, <1>7, <1>8

LEMMA CreationHolds == ASSUME NoticesInv, createNotification PROVE NoticesInv'
<1> DEFINE m == made + 1
<1>1. /\ made < MaxNotices /\ made' = m /\ toPush' = toPush \cup {m}
      /\ unlucky' = unlucky \cup (IF Asking THEN {"crossed"} ELSE {})
      /\ UNCHANGED <<readRows, pushed, joined, notices, ncall>>
  BY DEF createNotification
<1>2. /\ m \in Nat /\ made \in Nat /\ made <= m /\ m \in 0 .. MaxNotices /\ m \in 1 .. m /\ m \notin 1 .. made
      /\ \A id \in 1 .. m : id = m \/ id \in 1 .. made
  BY <1>1, NoticeFacts
<1>3. /\ 1 .. made \subseteq 1 .. m /\ NCalls(made) \subseteq NCalls(m)
      /\ (\A s \in Seq(1 .. made) : s \in Seq(1 .. m))
      /\ \A s \in Seq(NoticeRows(made)) : s \in Seq(NoticeRows(m))
  BY <1>2, MoreNotices
<1>4. m > made - Newest /\ \A id \in 1 .. made : id > m - Newest => id > made - Newest
  BY <1>2, NoticeFacts
<1> HIDE DEF m
<1>5. NoticeShapes'
  <2>1. made' \in 0 .. MaxNotices
    BY <1>1, <1>2
  <2>2. readRows' \subseteq 1 .. m /\ toPush' \subseteq 1 .. m
    BY <1>1, <1>2, <1>3 DEF NoticesInv, NoticeShapes
  <2>3. pushed' \in Seq(1 .. m) /\ notices' \in Seq(NoticeRows(m))
    BY <1>1, <1>3 DEF NoticesInv, NoticeShapes
  <2>4. ncall' \in [Calls -> NCalls(m)]
    <3> HIDE DEF NCalls
    <3> QED
      BY <1>1, <1>3 DEF NoticesInv, NoticeShapes
  <2>5. joined' \in BOOLEAN /\ unlucky' \subseteq {"missed", "crossed"}
    BY <1>1 DEF NoticesInv, NoticeShapes
  <2> QED
    BY <1>1, <2>1, <2>2, <2>3, <2>4, <2>5 DEF NoticeShapes
<1>6. NoneIdle'
  BY <1>1 DEF NoticesInv, NoneIdle
<1>7. ReadInv'
  <2>1. \A c \in Calls : \A i \in 1 .. Len(ncall[c].list) :
          ncall[c].list[i].read => ncall[c].list[i].id \in readRows
    BY DEF NoticesInv, ReadInv
  <2>2. ASSUME "crossed" \notin unlucky'
        PROVE  /\ \A i \in 1 .. Len(notices) : notices[i].read => notices[i].id \in readRows
               /\ \A c \in Calls : ncall[c].pc = "idle"
    BY <1>1, <2>2 DEF NoticesInv, ReadInv, Asking
  <2> QED
    BY <1>1, <2>1, <2>2 DEF ReadInv
<1>8. LuckyInv'
  <2> SUFFICES ASSUME unlucky' = {} PROVE DueInv' /\ AnswerInv'
    BY DEF LuckyInv
  <2>1. unlucky = {} /\ DueInv /\ AnswerInv /\ \A c \in Calls : ncall[c].pc = "idle"
    BY <1>1 DEF Asking, NoticesInv, LuckyInv
  <2>2. /\ \A i \in 1 .. Len(notices) : notices[i].id # m
        /\ \A i \in 1 .. Len(pushed) : pushed[i] # m
    BY <1>2, NoticeFacts
  <2>3. DueInv'
    BY <1>1, <1>2, <1>4, <2>1, <2>2 DEF DueInv
  <2>4. AnswerInv'
    BY <1>1, <2>1 DEF AnswerInv, Asking
  <2> QED
    BY <2>3, <2>4
<1> QED
  BY <1>5, <1>6, <1>7, <1>8 DEF NoticesInv

LEMMA PushHolds == ASSUME NoticesInv, Pushes PROVE NoticesInv'
<1>1. PICK id \in toPush :
        /\ toPush' = toPush \ {id}
        /\ pushed' = IF joined THEN Append(pushed, id) ELSE pushed
        /\ unlucky' = unlucky \cup (IF joined THEN {} ELSE {"missed"})
        /\ UNCHANGED <<made, readRows, joined, notices, ncall>>
  BY DEF Pushes
<1>2. id \in 1 .. made /\ pushed \in Seq(1 .. made) /\ Len(pushed) \in Nat
  BY NoticeFacts DEF NoticesInv, NoticeShapes
<1> DEFINE s == Append(pushed, id)
<1>3. /\ s \in Seq(1 .. made) /\ Len(s) = Len(pushed) + 1
      /\ \A i \in 1 .. Len(s) : s[i] = IF i = Len(pushed) + 1 THEN id ELSE pushed[i]
  BY <1>2, AppendProperties
<1> HIDE DEF s
<1>4. pushed' = IF joined THEN s ELSE pushed
  BY <1>1 DEF s
<1>5. NoticeShapes'
  <2>1. pushed' \in Seq(1 .. made)
    BY <1>2, <1>3, <1>4
  <2>2. toPush' \subseteq 1 .. made /\ unlucky' \subseteq {"missed", "crossed"}
    BY <1>1 DEF NoticesInv, NoticeShapes
  <2> QED
    BY <1>1, <2>1, <2>2 DEF NoticesInv, NoticeShapes
<1>6. NoneIdle' /\ ReadInv'
  BY <1>1 DEF NoticesInv, NoneIdle, ReadInv
<1>7. LuckyInv'
  <2> SUFFICES ASSUME unlucky' = {} PROVE DueInv' /\ AnswerInv'
    BY DEF LuckyInv
  <2>1. unlucky = {} /\ DueInv /\ AnswerInv /\ joined /\ pushed' = s
    BY <1>1, <1>4 DEF NoticesInv, LuckyInv
  <2>2. AnswerInv'
    <3>1. ~Asking
      BY <1>1, <2>1 DEF AnswerInv
    <3> QED
      BY <1>1, <2>1, <3>1 DEF AnswerInv, Asking
  <2>3. \A i \in 1 .. Len(s) : i = Len(pushed) + 1 \/ i \in 1 .. Len(pushed)
    BY <1>2, <1>3
  <2>4. \A i \in 1 .. Len(pushed) : i \in 1 .. Len(s) /\ s[i] = pushed[i]
    BY <1>2, <1>3
  <2>5. Len(pushed) + 1 \in 1 .. Len(s) /\ s[Len(pushed) + 1] = id
    BY <1>2, <1>3
  <2>6. \A i \in 1 .. Len(s) :
          \/ i = Len(pushed) + 1 /\ s[i] = id
          \/ i \in 1 .. Len(pushed) /\ s[i] = pushed[i]
    BY <2>3, <2>4, <2>5
  <2>7. /\ \A i, j \in 1 .. Len(s) : s[i] = s[j] => i = j
        /\ \A i \in 1 .. Len(s) : s[i] \notin toPush \ {id}
        /\ \A i \in 1 .. Len(notices), j \in 1 .. Len(s) : notices[i].id # s[j]
    BY <1>1, <2>1, <2>6 DEF DueInv
  <2>8. \A n \in 1 .. made : n > made - Newest =>
          \/ n \in toPush \ {id}
          \/ \E j \in 1 .. Len(s) : s[j] = n
          \/ \E i \in 1 .. Len(notices) : notices[i].id = n
    BY <2>1, <2>4, <2>5 DEF DueInv
  <2>9. \A i \in 1 .. Len(notices) : notices[i].id \notin toPush \ {id}
    BY <2>1 DEF DueInv
  <2> HIDE DEF s
  <2>10. DueInv'
    BY <1>1, <2>1, <2>7, <2>8, <2>9 DEF DueInv
  <2> QED
    BY <2>2, <2>10
<1> QED
  BY <1>5, <1>6, <1>7 DEF NoticesInv

LEMMA SocketBreakHolds == ASSUME NoticesInv, SocketBreaks PROVE NoticesInv'
<1>1. /\ joined' = ~joined /\ pushed' = <<>>
      /\ unlucky' = unlucky \cup (IF pushed = <<>> THEN {} ELSE {"missed"})
      /\ UNCHANGED <<made, readRows, toPush, notices, ncall>>
  BY DEF SocketBreaks
<1>2. NoticeShapes'
  <2>1. <<>> \in Seq(1 .. made)
    BY EmptySeq
  <2>2. joined' \in BOOLEAN /\ unlucky' \subseteq {"missed", "crossed"}
    BY <1>1 DEF NoticesInv, NoticeShapes
  <2> QED
    BY <1>1, <2>1, <2>2 DEF NoticesInv, NoticeShapes
<1>3. NoneIdle' /\ ReadInv'
  BY <1>1 DEF NoticesInv, NoneIdle, ReadInv
<1>4. LuckyInv'
  <2> SUFFICES ASSUME unlucky' = {} PROVE DueInv' /\ AnswerInv'
    BY DEF LuckyInv
  <2>1. unlucky = {} /\ DueInv /\ AnswerInv /\ pushed' = pushed
    BY <1>1 DEF NoticesInv, LuckyInv
  <2> QED
    BY <1>1, <2>1 DEF DueInv, AnswerInv, Asking
<1> QED
  BY <1>2, <1>3, <1>4 DEF NoticesInv

LEMMA ArrivalHolds == ASSUME NoticesInv, NoticeArrives PROVE NoticesInv'
<1> DEFINE e == Notice(Head(pushed), FALSE)
           s == <<e>> \o notices
           p == Tail(pushed)
<1>1. /\ pushed # <<>> /\ notices' = s /\ pushed' = p
      /\ unlucky' = unlucky \cup (IF Asking THEN {"crossed"} ELSE {})
      /\ UNCHANGED <<made, readRows, toPush, joined, ncall>>
  BY DEF NoticeArrives
<1>2. pushed \in Seq(1 .. made) /\ notices \in Seq(NoticeRows(made)) /\ Len(notices) \in Nat /\ Len(pushed) \in Nat
  BY NoticeFacts DEF NoticesInv, NoticeShapes
<1>3. /\ Head(pushed) \in 1 .. made /\ p \in Seq(1 .. made) /\ Len(p) = Len(pushed) - 1
      /\ \A i \in 1 .. Len(p) : p[i] = pushed[i + 1]
  BY <1>1, <1>2, HeadTailProperties
<1>4. Len(pushed) \in Nat \ {0} /\ Head(pushed) = pushed[1]
  BY <1>1, <1>2, EmptySeq
<1>5. e \in NoticeRows(made) /\ e.id = pushed[1] /\ e.read = FALSE
  BY <1>3, <1>4 DEF Notice, NoticeRows
<1>6. <<e>> \in Seq(NoticeRows(made)) /\ Len(<<e>>) = 1 /\ <<e>>[1] = e
  <2> HIDE DEF e
  <2> DEFINE R == NoticeRows(made)
  <2>1. e \in R
    BY <1>5
  <2> HIDE DEF R
  <2>2. <<e>> \in Seq(R)
    BY <2>1
  <2> QED
    BY <2>2 DEF R
<1>7. /\ s \in Seq(NoticeRows(made)) /\ Len(s) = Len(notices) + 1
      /\ s[1] = e /\ \A i \in 1 .. Len(notices) : s[i + 1] = notices[i]
  <2> HIDE DEF e
  <2>1. /\ <<e>> \o notices \in Seq(NoticeRows(made)) /\ Len(<<e>> \o notices) = Len(<<e>>) + Len(notices)
        /\ \A i \in 1 .. Len(<<e>>) + Len(notices) :
             (<<e>> \o notices)[i] = IF i <= Len(<<e>>) THEN <<e>>[i] ELSE notices[i - Len(<<e>>)]
    BY <1>2, <1>6, ConcatProperties
  <2>2. s \in Seq(NoticeRows(made)) /\ Len(s) = Len(notices) + 1
        /\ \A i \in 1 .. Len(notices) + 1 : s[i] = IF i <= 1 THEN <<e>>[i] ELSE notices[i - 1]
    BY <1>2, <1>6, <2>1
  <2> HIDE DEF s
  <2>3. s[1] = e
    <3>1. 1 \in 1 .. Len(notices) + 1
      BY <1>2
    <3> QED
      BY <1>6, <2>2, <3>1
  <2>4. ASSUME NEW i \in 1 .. Len(notices) PROVE s[i + 1] = notices[i]
    <3>1. i + 1 \in 1 .. Len(notices) + 1 /\ ~(i + 1 <= 1) /\ (i + 1) - 1 = i
      BY <1>2
    <3> QED
      BY <2>2, <3>1
  <2> QED
    BY <2>2, <2>3, <2>4
<1> HIDE DEF e, s, p
<1>8. \A i \in 1 .. Len(s) :
        \/ i = 1 /\ s[i] = e
        \/ i - 1 \in 1 .. Len(notices) /\ s[i] = notices[i - 1]
  <2> SUFFICES ASSUME NEW i \in 1 .. Len(s), i # 1 PROVE i - 1 \in 1 .. Len(notices) /\ s[i] = notices[i - 1]
    BY <1>7
  <2>1. i - 1 \in 1 .. Len(notices) /\ (i - 1) + 1 = i
    BY <1>2, <1>7
  <2> QED
    BY <1>7, <2>1
<1>9. \A i \in 1 .. Len(p) : i + 1 \in 1 .. Len(pushed) /\ i + 1 # 1 /\ p[i] = pushed[i + 1]
  BY <1>2, <1>3
<1>10. 1 \in 1 .. Len(pushed) /\ \A i \in 1 .. Len(pushed) : i = 1 \/ (i - 1 \in 1 .. Len(p) /\ (i - 1) + 1 = i)
  BY <1>3, <1>4
<1>11. NoticeShapes'
  <2>1. unlucky' \subseteq {"missed", "crossed"} /\ pushed' \in Seq(1 .. made) /\ notices' \in Seq(NoticeRows(made))
    BY <1>1, <1>3, <1>7 DEF NoticesInv, NoticeShapes
  <2> QED
    BY <1>1, <2>1 DEF NoticesInv, NoticeShapes
<1>12. NoneIdle'
  BY <1>1 DEF NoticesInv, NoneIdle
<1>13. ReadInv'
  <2>1. \A c \in Calls : \A i \in 1 .. Len(ncall[c].list) :
          ncall[c].list[i].read => ncall[c].list[i].id \in readRows
    BY DEF NoticesInv, ReadInv
  <2>2. ASSUME "crossed" \notin unlucky'
        PROVE  /\ \A i \in 1 .. Len(s) : s[i].read => s[i].id \in readRows
               /\ \A c \in Calls : ncall[c].pc = "idle"
    BY <1>1, <1>5, <1>8, <2>2 DEF NoticesInv, ReadInv, Asking
  <2> QED
    BY <1>1, <2>1, <2>2 DEF ReadInv
<1>14. LuckyInv'
  <2> SUFFICES ASSUME unlucky' = {} PROVE DueInv' /\ AnswerInv'
    BY DEF LuckyInv
  <2>1. unlucky = {} /\ DueInv /\ AnswerInv /\ \A c \in Calls : ncall[c].pc = "idle"
    BY <1>1 DEF Asking, NoticesInv, LuckyInv
  <2>2. AnswerInv'
    BY <1>1, <2>1 DEF AnswerInv, Asking
  <2>3. \A i \in 1 .. Len(notices) : notices[i].id # pushed[1]
    BY <1>10, <2>1 DEF DueInv
  <2>4. \A i, j \in 1 .. Len(s) : s[i].id = s[j].id => i = j
    <3> SUFFICES ASSUME NEW i \in 1 .. Len(s), NEW j \in 1 .. Len(s), s[i].id = s[j].id PROVE i = j
      OBVIOUS
    <3>1. i \in Int /\ j \in Int
      OBVIOUS
    <3>2. CASE i = 1
      BY <1>5, <1>8, <2>3, <3>2
    <3>3. CASE j = 1
      BY <1>5, <1>8, <2>3, <3>3
    <3>4. CASE i # 1 /\ j # 1
      <4>1. /\ i - 1 \in 1 .. Len(notices) /\ j - 1 \in 1 .. Len(notices)
            /\ notices[i - 1].id = notices[j - 1].id
        BY <1>8, <3>4
      <4>2. i - 1 = j - 1
        BY <2>1, <4>1 DEF DueInv
      <4> QED
        BY <3>1, <4>2
    <3> QED
      BY <3>2, <3>3, <3>4
  <2>5. \A i, j \in 1 .. Len(p) : p[i] = p[j] => i = j
    <3> SUFFICES ASSUME NEW i \in 1 .. Len(p), NEW j \in 1 .. Len(p), p[i] = p[j] PROVE i = j
      OBVIOUS
    <3>1. i + 1 = j + 1
      BY <1>9, <2>1 DEF DueInv
    <3> QED
      BY <3>1
  <2>6. /\ \A i \in 1 .. Len(p) : p[i] \notin toPush
        /\ \A i \in 1 .. Len(s) : s[i].id \notin toPush
    <3>1. pushed[1] \notin toPush /\ \A i \in 1 .. Len(p) : p[i] \notin toPush
      BY <1>9, <1>10, <2>1 DEF DueInv
    <3>2. \A i \in 1 .. Len(notices) : notices[i].id \notin toPush
      BY <2>1 DEF DueInv
    <3> QED
      BY <1>5, <1>8, <3>1, <3>2
  <2>7. \A i \in 1 .. Len(s), j \in 1 .. Len(p) : s[i].id # p[j]
    <3> SUFFICES ASSUME NEW i \in 1 .. Len(s), NEW j \in 1 .. Len(p) PROVE s[i].id # p[j]
      OBVIOUS
    <3>1. j + 1 \in 1 .. Len(pushed) /\ j + 1 # 1 /\ p[j] = pushed[j + 1]
      BY <1>9
    <3>2. CASE i = 1
      <4>1. pushed[1] # pushed[j + 1]
        BY <1>10, <2>1, <3>1 DEF DueInv
      <4> QED
        BY <1>5, <1>8, <3>1, <3>2, <4>1
    <3>3. CASE i # 1
      BY <1>8, <2>1, <3>1, <3>3 DEF DueInv
    <3> QED
      BY <3>2, <3>3
  <2>8. \A n \in 1 .. made : n > made - Newest =>
          \/ n \in toPush
          \/ \E j \in 1 .. Len(p) : p[j] = n
          \/ \E i \in 1 .. Len(s) : s[i].id = n
    <3> SUFFICES ASSUME NEW n \in 1 .. made, n > made - Newest, n \notin toPush
                 PROVE  (\E j \in 1 .. Len(p) : p[j] = n) \/ \E i \in 1 .. Len(s) : s[i].id = n
      OBVIOUS
    <3>1. CASE \E j \in 1 .. Len(pushed) : pushed[j] = n
      <4>1. PICK j \in 1 .. Len(pushed) : pushed[j] = n
        BY <3>1
      <4>2. CASE j = 1
        <5>1. 1 \in 1 .. Len(s)
          BY <1>2, <1>7
        <5> QED
          BY <1>5, <1>7, <4>1, <4>2, <5>1
      <4>3. CASE j # 1
        BY <1>9, <1>10, <4>1, <4>3
      <4> QED
        BY <4>2, <4>3
    <3>2. CASE \E i \in 1 .. Len(notices) : notices[i].id = n
      <4>1. PICK i \in 1 .. Len(notices) : notices[i].id = n
        BY <3>2
      <4>2. i + 1 \in 1 .. Len(s) /\ s[i + 1] = notices[i]
        BY <1>2, <1>7
      <4> QED
        BY <4>1, <4>2
    <3> QED
      BY <2>1, <3>1, <3>2 DEF DueInv
  <2>9. DueInv'
    BY <1>1, <2>4, <2>5, <2>6, <2>7, <2>8 DEF DueInv
  <2> QED
    BY <2>2, <2>9
<1> QED
  BY <1>11, <1>12, <1>13, <1>14 DEF NoticesInv

\* A request of c goes on to q.
LEMMA NoticeCallGoes ==
    ASSUME NoticesInv, NEW c \in Calls, NEW q \in NCalls(made), ncall' = [ncall EXCEPT ![c] = q]
    PROVE  /\ ncall' \in [Calls -> NCalls(made)] /\ ncall'[c] = q
           /\ \A d \in Calls : d # c => ncall'[d] = ncall[d]
<1> HIDE DEF NCalls
<1> QED
  BY DEF NoticesInv, NoticeShapes

LEMMA AskingHolds ==
    ASSUME NoticesInv, NEW c \in Calls, fetchNotifications(c) \/ markNotificationRead(c)
    PROVE  NoticesInv'
<1>1. PICK q \in NCalls(made) : NAsks(c, q) /\ q.op # "none" /\ q.pc = "sent" /\ Len(q.list) = 0
  <2>1. ASSUME NEW o \in {"fetch", "mark"}, NEW D, D \subseteq 1 .. made \cup {None}
        PROVE  /\ NCall("sent", o, D, <<>>) \in NCalls(made) /\ NCall("sent", o, D, <<>>).op # "none"
               /\ NCall("sent", o, D, <<>>).pc = "sent" /\ Len(NCall("sent", o, D, <<>>).list) = 0
    <3>1. <<>> \in Seq(NoticeRows(made)) /\ Len(<<>>) = 0
      BY EmptySeq
    <3>2. NCall("sent", o, D, <<>>) \in NCalls(made)
      BY <2>1, <3>1 DEF NCall, NCalls
    <3> QED
      BY <3>1, <3>2 DEF NCall, NIdle
  <2>2. CASE fetchNotifications(c)
    BY <2>1, <2>2 DEF fetchNotifications
  <2>3. CASE markNotificationRead(c)
    <3>1. \A id \in Listed(notices) : {id} \subseteq 1 .. made \cup {None}
      BY NoticeFacts DEF Listed
    <3>2. CASE NAsks(c, NCall("sent", "mark", {None}, <<>>))
      BY <2>1, <3>2
    <3>3. CASE \E id \in Listed(notices) : NAsks(c, NCall("sent", "mark", {id}, <<>>))
      <4>1. PICK id \in Listed(notices) : NAsks(c, NCall("sent", "mark", {id}, <<>>))
        BY <3>3
      <4>2. {id} \subseteq 1 .. made \cup {None}
        BY <3>1, <4>1
      <4> QED
        BY <2>1, <4>1, <4>2
    <3> QED
      BY <2>3, <3>2, <3>3 DEF markNotificationRead
  <2> QED
    BY <2>2, <2>3
<1>2. /\ ncall[c].pc = "idle" /\ ncall' = [ncall EXCEPT ![c] = q]
      /\ unlucky' = unlucky \cup (IF Asking \/ toPush # {} \/ pushed # <<>> THEN {"crossed"} ELSE {})
      /\ UNCHANGED <<made, readRows, toPush, pushed, joined, notices>>
  BY <1>1 DEF NAsks
<1>3. ncall' \in [Calls -> NCalls(made)] /\ ncall'[c] = q /\ \A d \in Calls : d # c => ncall'[d] = ncall[d]
  BY <1>2, NoticeCallGoes
<1>4. NoticeShapes' /\ NoneIdle'
  <2>1. unlucky' \subseteq {"missed", "crossed"}
    BY <1>2 DEF NoticesInv, NoticeShapes
  <2> HIDE DEF NCalls
  <2>2. NoticeShapes'
    BY <1>2, <1>3, <2>1 DEF NoticesInv, NoticeShapes
  <2> QED
    BY <1>1, <1>2, <1>3, <2>2 DEF NoticesInv, NoneIdle
<1>5. ReadInv'
  <2>1. \A d \in Calls : \A i \in 1 .. Len(ncall'[d].list) :
          ncall'[d].list[i].read => ncall'[d].list[i].id \in readRows
    BY <1>1, <1>3 DEF NoticesInv, ReadInv
  <2>2. ASSUME "crossed" \notin unlucky'
        PROVE  /\ \A i \in 1 .. Len(notices) : notices[i].read => notices[i].id \in readRows
               /\ \A d \in Calls : ncall'[d].pc # "answered"
    BY <1>1, <1>2, <1>3, <2>2 DEF NoticesInv, ReadInv, Asking
  <2> QED
    BY <1>2, <2>1, <2>2 DEF ReadInv
<1>6. LuckyInv'
  <2> SUFFICES ASSUME unlucky' = {} PROVE DueInv' /\ AnswerInv'
    BY DEF LuckyInv
  <2>1. unlucky = {} /\ DueInv /\ toPush = {} /\ pushed = <<>> /\ \A d \in Calls : ncall[d].pc = "idle"
    BY <1>2 DEF Asking, NoticesInv, LuckyInv
  <2>2. DueInv'
    BY <1>2, <2>1 DEF DueInv
  <2>3. AnswerInv'
    BY <1>1, <1>2, <1>3, <2>1 DEF AnswerInv
  <2> QED
    BY <2>2, <2>3
<1> QED
  BY <1>4, <1>5, <1>6 DEF NoticesInv

\* What a fetch finds.
LEMMA NewestFound ==
    ASSUME NoticesInv
    PROVE  /\ NewestRows \in Seq(NoticeRows(made))
           /\ Len(NewestRows) = (IF made < Newest THEN made ELSE Newest)
           /\ \A i \in 1 .. Len(NewestRows) : /\ NewestRows[i].id = made + 1 - i
                                              /\ NewestRows[i].read => NewestRows[i].id \in readRows
<1> DEFINE n == IF made < Newest THEN made ELSE Newest
           L == [i \in 1 .. n |-> NoticeRow(made + 1 - i)]
<1>1. made \in Nat /\ n \in Nat /\ n <= made /\ NewestRows = L
  BY NoticeFacts DEF NewestRows
<1>2. ASSUME NEW i \in 1 .. n
      PROVE  /\ made + 1 - i \in 1 .. made /\ NoticeRow(made + 1 - i) \in NoticeRows(made)
             /\ NoticeRow(made + 1 - i).id = made + 1 - i
             /\ NoticeRow(made + 1 - i).read => made + 1 - i \in readRows
  <2>1. made + 1 - i \in 1 .. made
    BY <1>1
  <2> DEFINE k == made + 1 - i
  <2> HIDE DEF k
  <2>2. k \in 1 .. made
    BY <2>1 DEF k
  <2>3. NoticeRow(k) \in NoticeRows(made) /\ NoticeRow(k).id = k /\ (NoticeRow(k).read => k \in readRows)
    <3>1. CASE k \in readRows
      <4>1. NoticeRow(k) = [id |-> k, read |-> TRUE]
        BY <3>1 DEF NoticeRow, Notice
      <4> QED
        BY <2>2, <3>1, <4>1 DEF NoticeRows
    <3>2. CASE k \notin readRows
      <4>1. (k \in readRows) = FALSE
        BY <3>2
      <4>2. NoticeRow(k) = [id |-> k, read |-> FALSE]
        BY <4>1, Zenon DEF NoticeRow, Notice
      <4> QED
        BY <2>2, <4>2 DEF NoticeRows
    <3> QED
      BY <3>1, <3>2
  <2> QED
    BY <2>1, <2>3 DEF k
<1> HIDE DEF n
<1>3. L \in Seq(NoticeRows(made)) /\ Len(L) = n /\ \A i \in 1 .. n : L[i] = NoticeRow(made + 1 - i)
  <2> DEFINE R == NoticeRows(made)
  <2>1. \A i \in 1 .. n : NoticeRow(made + 1 - i) \in R
    BY <1>2
  <2> HIDE DEF R
  <2>2. L \in Seq(R)
    BY <1>1, <2>1
  <2>3. Len(L) = n
    BY <1>1
  <2> QED
    BY <2>2, <2>3 DEF R
<1> HIDE DEF L
<1> QED
  BY <1>1, <1>2, <1>3 DEF n

LEMMA NoticeServerHolds == ASSUME NoticesInv, NEW c \in Calls, NoticeServer(c) PROVE NoticesInv'
<1> DEFINE o == ncall[c].op
           D == ncall[c].ids
           found == IF o = "fetch" THEN NewestRows ELSE <<>>
           q == NCall("answered", o, D, found)
<1>1. /\ ncall[c].pc = "sent" /\ ncall' = [ncall EXCEPT ![c] = q]
      /\ readRows' = IF o = "mark" THEN readRows \cup (IF None \in D THEN 1 .. made ELSE D) ELSE readRows
      /\ UNCHANGED <<made, toPush, pushed, joined, notices, unlucky>>
  BY DEF NoticeServer
<1>2. o \in {"none", "fetch", "mark"} /\ D \subseteq 1 .. made \cup {None} /\ \A id \in 1 .. made : id # None
  BY NoticeFacts
<1>10. o # "none"
  BY <1>1, NoNoticeCall DEF NoticesInv, NoneIdle
<1>3. /\ found \in Seq(NoticeRows(made))
      /\ \A i \in 1 .. Len(found) : found[i].read => found[i].id \in readRows
      /\ o = "fetch" => /\ Len(found) = (IF made < Newest THEN made ELSE Newest)
                        /\ \A i \in 1 .. Len(found) : found[i].id = made + 1 - i
  <2>1. CASE o = "fetch"
    BY <2>1, NewestFound
  <2>2. CASE o # "fetch"
    <3>1. <<>> \in Seq(NoticeRows(made)) /\ Len(<<>>) = 0
      BY EmptySeq
    <3>2. \A i \in 1 .. 0 : FALSE
      OBVIOUS
    <3> QED
      BY <2>2, <3>1, <3>2
  <2> QED
    BY <2>1, <2>2
<1> HIDE DEF found
<1>4. q \in NCalls(made) /\ q # NIdle /\ q.pc = "answered" /\ q.op = o /\ q.ids = D /\ q.list = found
  <2>1. q \in NCalls(made)
    BY <1>2, <1>3 DEF NCall, NCalls
  <2> QED
    BY <2>1 DEF NCall, NIdle
<1> HIDE DEF q
<1>5. ncall' \in [Calls -> NCalls(made)] /\ ncall'[c] = q /\ \A d \in Calls : d # c => ncall'[d] = ncall[d]
  BY <1>1, <1>4, NoticeCallGoes
<1>6. readRows' \subseteq 1 .. made /\ readRows \subseteq readRows'
      /\ (o = "mark" => D \ {None} \subseteq readRows' /\ (None \in D => 1 .. made \subseteq readRows'))
  <2>1. readRows \subseteq 1 .. made
    BY DEF NoticesInv, NoticeShapes
  <2>2. CASE o = "mark" /\ None \in D
    BY <1>1, <1>2, <2>1, <2>2
  <2>3. CASE o = "mark" /\ None \notin D
    BY <1>1, <1>2, <2>1, <2>3
  <2>4. CASE o # "mark"
    BY <1>1, <2>1, <2>4
  <2> QED
    BY <2>2, <2>3, <2>4
<1>7. NoticeShapes' /\ NoneIdle'
  <2> HIDE DEF NCalls
  <2>1. NoticeShapes'
    BY <1>1, <1>5, <1>6 DEF NoticesInv, NoticeShapes
  <2> QED
    BY <1>4, <1>5, <1>10, <2>1 DEF NoticesInv, NoneIdle
<1>8. ReadInv'
  <2>1. \A d \in Calls : \A i \in 1 .. Len(ncall'[d].list) :
          ncall'[d].list[i].read => ncall'[d].list[i].id \in readRows'
    BY <1>3, <1>4, <1>5, <1>6 DEF NoticesInv, ReadInv
  <2>2. ASSUME "crossed" \notin unlucky
        PROVE  /\ \A i \in 1 .. Len(notices) : notices[i].read => notices[i].id \in readRows'
               /\ \A d \in Calls : ncall'[d].pc = "answered" /\ ncall'[d].op = "mark" =>
                     /\ ncall'[d].ids \ {None} \subseteq readRows'
                     /\ None \in ncall'[d].ids => 1 .. made \subseteq readRows'
    <3>1. \A i \in 1 .. Len(notices) : notices[i].read => notices[i].id \in readRows'
      BY <1>6, <2>2 DEF NoticesInv, ReadInv
    <3>2. \A d \in Calls : ncall'[d].pc = "answered" /\ ncall'[d].op = "mark" =>
                     /\ ncall'[d].ids \ {None} \subseteq readRows'
                     /\ None \in ncall'[d].ids => 1 .. made \subseteq readRows'
      BY <1>4, <1>5, <1>6, <2>2 DEF NoticesInv, ReadInv
    <3> QED
      BY <3>1, <3>2
  <2> QED
    BY <1>1, <2>1, <2>2 DEF ReadInv
<1>9. LuckyInv'
  <2> SUFFICES ASSUME unlucky = {} PROVE DueInv' /\ AnswerInv'
    BY <1>1 DEF LuckyInv
  <2>1. DueInv /\ AnswerInv /\ Asking
    BY <1>1 DEF Asking, NoticesInv, LuckyInv
  <2>2. DueInv'
    BY <1>1, <2>1 DEF DueInv
  <2>3. AnswerInv'
    <3>1. \A d \in Calls : ncall'[d].pc # "idle" => ncall[d].pc # "idle"
      BY <1>1, <1>5
    <3>2. \A d, e \in Calls : ncall'[d].pc # "idle" /\ ncall'[e].pc # "idle" => d = e
      BY <2>1, <3>1 DEF AnswerInv
    <3>3. toPush = {} /\ pushed = <<>>
      BY <2>1 DEF AnswerInv
    <3>4. \A d \in Calls : ncall'[d].pc = "answered" /\ ncall'[d].op = "fetch" =>
            /\ Len(ncall'[d].list) = (IF made < Newest THEN made ELSE Newest)
            /\ \A i \in 1 .. Len(ncall'[d].list) : ncall'[d].list[i].id = made + 1 - i
      BY <1>3, <1>4, <1>5, <2>1 DEF AnswerInv
    <3> QED
      BY <1>1, <3>2, <3>3, <3>4 DEF AnswerInv
  <2> QED
    BY <2>2, <2>3
<1> QED
  BY <1>7, <1>8, <1>9 DEF NoticesInv

LEMMA NoticeAnswerHolds == ASSUME NoticesInv, NEW c \in Calls, NoticeAnswered(c) PROVE NoticesInv'
<1> DEFINE D == ncall[c].ids
           Marks(n) == IF None \in D \/ n.id \in D THEN Notice(n.id, TRUE) ELSE n
           M == [i \in 1 .. Len(notices) |-> Marks(notices[i])]
           s == IF ncall[c].op = "fetch" THEN ncall[c].list ELSE M
<1>1. /\ ncall[c].pc = "answered" /\ notices' = s /\ ncall' = [ncall EXCEPT ![c] = NIdle]
      /\ UNCHANGED <<made, readRows, toPush, pushed, joined, unlucky>>
  BY DEF NoticeAnswered
<1>2. ncall' \in [Calls -> NCalls(made)] /\ ncall'[c] = NIdle /\ \A d \in Calls : d # c => ncall'[d] = ncall[d]
  BY <1>1, NoNoticeCall, NoticeCallGoes, NoticeFacts
<1>3. ncall[c].op \in {"fetch", "mark"}
  <2>1. ncall[c].op # "none"
    BY <1>1, NoNoticeCall DEF NoticesInv, NoneIdle
  <2> QED
    BY <2>1, NoticeFacts
<1>4. /\ M \in Seq(NoticeRows(made)) /\ Len(M) = Len(notices)
      /\ \A i \in 1 .. Len(notices) :
           M[i].id = notices[i].id /\ (M[i].read => notices[i].read \/ None \in D \/ notices[i].id \in D)
  <2>1. ASSUME NEW i \in 1 .. Len(notices)
        PROVE  /\ Marks(notices[i]) \in NoticeRows(made) /\ Marks(notices[i]).id = notices[i].id
               /\ Marks(notices[i]).read => notices[i].read \/ None \in D \/ notices[i].id \in D
    <3>1. notices[i] \in NoticeRows(made) /\ notices[i].id \in 1 .. made
      BY NoticeFacts
    <3>2. CASE None \in D \/ notices[i].id \in D
      BY <3>1, <3>2 DEF Notice, NoticeRows
    <3>3. CASE ~(None \in D \/ notices[i].id \in D)
      BY <3>1, <3>3
    <3> QED
      BY <3>2, <3>3
  <2>2. Len(notices) \in Nat
    BY NoticeFacts
  <2> DEFINE R == NoticeRows(made)
             n == Len(notices)
             F(i) == Marks(notices[i])
  <2>3. n \in Nat /\ \A i \in 1 .. n : F(i) \in R
    BY <2>1, <2>2
  <2> HIDE DEF R, n, F
  <2>4. [i \in 1 .. n |-> F(i)] \in Seq(R) /\ Len([i \in 1 .. n |-> F(i)]) = n
    BY <2>3
  <2>5. M = [i \in 1 .. n |-> F(i)]
    BY DEF n, F
  <2>6. M \in Seq(NoticeRows(made)) /\ Len(M) = Len(notices)
    BY <2>4, <2>5 DEF R, n
  <2> QED
    BY <2>1, <2>6
<1> HIDE DEF M
<1>5. s \in Seq(NoticeRows(made))
  BY <1>4, NoticeFacts
<1>6. NoticeShapes' /\ NoneIdle'
  <2> HIDE DEF NCalls, s
  <2>1. NoticeShapes'
    BY <1>1, <1>2, <1>5 DEF NoticesInv, NoticeShapes
  <2> QED
    BY <1>2, <2>1, NoNoticeCall DEF NoticesInv, NoneIdle
<1>7. ReadInv'
  <2>1. \A d \in Calls : \A i \in 1 .. Len(ncall'[d].list) :
          ncall'[d].list[i].read => ncall'[d].list[i].id \in readRows
    BY <1>2, NoNoticeCall DEF NoticesInv, ReadInv
  <2>2. ASSUME "crossed" \notin unlucky
        PROVE  /\ \A i \in 1 .. Len(s) : s[i].read => s[i].id \in readRows
               /\ \A d \in Calls : ncall'[d].pc = "answered" /\ ncall'[d].op = "mark" =>
                     /\ ncall'[d].ids \ {None} \subseteq readRows
                     /\ None \in ncall'[d].ids => 1 .. made \subseteq readRows
    <3>1. \A d \in Calls : ncall'[d].pc = "answered" /\ ncall'[d].op = "mark" =>
                     /\ ncall'[d].ids \ {None} \subseteq readRows
                     /\ None \in ncall'[d].ids => 1 .. made \subseteq readRows
      BY <1>2, <2>2, NoNoticeCall DEF NoticesInv, ReadInv
    <3>2. CASE ncall[c].op = "fetch"
      BY <3>1, <3>2 DEF NoticesInv, ReadInv
    <3>3. CASE ncall[c].op = "mark"
      <4>1. D \ {None} \subseteq readRows /\ (None \in D => 1 .. made \subseteq readRows)
            /\ \A i \in 1 .. Len(notices) : notices[i].read => notices[i].id \in readRows
        BY <1>1, <2>2, <3>3 DEF NoticesInv, ReadInv
      <4>2. \A i \in 1 .. Len(notices) : notices[i].id \in 1 .. made /\ notices[i].id # None
        BY NoticeFacts
      <4>3. s = M
        BY <3>3
      <4>4. \A i \in 1 .. Len(M) : M[i].read => M[i].id \in readRows
        BY <1>4, <4>1, <4>2
      <4> HIDE DEF s
      <4> QED
        BY <3>1, <4>3, <4>4
    <3> QED
      BY <1>3, <3>2, <3>3
  <2> HIDE DEF s
  <2> QED
    BY <1>1, <2>1, <2>2 DEF ReadInv
<1>8. LuckyInv'
  <2> SUFFICES ASSUME unlucky = {} PROVE DueInv' /\ AnswerInv'
    BY <1>1 DEF LuckyInv
  <2>1. DueInv /\ AnswerInv /\ toPush = {} /\ pushed = <<>>
    BY <1>1 DEF Asking, AnswerInv, NoticesInv, LuckyInv
  <2>2. AnswerInv'
    BY <1>1, <1>2, <2>1, NoNoticeCall DEF AnswerInv
  <2>3. Len(pushed) = 0
    BY <2>1, EmptySeq
  <2>4. /\ \A i, j \in 1 .. Len(s) : s[i].id = s[j].id => i = j
        /\ \A id \in 1 .. made : id > made - Newest => \E i \in 1 .. Len(s) : s[i].id = id
    <3>1. CASE ncall[c].op = "fetch"
      <4> DEFINE n == IF made < Newest THEN made ELSE Newest
      <4>1. s = ncall[c].list /\ Len(s) = n /\ \A i \in 1 .. Len(s) : s[i].id = made + 1 - i
        BY <1>1, <2>1, <3>1 DEF AnswerInv
      <4> HIDE DEF s
      <4>2. made \in Nat /\ Newest \in Nat
        BY NoticeFacts
      <4>3. ASSUME NEW id \in 1 .. made, id > made - Newest
            PROVE  made + 1 - id \in 1 .. n /\ made + 1 - (made + 1 - id) = id
        BY <4>2, <4>3
      <4>4. ASSUME NEW i \in 1 .. n, NEW j \in 1 .. n, made + 1 - i = made + 1 - j PROVE i = j
        BY <4>2, <4>4
      <4> HIDE DEF n
      <4> QED
        BY <4>1, <4>3, <4>4
    <3>2. CASE ncall[c].op = "mark"
      <4>1. s = M
        BY <3>2
      <4> HIDE DEF s
      <4>2. \A id \in 1 .. made : id > made - Newest => \E i \in 1 .. Len(notices) : notices[i].id = id
        BY <2>1, <2>3 DEF DueInv
      <4> QED
        BY <1>4, <2>1, <4>1, <4>2 DEF DueInv
    <3> QED
      BY <1>3, <3>1, <3>2
  <2> HIDE DEF s
  <2>5. DueInv'
    BY <1>1, <2>1, <2>3, <2>4 DEF DueInv
  <2> QED
    BY <2>2, <2>5
<1> QED
  BY <1>6, <1>7, <1>8 DEF NoticesInv

LEMMA NoticeFailureHolds == ASSUME NoticesInv, NEW c \in Calls, NoticeFails(c) PROVE NoticesInv'
<1>1. /\ ncall[c].pc # "idle" /\ ncall' = [ncall EXCEPT ![c] = NIdle]
      /\ UNCHANGED <<made, readRows, toPush, pushed, joined, notices, unlucky>>
  BY DEF NoticeFails
<1>2. ncall' \in [Calls -> NCalls(made)] /\ ncall'[c] = NIdle /\ \A d \in Calls : d # c => ncall'[d] = ncall[d]
  BY <1>1, NoNoticeCall, NoticeCallGoes, NoticeFacts
<1>3. NoticeShapes' /\ NoneIdle'
  <2> HIDE DEF NCalls
  <2>1. NoticeShapes'
    BY <1>1, <1>2 DEF NoticesInv, NoticeShapes
  <2> QED
    BY <1>2, <2>1, NoNoticeCall DEF NoticesInv, NoneIdle
<1>4. ReadInv'
  BY <1>1, <1>2, NoNoticeCall DEF NoticesInv, ReadInv
<1>5. LuckyInv'
  <2> SUFFICES ASSUME unlucky = {} PROVE DueInv' /\ AnswerInv'
    BY <1>1 DEF LuckyInv
  <2>1. DueInv /\ AnswerInv /\ toPush = {} /\ pushed = <<>>
    BY <1>1 DEF Asking, AnswerInv, NoticesInv, LuckyInv
  <2>2. DueInv'
    BY <1>1, <2>1 DEF DueInv
  <2>3. AnswerInv'
    BY <1>1, <1>2, <2>1, NoNoticeCall DEF AnswerInv
  <2> QED
    BY <2>2, <2>3
<1> QED
  BY <1>3, <1>4, <1>5 DEF NoticesInv

LEMMA NoticesGoOn == NoticesInv /\ [NoticesNext]_noticesVars => NoticesInv'
<1> SUFFICES ASSUME NoticesInv, [NoticesNext]_noticesVars PROVE NoticesInv'
  OBVIOUS
<1>1. CASE createNotification \/ Pushes \/ SocketBreaks \/ NoticeArrives
  BY <1>1, CreationHolds, PushHolds, SocketBreakHolds, ArrivalHolds
<1>2. ASSUME NEW c \in Calls,
             \/ fetchNotifications(c) \/ markNotificationRead(c)
             \/ NoticeServer(c) \/ NoticeAnswered(c) \/ NoticeFails(c)
      PROVE  NoticesInv'
  BY <1>2, AskingHolds, NoticeServerHolds, NoticeAnswerHolds, NoticeFailureHolds
<1>3. CASE UNCHANGED noticesVars
  <2>1. /\ made' = made /\ readRows' = readRows /\ toPush' = toPush /\ pushed' = pushed /\ joined' = joined
        /\ notices' = notices /\ ncall' = ncall /\ unlucky' = unlucky
    BY <1>3 DEF noticesVars
  <2>2. NoticeShapes' /\ NoneIdle' /\ ReadInv'
    BY <2>1, Zenon DEF NoticesInv, NoticeShapes, NoneIdle, ReadInv
  <2>3. Asking' = Asking
    BY <2>1, Zenon DEF Asking
  <2>4. LuckyInv'
    BY <2>1, <2>3, Zenon DEF NoticesInv, LuckyInv, DueInv, AnswerInv
  <2> QED
    BY <2>2, <2>4 DEF NoticesInv
<1> QED
  BY <1>1, <1>2, <1>3 DEF NoticesNext

\* A list that has each notification once has as many as it is long.
LEMMA ListedOnce ==
    ASSUME NEW s, Len(s) \in Nat, \A i, j \in 1 .. Len(s) : s[i].id = s[j].id => i = j
    PROVE  Cardinality(Listed(s)) = Len(s)
<1> DEFINE n == Len(s)
           T == 1 .. n
           f == [i \in T |-> s[i].id]
<1>1. IsFiniteSet(T) /\ Cardinality(T) = n
  <2> HIDE DEF n
  <2>1. n \in Nat
    BY DEF n
  <2>2. 1 \in Int /\ n \in Int
    BY <2>1
  <2>3. Cardinality(1 .. n) = IF 1 > n THEN 0 ELSE n - 1 + 1
    BY <2>2, FS_Interval
  <2>4. IsFiniteSet(1 .. n)
    BY <2>2, FS_Interval
  <2> QED
    BY <2>1, <2>3, <2>4
<1>2. Listed(s) = {s[i].id : i \in T}
  BY DEF Listed
<1>3. f \in Bijection(T, Listed(s))
  <2> HIDE DEF T
  <2>1. f \in [T -> Listed(s)]
    BY <1>2
  <2>2. \A i, j \in T : f[i] = f[j] => i = j
    BY DEF T
  <2>3. \A x \in Listed(s) : \E i \in T : f[i] = x
    BY <1>2
  <2> HIDE DEF f
  <2> QED
    BY <2>1, <2>2, <2>3, Fun_IsBij
<1>4. ExistsBijection(T, Listed(s))
  BY <1>3 DEF ExistsBijection
<1>5. Cardinality(Listed(s)) = Cardinality(T)
  <2> HIDE DEF T
  <2> QED
    BY <1>1, <1>4, FS_Bijection
<1> QED
  BY <1>1, <1>5

LEMMA NoticesMean == NoticesInv => NoticesTypeOK /\ NewestAreShown /\ ReadStaysRead
<1> SUFFICES ASSUME NoticesInv PROVE NoticesTypeOK /\ NewestAreShown /\ ReadStaysRead
  OBVIOUS
<1>1. NoticesTypeOK
  <2>1. DOMAIN ncall = Calls
    <3> HIDE DEF NCalls
    <3> QED
      BY DEF NoticesInv, NoticeShapes
  <2>2. notices \in Seq([id : 1 .. made, read : BOOLEAN])
    BY DEF NoticesInv, NoticeShapes, NoticeRows
  <2> QED
    BY <2>1, <2>2 DEF NoticesInv, NoticeShapes, NoticesTypeOK
<1>2. ReadStaysRead
  BY DEF NoticesInv, ReadInv, ReadStaysRead
<1>3. ASSUME toPush = {}, pushed = <<>>, unlucky = {}
      PROVE  /\ Cardinality(Listed(notices)) = Len(notices)
             /\ \A id \in 1 .. made : id > made - Newest => id \in Listed(notices)
  <2>1. DueInv /\ Len(notices) \in Nat /\ Len(pushed) = 0
    BY <1>3, NoticeFacts, EmptySeq DEF NoticesInv, LuckyInv
  <2>2. \A i, j \in 1 .. Len(notices) : notices[i].id = notices[j].id => i = j
    BY <2>1 DEF DueInv
  <2>3. Cardinality(Listed(notices)) = Len(notices)
    BY <2>1, <2>2, ListedOnce
  <2>4. \A id \in 1 .. made : id > made - Newest => \E i \in 1 .. Len(notices) : notices[i].id = id
    BY <1>3, <2>1 DEF DueInv
  <2> QED
    BY <2>3, <2>4 DEF Listed
<1> QED
  BY <1>1, <1>2, <1>3 DEF NewestAreShown

\* The bell: with nothing due the list has each of the newest notifications
\* once, unless an event was missed or a request crossed a change, and it shows
\* none as read that the table has as unread, for any number of notifications
\* and of requests.
THEOREM BellIsTrue == NoticesSpec => [](NoticesTypeOK /\ NewestAreShown /\ ReadStaysRead)
BY NoticesBegin, NoticesGoOn, NoticesMean, PTL DEF NoticesSpec

-----------------------------------------------------------------------------
(* Private messages.                                                        *)

FetchCalls == [pc : {"idle", "sent", "answered"}, of : Partners \cup {None}, upTo : 0 .. PageSize,
               older : SUBSET Calls, late : BOOLEAN]

PrivateShapes ==
    /\ rows \in [Partners -> 0 .. MaxPrivate] /\ due \subseteq Partners \X {"event", "answer"}
    /\ active \in Partners \cup {None} /\ page.of \in Partners \cup {None} /\ page.upTo \in 0 .. PageSize
    /\ fetches \in [Calls -> FetchCalls] /\ luck \in {"none", "bad"}

\* The fetches that are older are in flight, and each is about a partner.
FlyingInv ==
    \A c \in Calls :
        /\ fetches[c].pc = "idle" <=> fetches[c] = NoFetch
        /\ fetches[c].pc # "idle" => fetches[c].of \in Partners
        /\ \A d \in fetches[c].older : fetches[d].pc # "idle"

\* An older fetch will be answered after a newer one.
LateFetch == \E c \in Calls : fetches[c].late

\* The open conversation is to be fetched.
ToFetch == <<active, "event">> \in due \/ <<active, "answer">> \in due

\* The newest fetch is about it and has or will have its last message.
BeingFetched ==
    \E n \in Calls :
        /\ fetches[n].pc # "idle" /\ fetches[n].of = active
        /\ fetches[n].pc = "sent" \/ fetches[n].upTo = OnePage(rows[active])
        /\ \A d \in Calls : d # n /\ fetches[d].pc # "idle" => d \in fetches[n].older

AllShown ==
    /\ \A c \in Calls : fetches[c].pc = "idle"
    /\ page = View(active, OnePage(rows[active]))

OpenedInv == luck = "none" /\ active # None => LateFetch \/ ToFetch \/ BeingFetched \/ AllShown

PrivateInv == PrivateShapes /\ FlyingInv /\ OpenedInv

LEMMA PrivateConstants == PageSize \in Nat /\ MaxPrivate \in Nat /\ None \notin Partners
BY PrivateChatAssumption

LEMMA NoFetchAtAll ==
    /\ NoFetch \in FetchCalls /\ NoFetch.pc = "idle" /\ NoFetch.of = None /\ NoFetch.older = {} /\ ~NoFetch.late
<1>1. 0 \in 0 .. PageSize
  BY PrivateConstants
<1> DEFINE U == 0 .. PageSize
<1>2. 0 \in U
  BY <1>1
<1> HIDE DEF U
<1>3. NoFetch \in [pc : {"idle", "sent", "answered"}, of : Partners \cup {None}, upTo : U,
                   older : SUBSET Calls, late : BOOLEAN]
  BY <1>2 DEF NoFetch, Fetch
<1> QED
  BY <1>3 DEF NoFetch, Fetch, FetchCalls, U

LEMMA PageBounds == ASSUME NEW n \in 0 .. MaxPrivate PROVE OnePage(n) \in 0 .. PageSize
BY PrivateConstants DEF OnePage

LEMMA PrivateBegins == PrivateInit => PrivateInv
<1> SUFFICES ASSUME PrivateInit PROVE PrivateInv
  OBVIOUS
<1>1. /\ rows = [p \in Partners |-> 0] /\ due = {} /\ active = None /\ page = View(None, 0) /\ luck = "none"
  BY DEF PrivateInit
<1>2. fetches \in [Calls -> FetchCalls] /\ \A c \in Calls : fetches[c] = NoFetch
  <2> HIDE DEF FetchCalls, NoFetch
  <2> QED
    BY NoFetchAtAll DEF PrivateInit
<1>3. PrivateShapes
  <2>1. 0 \in 0 .. PageSize /\ 0 \in 0 .. MaxPrivate
    BY PrivateConstants
  <2> DEFINE R == 0 .. MaxPrivate
  <2>2. 0 \in R
    BY <2>1
  <2> HIDE DEF R
  <2>3. rows \in [Partners -> R]
    BY <1>1, <2>2
  <2>4. page.of = None /\ page.upTo = 0
    BY <1>1 DEF View
  <2> HIDE DEF FetchCalls
  <2>5. page.upTo \in 0 .. PageSize
    BY <2>1, <2>4
  <2>6. due \subseteq Partners \X {"event", "answer"} /\ active \in Partners \cup {None}
        /\ page.of \in Partners \cup {None} /\ luck \in {"none", "bad"}
    BY <1>1, <2>4
  <2> QED
    BY <1>2, <2>3, <2>5, <2>6 DEF PrivateShapes, R
<1>4. FlyingInv
  BY <1>2, NoFetchAtAll DEF FlyingInv
<1>5. OpenedInv
  BY <1>1 DEF OpenedInv
<1> QED
  BY <1>3, <1>4, <1>5 DEF PrivateInv

LEMMA PrivateFacts ==
    ASSUME PrivateInv
    PROVE  \A c \in Calls : /\ fetches[c] \in FetchCalls /\ fetches[c].older \subseteq Calls
                            /\ fetches[c].of \in Partners \cup {None} /\ fetches[c].upTo \in 0 .. PageSize
                            /\ fetches[c].pc \in {"idle", "sent", "answered"}
<1>1. \A c \in Calls : fetches[c] \in FetchCalls
  <2> HIDE DEF FetchCalls
  <2> QED
    BY DEF PrivateInv, PrivateShapes
<1> QED
  BY <1>1 DEF FetchCalls

\* A fetch of the conversation with p begins.
LEMMA PrivateFetchBegins ==
    ASSUME PrivateInv, NEW p \in Partners, fetchPrivateMessages(p)
    PROVE  /\ fetches' \in [Calls -> FetchCalls] /\ FlyingInv'
           /\ LateFetch => LateFetch'
           /\ \E n \in Calls : /\ fetches'[n].pc = "sent" /\ fetches'[n].of = p
                               /\ \A d \in Calls : d # n /\ fetches'[d].pc # "idle" => d \in fetches'[n].older
<1>1. PICK n \in Calls \ InFlight : fetches' = [fetches EXCEPT ![n] = Fetch("sent", p, 0, InFlight, FALSE)]
  BY DEF fetchPrivateMessages
<1> DEFINE q == Fetch("sent", p, 0, InFlight, FALSE)
<1>2. fetches[n] = NoFetch /\ n \in Calls /\ InFlight \subseteq Calls
  BY <1>1 DEF InFlight, PrivateInv, FlyingInv
<1>3. q \in FetchCalls /\ q.pc = "sent" /\ q.of = p /\ q.older = InFlight /\ q # NoFetch
  <2> DEFINE U == 0 .. PageSize
  <2>1. 0 \in U
    BY PrivateConstants
  <2> HIDE DEF U
  <2>2. q \in [pc : {"idle", "sent", "answered"}, of : Partners \cup {None}, upTo : U,
               older : SUBSET Calls, late : BOOLEAN]
    BY <1>2, <2>1 DEF Fetch
  <2>3. q.pc = "sent" /\ q.of = p /\ q.older = InFlight
    BY DEF Fetch
  <2> QED
    BY <2>2, <2>3, NoFetchAtAll DEF FetchCalls, U
<1> HIDE DEF q
<1>4. fetches' \in [Calls -> FetchCalls] /\ fetches'[n] = q /\ \A d \in Calls : d # n => fetches'[d] = fetches[d]
  <2>1. fetches' = [fetches EXCEPT ![n] = q]
    BY <1>1 DEF q
  <2> HIDE DEF FetchCalls
  <2> QED
    BY <1>2, <1>3, <2>1 DEF PrivateInv, PrivateShapes
<1>5. \A d \in Calls : fetches[d].pc # "idle" => d # n /\ d \in InFlight
  BY <1>2, NoFetchAtAll DEF InFlight
<1>6. FlyingInv'
  <2>1. \A d \in InFlight : fetches'[d].pc # "idle"
    BY <1>2, <1>3, <1>4 DEF InFlight
  <2> QED
    BY <1>2, <1>3, <1>4, <1>5, <2>1, NoFetchAtAll, PrivateFacts DEF PrivateInv, FlyingInv
<1>7. LateFetch => LateFetch'
  BY <1>2, <1>4, NoFetchAtAll DEF LateFetch
<1> QED
  BY <1>3, <1>4, <1>5, <1>6, <1>7

\* The newest fetch is of the conversation that is open by then.
LEMMA BeginsForOpen ==
    ASSUME PrivateInv, fetchPrivateMessages(active'), active' \in Partners
    PROVE  /\ fetches' \in [Calls -> FetchCalls] /\ FlyingInv' /\ OpenedInv'
<1>1. PICK p \in Partners : active' = p
  OBVIOUS
<1>2. fetchPrivateMessages(p)
  BY <1>1
<1>3. /\ fetches' \in [Calls -> FetchCalls] /\ FlyingInv'
      /\ \E n \in Calls : /\ fetches'[n].pc = "sent" /\ fetches'[n].of = p
                          /\ \A d \in Calls : d # n /\ fetches'[d].pc # "idle" => d \in fetches'[n].older
  BY <1>2, PrivateFetchBegins
<1>4. BeingFetched'
  BY <1>1, <1>3 DEF BeingFetched
<1> QED
  BY <1>3, <1>4 DEF OpenedInv

\* What is shown depends on the rows, the fetches, the page and what is due.
LEMMA OpenStays ==
    ASSUME OpenedInv, UNCHANGED <<rows, active, page, fetches>>, luck' = "none" => luck = "none",
           luck' = "none" /\ active # None /\ ToFetch => ToFetch'
    PROVE  OpenedInv'
<1>1. rows' = rows /\ active' = active /\ page' = page /\ fetches' = fetches
  OBVIOUS
<1>2. LateFetch' = LateFetch /\ BeingFetched' = BeingFetched /\ AllShown' = AllShown
  BY <1>1, Zenon DEF LateFetch, BeingFetched, AllShown
<1> QED
  BY <1>1, <1>2 DEF OpenedInv

LEMMA OpeningHolds ==
    ASSUME PrivateInv, setActivePrivateUser \/ clearActivePrivateUser
    PROVE  PrivateInv'
<1>1. CASE setActivePrivateUser
  <2>1. PICK p \in Partners :
          /\ active' = p /\ fetchPrivateMessages(p)
          /\ luck' = IF InFlight = {} /\ due = {} THEN "none" ELSE luck
          /\ UNCHANGED <<rows, due, page>>
    BY <1>1 DEF setActivePrivateUser
  <2>2. fetches' \in [Calls -> FetchCalls] /\ FlyingInv' /\ OpenedInv'
    BY <2>1, BeginsForOpen
  <2>3. luck' \in {"none", "bad"}
    BY <2>1 DEF PrivateInv, PrivateShapes
  <2> HIDE DEF FetchCalls
  <2>4. PrivateShapes'
    BY <2>1, <2>2, <2>3 DEF PrivateInv, PrivateShapes
  <2> QED
    BY <2>2, <2>4 DEF PrivateInv
<1>2. CASE clearActivePrivateUser
  <2>1. active' = None /\ UNCHANGED <<rows, due, page, fetches, luck>>
    BY <1>2 DEF clearActivePrivateUser
  <2>2. PrivateShapes'
    BY <2>1 DEF PrivateInv, PrivateShapes
  <2>3. FlyingInv' /\ OpenedInv'
    BY <2>1 DEF PrivateInv, FlyingInv, OpenedInv
  <2> QED
    BY <2>2, <2>3 DEF PrivateInv
<1> QED
  BY <1>1, <1>2

LEMMA PrivateSendHolds == ASSUME PrivateInv, sendPrivateMessage PROVE PrivateInv'
<1>1. PICK p \in Partners, D \in SUBSET (Partners \X {"event", "answer"}) :
        /\ rows[p] < MaxPrivate /\ rows' = [rows EXCEPT ![p] = @ + 1]
        /\ due' = due \cup {<<p, "event">>} \cup D
        /\ UNCHANGED <<active, page, fetches, luck>>
  <2>1. PICK p \in Partners, mine \in BOOLEAN :
          /\ rows[p] < MaxPrivate /\ rows' = [rows EXCEPT ![p] = @ + 1]
          /\ due' = due \cup {<<p, "event">>} \cup (IF mine THEN {<<p, "answer">>} ELSE {})
          /\ UNCHANGED <<active, page, fetches, luck>>
    BY DEF sendPrivateMessage
  <2> DEFINE D == IF mine THEN {<<p, "answer">>} ELSE {}
  <2>2. D \in SUBSET (Partners \X {"event", "answer"})
    OBVIOUS
  <2> QED
    BY <2>1, <2>2
<1>2. PrivateShapes'
  <2> DEFINE R == 0 .. MaxPrivate
  <2>1. rows[p] + 1 \in R
    BY <1>1, PrivateConstants DEF PrivateInv, PrivateShapes
  <2>2. rows \in [Partners -> R]
    BY DEF PrivateInv, PrivateShapes
  <2> HIDE DEF R
  <2>3. rows' \in [Partners -> R]
    BY <1>1, <2>1, <2>2
  <2>4. due' \subseteq Partners \X {"event", "answer"}
    BY <1>1 DEF PrivateInv, PrivateShapes
  <2> HIDE DEF FetchCalls
  <2> QED
    BY <1>1, <2>3, <2>4 DEF PrivateInv, PrivateShapes, R
<1>3. FlyingInv'
  BY <1>1 DEF PrivateInv, FlyingInv
<1>4. OpenedInv'
  <2>1. CASE active = p
    <3>1. ToFetch'
      BY <1>1, <2>1 DEF ToFetch
    <3> QED
      BY <3>1 DEF OpenedInv
  <2>2. CASE active # p
    <3> SUFFICES ASSUME luck = "none", active # None
                 PROVE  LateFetch' \/ ToFetch' \/ BeingFetched' \/ AllShown'
      BY <1>1 DEF OpenedInv
    <3>1. active \in Partners
      BY DEF PrivateInv, PrivateShapes
    <3>2. rows'[active] = rows[active]
      BY <1>1, <2>2, <3>1 DEF PrivateInv, PrivateShapes
    <3>3. OnePage(rows'[active]) = OnePage(rows[active])
      BY <3>2
    <3>4. ToFetch => ToFetch'
      BY <1>1 DEF ToFetch
    <3>5. LateFetch => LateFetch'
      BY <1>1 DEF LateFetch
    <3>6. BeingFetched => BeingFetched'
      BY <1>1, <3>3 DEF BeingFetched
    <3>7. AllShown => AllShown'
      BY <1>1, <3>3 DEF AllShown
    <3> QED
      BY <3>4, <3>5, <3>6, <3>7 DEF PrivateInv, OpenedInv
  <2> QED
    BY <2>1, <2>2
<1> QED
  BY <1>2, <1>3, <1>4 DEF PrivateInv

LEMMA DeliveryHolds ==
    ASSUME PrivateInv, EventArrives \/ SendAnswered \/ Missed
    PROVE  PrivateInv'
<1>1. due' \subseteq due /\ UNCHANGED <<rows, active, page>> /\ luck' \in {"none", "bad"}
  BY DEF EventArrives, SendAnswered, Missed, PrivateInv, PrivateShapes
<1>2. ASSUME fetches' \in [Calls -> FetchCalls], FlyingInv', OpenedInv' PROVE PrivateInv'
  <2> HIDE DEF FetchCalls
  <2>1. PrivateShapes'
    BY <1>1, <1>2 DEF PrivateInv, PrivateShapes
  <2> QED
    BY <1>2, <2>1 DEF PrivateInv
<1>3. ASSUME UNCHANGED fetches PROVE fetches' \in [Calls -> FetchCalls] /\ FlyingInv'
  BY <1>3 DEF PrivateInv, PrivateShapes, FlyingInv
<1>4. CASE EventArrives
  <2>1. PICK p \in Partners :
          /\ due' = due \ {<<p, "event">>}
          /\ IF active = p THEN fetchPrivateMessages(p) ELSE UNCHANGED fetches
          /\ UNCHANGED <<rows, active, page, luck>>
    BY <1>4 DEF EventArrives, FetchesFor
  <2>2. CASE active = p
    BY <1>2, <2>1, <2>2, BeginsForOpen
  <2>3. CASE active # p
    <3>1. ToFetch => ToFetch'
      BY <2>1, <2>3 DEF ToFetch
    <3>2. OpenedInv'
      BY <2>1, <2>3, <3>1, OpenStays DEF PrivateInv
    <3> QED
      BY <1>2, <1>3, <2>1, <2>3, <3>2
  <2> QED
    BY <2>2, <2>3
<1>5. CASE SendAnswered
  <2>1. PICK p \in Partners :
          /\ fetchPrivateMessages(p) /\ luck' = IF active = p THEN luck ELSE "bad"
          /\ UNCHANGED <<rows, active, page>>
    BY <1>5 DEF SendAnswered
  <2>2. CASE active = p
    BY <1>2, <2>1, <2>2, BeginsForOpen
  <2>3. CASE active # p
    <3>1. OpenedInv'
      BY <2>1, <2>3 DEF OpenedInv
    <3> QED
      BY <1>2, <2>1, <3>1, PrivateFetchBegins
  <2> QED
    BY <2>2, <2>3
<1>6. CASE Missed
  <2>1. luck' = "bad" /\ UNCHANGED fetches
    BY <1>6 DEF Missed
  <2>2. OpenedInv'
    BY <2>1 DEF OpenedInv
  <2> QED
    BY <1>2, <1>3, <2>1, <2>2
<1> QED
  BY <1>4, <1>5, <1>6

LEMMA ReadHolds == ASSUME PrivateInv, NEW c \in Calls, ReadsRows(c) PROVE PrivateInv'
<1> DEFINE u == OnePage(rows[fetches[c].of])
<1>1. /\ fetches[c].pc = "sent" /\ fetches' = [fetches EXCEPT ![c].pc = "answered", ![c].upTo = u]
      /\ UNCHANGED <<rows, due, active, page, luck>>
  BY DEF ReadsRows
<1>2. fetches[c].of \in Partners /\ fetches[c] # NoFetch
  BY <1>1, NoFetchAtAll DEF PrivateInv, FlyingInv
<1>3. u \in 0 .. PageSize
  BY <1>2, PageBounds DEF PrivateInv, PrivateShapes
<1> DEFINE q == [fetches[c] EXCEPT !.pc = "answered", !.upTo = u]
<1>4. fetches[c] \in FetchCalls
  BY PrivateFacts
<1>5. /\ q \in FetchCalls /\ q.pc = "answered" /\ q.upTo = u /\ q.of = fetches[c].of
      /\ q.older = fetches[c].older /\ q.late = fetches[c].late /\ q # NoFetch
  <2> HIDE DEF u
  <2> DEFINE U == 0 .. PageSize
  <2>1. fetches[c] \in [pc : {"idle", "sent", "answered"}, of : Partners \cup {None}, upTo : U,
                        older : SUBSET Calls, late : BOOLEAN] /\ u \in U
    BY <1>3, <1>4 DEF FetchCalls
  <2> HIDE DEF U
  <2>2. q \in [pc : {"idle", "sent", "answered"}, of : Partners \cup {None}, upTo : U,
               older : SUBSET Calls, late : BOOLEAN]
    BY <2>1
  <2>3. q.pc = "answered" /\ q.upTo = u /\ q.of = fetches[c].of /\ q.older = fetches[c].older
        /\ q.late = fetches[c].late
    BY <2>1
  <2> HIDE DEF q
  <2> QED
    BY <2>2, <2>3, NoFetchAtAll DEF FetchCalls, U
<1>6. fetches' \in [Calls -> FetchCalls] /\ fetches'[c] = q /\ \A d \in Calls : d # c => fetches'[d] = fetches[d]
  <2>1. fetches \in [Calls -> FetchCalls]
    BY DEF PrivateInv, PrivateShapes
  <2>2. fetches' = [fetches EXCEPT ![c] = q]
    <3> HIDE DEF u, FetchCalls
    <3> QED
      BY <1>1, <2>1
  <2> HIDE DEF q, FetchCalls
  <2> QED
    BY <1>5, <2>1, <2>2
<1> HIDE DEF q, FetchCalls
<1>7. PrivateShapes'
  BY <1>1, <1>6 DEF PrivateInv, PrivateShapes
<1>8. \A d \in Calls : /\ fetches'[d].of = fetches[d].of /\ fetches'[d].older = fetches[d].older
                       /\ fetches'[d].late = fetches[d].late
                       /\ fetches'[d].pc = "idle" <=> fetches[d].pc = "idle"
  BY <1>1, <1>5, <1>6
<1>9. FlyingInv'
  <2> SUFFICES ASSUME NEW d \in Calls
               PROVE  /\ fetches'[d].pc = "idle" <=> fetches'[d] = NoFetch
                      /\ fetches'[d].pc # "idle" => fetches'[d].of \in Partners
                      /\ \A e \in fetches'[d].older : fetches'[e].pc # "idle"
    BY DEF FlyingInv
  <2>1. fetches'[d].pc = "idle" <=> fetches'[d] = NoFetch
    BY <1>1, <1>5, <1>6 DEF PrivateInv, FlyingInv
  <2>2. fetches'[d].pc # "idle" => fetches'[d].of \in Partners
    BY <1>8 DEF PrivateInv, FlyingInv
  <2>3. \A e \in fetches[d].older : e \in Calls /\ fetches[e].pc # "idle"
    BY PrivateFacts DEF PrivateInv, FlyingInv
  <2> QED
    BY <1>8, <2>1, <2>2, <2>3
<1>10. OpenedInv'
  <2> SUFFICES ASSUME luck = "none", active # None
               PROVE  LateFetch' \/ ToFetch' \/ BeingFetched' \/ AllShown'
    BY <1>1 DEF OpenedInv
  <2>1. LateFetch => LateFetch'
    BY <1>8 DEF LateFetch
  <2>2. ToFetch => ToFetch'
    BY <1>1 DEF ToFetch
  <2>3. ~AllShown
    BY <1>1 DEF AllShown
  <2>4. ASSUME BeingFetched PROVE BeingFetched'
    <3>1. PICK n \in Calls :
            /\ fetches[n].pc # "idle" /\ fetches[n].of = active
            /\ fetches[n].pc = "sent" \/ fetches[n].upTo = OnePage(rows[active])
            /\ \A d \in Calls : d # n /\ fetches[d].pc # "idle" => d \in fetches[n].older
      BY <2>4 DEF BeingFetched
    <3>2. fetches'[n].pc = "sent" \/ fetches'[n].upTo = OnePage(rows[active])
      BY <1>5, <1>6, <3>1
    <3> QED
      BY <1>1, <1>8, <3>1, <3>2 DEF BeingFetched
  <2> QED
    BY <2>1, <2>2, <2>3, <2>4 DEF PrivateInv, OpenedInv
<1> QED
  BY <1>7, <1>9, <1>10 DEF PrivateInv

\* The fetch of c ends: the others are no longer younger than it, and when it
\* was answered those it had overtaken are late.
LEMMA FetchEnds ==
    ASSUME PrivateInv, NEW c \in Calls, fetches[c].pc # "idle",
           fetches' = Ends(c, TRUE) \/ fetches' = Ends(c, FALSE)
    PROVE  /\ fetches' \in [Calls -> FetchCalls] /\ fetches'[c] = NoFetch /\ FlyingInv'
           /\ \A d \in Calls : d # c =>
                 /\ fetches'[d].pc = fetches[d].pc /\ fetches'[d].of = fetches[d].of
                 /\ fetches'[d].upTo = fetches[d].upTo /\ fetches'[d].older = fetches[d].older \ {c}
                 /\ fetches[d].late => fetches'[d].late
                 /\ fetches' = Ends(c, TRUE) /\ d \in fetches[c].older => fetches'[d].late
<1>1. \A d \in Calls : fetches[d] \in FetchCalls
  BY PrivateFacts
<1>2. \A d \in Calls : fetches'[d] \in FetchCalls
  <2> SUFFICES ASSUME NEW d \in Calls PROVE fetches'[d] \in FetchCalls
    OBVIOUS
  <2>1. CASE d = c
    <3>1. fetches'[d] = NoFetch
      BY <2>1 DEF Ends
    <3> QED
      BY <3>1, NoFetchAtAll
  <2>2. CASE d # c
    <3> DEFINE U == 0 .. PageSize
               late == fetches'[d].late
    <3>1. \E l \in BOOLEAN : fetches'[d] = [fetches[d] EXCEPT !.older = fetches[d].older \ {c}, !.late = l]
      <4>1. CASE fetches' = Ends(c, TRUE)
        <5> DEFINE l == fetches[d].late \/ (TRUE /\ d \in fetches[c].older)
        <5>1. l \in BOOLEAN
          OBVIOUS
        <5>2. fetches'[d] = [fetches[d] EXCEPT !.older = fetches[d].older \ {c}, !.late = l]
          BY <2>2, <4>1 DEF Ends
        <5> QED
          BY <5>1, <5>2
      <4>2. CASE fetches' = Ends(c, FALSE)
        <5> DEFINE l == fetches[d].late \/ (FALSE /\ d \in fetches[c].older)
        <5>1. l \in BOOLEAN
          OBVIOUS
        <5>2. fetches'[d] = [fetches[d] EXCEPT !.older = fetches[d].older \ {c}, !.late = l]
          BY <2>2, <4>2 DEF Ends
        <5> QED
          BY <5>1, <5>2
      <4> QED
        BY <4>1, <4>2
    <3>2. fetches[d] \in [pc : {"idle", "sent", "answered"}, of : Partners \cup {None}, upTo : U,
                          older : SUBSET Calls, late : BOOLEAN]
      BY <1>1 DEF FetchCalls
    <3> HIDE DEF U
    <3>3. fetches'[d] \in [pc : {"idle", "sent", "answered"}, of : Partners \cup {None}, upTo : U,
                           older : SUBSET Calls, late : BOOLEAN]
      BY <3>1, <3>2
    <3> QED
      BY <3>3 DEF FetchCalls, U
  <2> QED
    BY <2>1, <2>2
<1>3. fetches' \in [Calls -> FetchCalls] /\ fetches'[c] = NoFetch
  <2> HIDE DEF FetchCalls, NoFetch
  <2> QED
    BY <1>2 DEF Ends
<1>4. ASSUME NEW d \in Calls, d # c
      PROVE  /\ fetches'[d].pc = fetches[d].pc /\ fetches'[d].of = fetches[d].of
             /\ fetches'[d].upTo = fetches[d].upTo /\ fetches'[d].older = fetches[d].older \ {c}
             /\ fetches[d].late => fetches'[d].late
             /\ fetches' = Ends(c, TRUE) /\ d \in fetches[c].older => fetches'[d].late
  <2>1. fetches[d] \in FetchCalls
    BY <1>1
  <2>2. CASE fetches' = Ends(c, TRUE)
    <3>1. fetches'[d] = [fetches[d] EXCEPT !.older = @ \ {c}, !.late = @ \/ (TRUE /\ d \in fetches[c].older)]
      BY <1>4, <2>2 DEF Ends
    <3> QED
      BY <2>1, <3>1 DEF FetchCalls
  <2>3. CASE fetches' = Ends(c, FALSE) /\ fetches' # Ends(c, TRUE)
    <3>1. fetches'[d] = [fetches[d] EXCEPT !.older = @ \ {c}, !.late = @ \/ (FALSE /\ d \in fetches[c].older)]
      BY <1>4, <2>3 DEF Ends
    <3> QED
      BY <2>1, <2>3, <3>1 DEF FetchCalls
  <2> QED
    BY <2>2, <2>3
<1>5. FlyingInv'
  <2> SUFFICES ASSUME NEW d \in Calls
               PROVE  /\ fetches'[d].pc = "idle" <=> fetches'[d] = NoFetch
                      /\ fetches'[d].pc # "idle" => fetches'[d].of \in Partners
                      /\ \A e \in fetches'[d].older : fetches'[e].pc # "idle"
    BY DEF FlyingInv
  <2>1. CASE d = c
    BY <1>3, <2>1, NoFetchAtAll
  <2>2. CASE d # c /\ fetches[d].pc # "idle"
    BY <1>4, <2>2, NoFetchAtAll, PrivateFacts DEF PrivateInv, FlyingInv
  <2>3. CASE d # c /\ fetches[d].pc = "idle"
    <3>1. fetches[d] = NoFetch
      BY <2>3 DEF PrivateInv, FlyingInv
    <3>2. d \notin fetches[c].older
      BY <2>3 DEF PrivateInv, FlyingInv
    <3>3. fetches'[d] = NoFetch
      <4>1. CASE fetches' = Ends(c, TRUE)
        <5>1. fetches'[d] = [NoFetch EXCEPT !.older = @ \ {c}, !.late = @ \/ (TRUE /\ d \in fetches[c].older)]
          BY <2>3, <3>1, <4>1 DEF Ends
        <5>2. (NoFetch.late \/ (TRUE /\ d \in fetches[c].older)) = FALSE
          BY <3>2, NoFetchAtAll
        <5>3. fetches'[d] = [NoFetch EXCEPT !.older = {} \ {c}, !.late = FALSE]
          BY <5>1, <5>2 DEF NoFetch, Fetch
        <5> QED
          BY <5>3 DEF NoFetch, Fetch
      <4>2. CASE fetches' = Ends(c, FALSE)
        <5>1. fetches'[d] = [NoFetch EXCEPT !.older = @ \ {c}, !.late = @ \/ (FALSE /\ d \in fetches[c].older)]
          BY <2>3, <3>1, <4>2 DEF Ends
        <5>2. (NoFetch.late \/ (FALSE /\ d \in fetches[c].older)) = FALSE
          BY NoFetchAtAll
        <5>3. fetches'[d] = [NoFetch EXCEPT !.older = {} \ {c}, !.late = FALSE]
          BY <5>1, <5>2 DEF NoFetch, Fetch
        <5> QED
          BY <5>3 DEF NoFetch, Fetch
      <4> QED
        BY <4>1, <4>2
    <3> QED
      BY <3>3, NoFetchAtAll
  <2> QED
    BY <2>1, <2>2, <2>3
<1> QED
  BY <1>3, <1>4, <1>5

LEMMA PrivateAnswerHolds == ASSUME PrivateInv, NEW c \in Calls, FetchAnswered(c) PROVE PrivateInv'
<1>1. /\ fetches[c].pc = "answered" /\ page' = View(fetches[c].of, fetches[c].upTo)
      /\ fetches' = Ends(c, TRUE) /\ luck' = (IF fetches[c].late THEN "bad" ELSE luck)
      /\ UNCHANGED <<rows, due, active>>
  BY DEF FetchAnswered
<1>2. /\ fetches' \in [Calls -> FetchCalls] /\ fetches'[c] = NoFetch /\ FlyingInv'
      /\ \A d \in Calls : d # c =>
            /\ fetches'[d].pc = fetches[d].pc /\ fetches'[d].of = fetches[d].of
            /\ fetches'[d].upTo = fetches[d].upTo /\ fetches'[d].older = fetches[d].older \ {c}
            /\ fetches[d].late => fetches'[d].late
            /\ d \in fetches[c].older => fetches'[d].late
  BY <1>1, FetchEnds
<1>3. PrivateShapes'
  <2>1. page'.of \in Partners \cup {None} /\ page'.upTo \in 0 .. PageSize
    BY <1>1, PrivateFacts DEF View
  <2>2. luck' \in {"none", "bad"}
    BY <1>1 DEF PrivateInv, PrivateShapes
  <2> HIDE DEF FetchCalls
  <2> QED
    BY <1>1, <1>2, <2>1, <2>2 DEF PrivateInv, PrivateShapes
<1>4. OpenedInv'
  <2> SUFFICES ASSUME luck' = "none", active # None
               PROVE  LateFetch' \/ ToFetch' \/ BeingFetched' \/ AllShown'
    BY <1>1 DEF OpenedInv
  <2>1. luck = "none" /\ ~fetches[c].late
    BY <1>1
  <2>2. LateFetch => LateFetch'
    BY <1>2, <2>1 DEF LateFetch
  <2>3. ToFetch => ToFetch'
    BY <1>1 DEF ToFetch
  <2>4. ~AllShown
    BY <1>1 DEF AllShown
  <2>5. ASSUME BeingFetched PROVE LateFetch' \/ BeingFetched' \/ AllShown'
    <3>1. PICK n \in Calls :
            /\ fetches[n].pc # "idle" /\ fetches[n].of = active
            /\ fetches[n].pc = "sent" \/ fetches[n].upTo = OnePage(rows[active])
            /\ \A d \in Calls : d # n /\ fetches[d].pc # "idle" => d \in fetches[n].older
      BY <2>5 DEF BeingFetched
    <3>2. CASE n # c
      <4>1. \A d \in Calls : d # n /\ fetches'[d].pc # "idle" => d \in fetches'[n].older
        BY <1>2, <3>1, <3>2, NoFetchAtAll
      <4>2. BeingFetched'
        BY <1>1, <1>2, <3>1, <3>2, <4>1 DEF BeingFetched
      <4> QED
        BY <4>2
    <3>3. CASE n = c /\ \E d \in Calls : d # c /\ fetches[d].pc # "idle"
      BY <1>2, <3>1, <3>3 DEF LateFetch
    <3>4. CASE n = c /\ \A d \in Calls : d # c => fetches[d].pc = "idle"
      <4>1. \A d \in Calls : fetches'[d].pc = "idle"
        BY <1>2, <3>4, NoFetchAtAll
      <4>2. page' = View(active, OnePage(rows[active]))
        BY <1>1, <3>1, <3>4
      <4> QED
        BY <1>1, <4>1, <4>2 DEF AllShown
    <3> QED
      BY <3>2, <3>3, <3>4
  <2> QED
    BY <2>1, <2>2, <2>3, <2>4, <2>5 DEF PrivateInv, OpenedInv
<1> QED
  BY <1>2, <1>3, <1>4 DEF PrivateInv

LEMMA PrivateFailureHolds == ASSUME PrivateInv, NEW c \in Calls, FetchFails(c) PROVE PrivateInv'
<1>1. /\ fetches[c].pc # "idle" /\ fetches' = Ends(c, FALSE) /\ luck' = "bad"
      /\ UNCHANGED <<rows, due, active, page>>
  BY DEF FetchFails, InFlight
<1>2. fetches' \in [Calls -> FetchCalls] /\ FlyingInv'
  BY <1>1, FetchEnds
<1>3. PrivateShapes'
  <2> HIDE DEF FetchCalls
  <2> QED
    BY <1>1, <1>2 DEF PrivateInv, PrivateShapes
<1>4. OpenedInv'
  BY <1>1 DEF OpenedInv
<1> QED
  BY <1>2, <1>3, <1>4 DEF PrivateInv

LEMMA PrivateGoesOn == PrivateInv /\ [PrivateNext]_privateVars => PrivateInv'
<1> SUFFICES ASSUME PrivateInv, [PrivateNext]_privateVars PROVE PrivateInv'
  OBVIOUS
<1>1. CASE \/ setActivePrivateUser \/ clearActivePrivateUser \/ sendPrivateMessage
           \/ EventArrives \/ SendAnswered \/ Missed
  BY <1>1, OpeningHolds, PrivateSendHolds, DeliveryHolds
<1>2. ASSUME NEW c \in Calls, ReadsRows(c) \/ FetchAnswered(c) \/ FetchFails(c) PROVE PrivateInv'
  BY <1>2, ReadHolds, PrivateAnswerHolds, PrivateFailureHolds
<1>3. CASE UNCHANGED privateVars
  <2>1. UNCHANGED <<rows, due, active, page, fetches, luck>>
    BY <1>3 DEF privateVars
  <2>2. PrivateShapes' /\ FlyingInv'
    BY <2>1, Zenon DEF PrivateInv, PrivateShapes, FlyingInv
  <2>3. ToFetch' = ToFetch
    BY <2>1, Zenon DEF ToFetch
  <2>4. OpenedInv'
    BY <2>1, <2>3, OpenStays DEF PrivateInv
  <2> QED
    BY <2>2, <2>4 DEF PrivateInv
<1> QED
  BY <1>1, <1>2, <1>3 DEF PrivateNext

LEMMA PrivateMeans == PrivateInv => PrivateTypeOK /\ ConversationIsShown
<1> SUFFICES ASSUME PrivateInv PROVE PrivateTypeOK /\ ConversationIsShown
  OBVIOUS
<1>1. PrivateTypeOK
  <2>1. \A c \in Calls : fetches[c].of \in {None} \cup Partners /\ fetches[c].older \subseteq InFlight
    BY PrivateFacts DEF PrivateInv, FlyingInv, InFlight
  <2>2. \A p \in Partners : rows[p] \in 0 .. MaxPrivate
    BY DEF PrivateInv, PrivateShapes
  <2> QED
    BY <2>1, <2>2 DEF PrivateInv, PrivateShapes, PrivateTypeOK
<1>2. ASSUME due = {}, InFlight = {}, luck = "none", active # None
      PROVE  page = View(active, OnePage(rows[active]))
  <2>1. \A c \in Calls : fetches[c] = NoFetch
    BY <1>2 DEF InFlight, PrivateInv, FlyingInv
  <2>2. ~LateFetch /\ ~ToFetch /\ ~BeingFetched
    BY <1>2, <2>1, NoFetchAtAll DEF LateFetch, ToFetch, BeingFetched
  <2> QED
    BY <1>2, <2>2 DEF PrivateInv, OpenedInv, AllShown
<1> QED
  BY <1>1, <1>2 DEF ConversationIsShown

\* Private messages: with nothing due the page shows the open conversation up to
\* its last message or the page's limit, unless something was missed, overtaken
\* or answered elsewhere, for any number of partners, messages and fetches.
THEOREM ConversationsAreShown == PrivateSpec => [](PrivateTypeOK /\ ConversationIsShown)
BY PrivateBegins, PrivateGoesOn, PrivateMeans, PTL DEF PrivateSpec

-----------------------------------------------------------------------------
(* All of them side by side.                                                *)

\* The modules share no state: each does in a run of them all what it does
\* alone.
LEMMA PeopleRuns ==
    PeopleSpec => /\ AccountsSpec /\ SessionsSpec /\ PasswordsSpec /\ AdminSpec /\ ChatSpec /\ NoticesSpec
                  /\ PrivateSpec /\ CronSpec /\ RateSpec /\ WalletSpec /\ FormSpec /\ SupportSpec
                  /\ ForensicsSpec /\ BackupsSpec /\ DeskSpec /\ UserPanelSpec /\ CatalogSpec
                  /\ FaucetPageSpec /\ WatchTabsSpec /\ GpuPageSpec /\ GameTabSpec /\ RackPageSpec
                  /\ BoostSpec /\ FeedSpec /\ ScaleSpec /\ MigrationSpec
<1>1. PeopleInit =>
        /\ AccountsInit /\ SessionsInit /\ PasswordsInit /\ AdminInit /\ ChatInit /\ NoticesInit
        /\ PrivateInit /\ CronInit /\ RateInit /\ WalletInit /\ FormInit /\ SupportInit
        /\ ForensicsInit /\ BackupsInit /\ DeskInit /\ UserPanelInit /\ CatalogInit
        /\ FaucetPageInit /\ WatchTabsInit /\ GpuPageInit /\ GameTabInit /\ RackPageInit
        /\ BoostInit /\ FeedInit /\ ScaleInit /\ MigrationInit
  BY DEF PeopleInit
<1>2. ASSUME [PeopleNext]_peopleVars
      PROVE  /\ [AccountsNext]_accountsVars /\ [SessionsNext]_sessionsVars /\ [PasswordsNext]_passwordsVars
             /\ [AdminNext]_adminVars /\ [ChatNext]_chatVars /\ [NoticesNext]_noticesVars
             /\ [PrivateNext]_privateVars /\ [CronNext]_cronVars /\ [RateNext]_rateVars
             /\ [WalletNext]_walletVars /\ [FormNext]_formVars /\ [SupportNext]_supportVars
             /\ [ForensicsNext]_forensicsVars /\ [BackupsNext]_backupsVars /\ [DeskNext]_deskVars
             /\ [UserPanelNext]_userPanelVars /\ [CatalogNext]_catalogVars
             /\ [FaucetPageNext]_faucetPageVars /\ [WatchTabsNext]_tabsVars /\ [GpuPageNext]_gpuPageVars
             /\ [GameTabNext]_gameTabVars /\ [RackPageNext]_rackVars /\ [BoostNext]_boostVars
             /\ [FeedNext]_feedVars /\ [ScaleNext]_scaleVars /\ [MigrationNext]_migrationVars
  BY <1>2 DEF PeopleNext, peopleVars
<1> QED
  BY <1>1, <1>2, PTL
  DEF PeopleSpec, AccountsSpec, SessionsSpec, PasswordsSpec, AdminSpec, ChatSpec, NoticesSpec,
      PrivateSpec, CronSpec, RateSpec, WalletSpec, FormSpec, SupportSpec, ForensicsSpec,
      BackupsSpec, DeskSpec, UserPanelSpec, CatalogSpec, FaucetPageSpec, WatchTabsSpec,
      GpuPageSpec, GameTabSpec, RackPageSpec, BoostSpec, FeedSpec, ScaleSpec, MigrationSpec

\* The server's helpers keep count, whatever the interleaving: of jobs and
\* their locks, requests let through, tickets and their mails, deposits shown,
\* dumps, boosts, blocks, hash rates and old accounts.
THEOREM ServersCount == PeopleSpec => []ServerKeepsCount
<1>1. /\ JobsDoNotOverlap /\ LocksAreHeld /\ StaleIsOver /\ LimitHolds /\ ModestAreServed
      /\ RecoveryIsLinked /\ RepliesAreFlagged /\ ToldIsMailed /\ EachIsShownOnce /\ DepositsAreShown
      /\ HistoryIsKept /\ WorkIsBoostedInTime /\ PaidBoostRuns /\ BoostIsPaidOrDue
      /\ BlocksAreNumberedOn /\ CountedAsFair /\ NoFactorTwice /\ LooseRowsOnce /\ CompletedIsWhole
      => ServerKeepsCount
  BY DEF ServerKeepsCount
<1> QED
  BY <1>1, PeopleRuns, JobsNeverOverlap, LimitsAreKept, TicketsAreSettled,
     AnswersAreComplete, HistoryStays, BoostsArePaid, BlocksGoOn, MachinesCountAsFair,
     MigrationsAreSound, PTL

\* Accounts stay apart, registrations are limited, and a login was justified.
THEOREM AccountsSound == PeopleSpec => []AccountsAreSound
<1>1. /\ EmailsAreDistinct /\ NamesAreDistinct /\ RegistrationsAreLimited /\ ReferralsAreOrdered
      /\ ChecksHeldAtOnce
      => AccountsAreSound
  BY DEF AccountsAreSound
<1> QED
  BY <1>1, PeopleRuns, AccountsStayDistinct, PasswordsAreChecked, PTL

\* Messages to the support, notifications and private messages are stored once
\* and shown.
THEOREM MessagesCome == PeopleSpec => []MessagesArrive
<1>1. SentOnce /\ NothingVanishes /\ ConvOfChosen /\ NewestAreShown /\ ReadStaysRead /\ ConversationIsShown
      => MessagesArrive
  BY DEF MessagesArrive
<1> QED
  BY <1>1, PeopleRuns, MessagesAreSent, BellIsTrue, ConversationsAreShown, PTL

\* The pages on which a player earns are true: what the faucet and the games
\* offer, which tab counts, which GPUs run, which racks and blocks are shown.
THEOREM PlayerPages == PeopleSpec => []PlayerPagesAreTrue
<1>1. /\ OfferIsGood /\ VisitOpensClaim /\ OneTabCounts /\ SomeTabCounts /\ RunsAsSwitched
      /\ BoardIsLive /\ ReportIsFinal /\ ListsCatchUp /\ HistoryIsShown
      => PlayerPagesAreTrue
  BY DEF PlayerPagesAreTrue
<1> QED
  BY <1>1, PeopleRuns, FaucetPageIsTrue, TabsGiveWay, GpusRunAsSwitched, GamesAreShown, RacksCatchUp,
     BlocksGoOn, PTL

\* However late and in whatever order its answers come, a page shows what it
\* has been told and acts on what it shows: the tab's session, the
\* administrator's tickets, tables, users and catalogue, the wallet's list and
\* address and the deposit form.
THEOREM PagesTrue == PeopleSpec => []PagesAreTrue
<1>1. /\ TabShowsSession /\ SpinnerEnds /\ TypedForShown /\ PanelsOfShown /\ ListIsNotAhead
      /\ ActionsAreShown /\ TypedIsKept /\ OneTransferAtATime /\ FlagFollowsActions /\ FailedIsInTicket
      /\ ActsAreListed /\ PageIsListed /\ CreditIsForDraft /\ FormComesBack
      /\ RatesAreTyped /\ ImagesAreOwn /\ SavesOwnForm
      => PagesAreTrue
  BY DEF PagesAreTrue
<1> QED
  BY <1>1, PeopleRuns, TabIsTrue, TicketsAreShown, WalletShows, ActionsAreApart, TablesAreListed,
     UsersAreListed, CatalogIsTyped, PTL

\* Type correctness of all of them.
THEOREM PeopleTyped == PeopleSpec => []PeopleTypeOK
<1>1. /\ AccountsTypeOK /\ SessionsTypeOK /\ PasswordsTypeOK /\ AdminTypeOK /\ ChatTypeOK /\ NoticesTypeOK
      /\ PrivateTypeOK /\ CronTypeOK /\ RateTypeOK /\ WalletTypeOK /\ FormTypeOK /\ SupportTypeOK
      /\ ForensicsTypeOK /\ BackupsTypeOK /\ DeskTypeOK /\ UserPanelTypeOK /\ CatalogTypeOK
      /\ FaucetPageTypeOK /\ WatchTabsTypeOK /\ GpuPageTypeOK /\ GameTabTypeOK /\ RackPageTypeOK
      /\ BoostTypeOK /\ FeedTypeOK /\ ScaleTypeOK /\ MigrationTypeOK
      => PeopleTypeOK
  BY DEF PeopleTypeOK
<1> QED
  BY <1>1, PeopleRuns, AccountsStayDistinct, TabIsTrue, PasswordsAreChecked, TicketsAreShown, MessagesAreSent,
     BellIsTrue, ConversationsAreShown, JobsNeverOverlap, LimitsAreKept, WalletShows, ActionsAreApart,
     TicketsAreSettled, AnswersAreComplete, HistoryStays, TablesAreListed, UsersAreListed, CatalogIsTyped,
     FaucetPageIsTrue, TabsGiveWay, GpusRunAsSwitched, GamesAreShown, RacksCatchUp, BoostsArePaid, BlocksGoOn,
     MachinesCountAsFair, MigrationsAreSound, PTL
=============================================================================
