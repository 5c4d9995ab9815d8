------------------------------ MODULE HashScale ------------------------------
(***************************************************************************)
(* The scale of the stored hash rates.  One script multiplies small rates    *)
(* by 10^9 (they were meant as GH/s), another divides large ones, and the    *)
(* server strips the factor wherever it counts.  Operators run the scripts    *)
(* again, a run breaks off anywhere, and players go on meanwhile.  Machines   *)
(* are copied between two tables, the inventory's and the rack's.             *)
(***************************************************************************)
EXTENDS Requests

CONSTANTS
    Billion, LegacyMax,     \* 10^9, and what is below 10^6
    MaxLevel,               \* of a machine
    Machines,
    LooseRates,             \* rates that are given without a catalogue's miner
    MaxScripts              \* bound: runs of the scripts

\* The comment of stripAccidentalBillionScaleHs: the project's rates are far
\* below a billion.
ASSUME HashScaleAssumption ==
    /\ {Billion, LegacyMax, MaxLevel, MaxScripts} \subseteq Nat
    /\ 0 < LegacyMax /\ LegacyMax <= Billion /\ Billion > 1 /\ MaxLevel > 0
    /\ LooseRates \subseteq 1 .. Billion - 1
    /\ LegacyMax * MaxLevel <= Billion

VARIABLES
    catalog,    \* miners.base_hash_rate of one miner
    mrow,       \* rows of user_inventory and user_miners, by machine
    script,     \* the script under way: [pc, rows]; rows: those found by syncFromMinerCatalog (None: one deleted since)
    carried,    \* the row that a player's move has read: [of, row]
    fair,       \* what each machine should count
    scripts

scaleVars == <<catalog, mrow, script, carried, fair, scripts>>

MRow(place, linked, level, rate) ==
    [place |-> place, linked |-> linked, level |-> level, rate |-> rate]
NoMachine == MRow("none", FALSE, 0, 0)
Script(pc, rows) == [pc |-> pc, rows |-> rows]
NoScript == Script("idle", {})
NotCarried == [of |-> None, row |-> NoMachine]

Owned == {m \in Machines : mrow[m] # NoMachine}

\* Slip: exactly a billion is taken for a rate.
StripsAbove(v) == IF v > Billion THEN v \div Billion ELSE v

\* stripAccidentalBillionScaleHs: at most one factor is ever there (NoFactorTwice).
HashCounted(v) == IF v >= Billion THEN v \div Billion ELSE v

ScaleInit ==
    /\ catalog \in 1 .. LegacyMax - 1
    /\ mrow = [m \in Machines |-> NoMachine]
    /\ script = NoScript
    /\ carried = NotCarried
    /\ fair = [m \in Machines |-> 0]
    /\ scripts = 0

\* A purchase copies the catalogue's rate; a game, a video or a reward gives a
\* machine or a power of its own.  Levels above one are older than the shop.
GetsMachine(m) ==
    /\ m \notin Owned
    /\ \E level \in 1 .. MaxLevel :
          /\ mrow' = [mrow EXCEPT ![m] = MRow("inventory", TRUE, level, catalog * level)]
          /\ fair' = [fair EXCEPT ![m] = HashCounted(catalog) * level]
    /\ UNCHANGED <<catalog, script, carried, scripts>>

GetsLoose(m) ==
    /\ m \notin Owned
    /\ \E rate \in LooseRates :
          /\ mrow' = [mrow EXCEPT ![m] = MRow("rack", FALSE, 1, rate)]
          /\ fair' = [fair EXCEPT ![m] = rate]
    /\ UNCHANGED <<catalog, script, carried, scripts>>

\* Installing and uninstalling read the row, write a copy to the other table
\* and delete the row.
MoveReads(m) ==
    /\ carried = NotCarried /\ m \in Owned
    /\ carried' = [of |-> m, row |-> mrow[m]]
    /\ UNCHANGED <<catalog, mrow, script, fair, scripts>>

MoveWrites ==
    LET row == carried.row IN
    /\ carried # NotCarried
    /\ mrow' = [mrow EXCEPT ![carried.of] =
                   MRow(IF row.place = "rack" THEN "inventory" ELSE "rack",
                        row.linked, row.level, row.rate)]
    /\ carried' = NotCarried
    /\ script' = IF carried.of \in script.rows
                  THEN Script(script.pc, (script.rows \ {carried.of}) \cup {None})
                  ELSE script
    /\ UNCHANGED <<catalog, fair, scripts>>

-----------------------------------------------------------------------------
(* The scripts: each UPDATE is a statement of its own.                       *)

RunsScript(pc) ==
    /\ script = NoScript /\ scripts < MaxScripts
    /\ script' = Script(pc, {})
    /\ scripts' = scripts + 1
    /\ UNCHANGED <<catalog, mrow, carried, fair>>

\* Slip: whatever is positive is taken for GH/s.
MultipliesAll(v) == v * Billion

Multiplied(v) == IF v > 0 /\ v < LegacyMax THEN v * Billion ELSE v

MultipliedRows(place) ==
    [m \in Machines |->
        IF mrow[m].place = place THEN [mrow[m] EXCEPT !.rate = Multiplied(@)] ELSE mrow[m]]

ShrunkRows(place) ==
    [m \in Machines |->
        IF mrow[m].place = place THEN [mrow[m] EXCEPT !.rate = HashCounted(@)] ELSE mrow[m]]

\* multiplyLegacyColumn, table by table: miners, user_inventory, user_miners.
MultipliesTable ==
    /\ \/ /\ script.pc = "multiply"
          /\ catalog' = Multiplied(catalog)
          /\ script' = Script("multiply inventory", {})
          /\ UNCHANGED mrow
       \/ /\ script.pc = "multiply inventory"
          /\ mrow' = MultipliedRows("inventory")
          /\ script' = Script("multiply rack", {})
          /\ UNCHANGED catalog
       \/ /\ script.pc = "multiply rack"
          /\ mrow' = MultipliedRows("rack")
          /\ script' = Script("sync rack", {})
          /\ UNCHANGED catalog
    /\ UNCHANGED <<carried, fair, scripts>>

\* syncFromMinerCatalog: the machines of the rack are found and then updated
\* one by one, and then those of the inventory.
SyncFinds ==
    /\ script.pc \in {"sync rack", "sync inventory"}
    /\ LET place == IF script.pc = "sync rack" THEN "rack" ELSE "inventory"
       IN  script' = Script(IF place = "rack" THEN "sync rack rows" ELSE "sync inventory rows",
                            {m \in Owned : mrow[m].place = place /\ mrow[m].linked})
    /\ UNCHANGED <<catalog, mrow, carried, fair, scripts>>

SyncPending == script.pc \in {"sync rack rows", "sync inventory rows"}

SyncUpdates ==
    \E m \in script.rows \ {None} :
        /\ SyncPending
        /\ mrow' = [mrow EXCEPT ![m].rate = catalog * mrow[m].level]
        /\ fair' = [fair EXCEPT ![m] = HashCounted(catalog) * mrow[m].level]
        /\ script' = [script EXCEPT !.rows = @ \ {m}]
        /\ UNCHANGED <<catalog, carried, scripts>>

SyncGoesOn ==
    /\ SyncPending /\ script.rows = {}
    /\ script' = IF script.pc = "sync rack rows" THEN Script("sync inventory", {}) ELSE NoScript
    /\ UNCHANGED <<catalog, mrow, carried, fair, scripts>>

\* A row that was found has been deleted since, or a statement throws: the rest
\* of the script is left out.
ScriptBreaksOff ==
    /\ script # NoScript
    /\ MayFail \/ None \in script.rows
    /\ script' = NoScript
    /\ UNCHANGED <<catalog, mrow, carried, fair, scripts>>

\* shrinkOnce, repeated until no row is left: miners, user_miners, user_inventory.
ShrinksTable ==
    /\ \/ /\ script.pc = "shrink"
          /\ catalog' = HashCounted(catalog)
          /\ script' = Script("shrink rack", {})
          /\ UNCHANGED mrow
       \/ /\ script.pc = "shrink rack"
          /\ mrow' = ShrunkRows("rack")
          /\ script' = Script("shrink inventory", {})
          /\ UNCHANGED catalog
       \/ /\ script.pc = "shrink inventory"
          /\ mrow' = ShrunkRows("inventory")
          /\ script' = NoScript
          /\ UNCHANGED catalog
    /\ UNCHANGED <<carried, fair, scripts>>

ScaleNext ==
    \/ \E m \in Machines : GetsMachine(m) \/ GetsLoose(m) \/ MoveReads(m)
    \/ MoveWrites
    \/ \E pc \in {"multiply", "shrink"} : RunsScript(pc)
    \/ MultipliesTable \/ SyncFinds \/ SyncUpdates \/ SyncGoesOn \/ ShrinksTable
    \/ ScriptBreaksOff

ScaleSpec == ScaleInit /\ [][ScaleNext]_scaleVars

-----------------------------------------------------------------------------
(* Properties.                                                              *)

\* Type correctness of the rates, the script and the move.
ScaleTypeOK ==
    /\ catalog \in Nat
    /\ \A m \in Owned : mrow[m].rate \in Nat /\ mrow[m].level \in 1 .. MaxLevel
    /\ \A m \in Machines : mrow[m].place \in {"none", "inventory", "rack"}
    /\ script.rows \subseteq {None} \cup Machines
    /\ carried.of \in {None} \cup Machines
    /\ fair \in [Machines -> Nat] /\ scripts \in 0 .. MaxScripts

\* What a machine counts is what it was given, whatever scripts have run over
\* it, broken off and run again while it was moved.
CountedAsFair == \A m \in Owned : HashCounted(mrow[m].rate) = fair[m]

\* However often the scripts are run, no rate gets the factor a second time.
NoFactorTwice ==
    /\ catalog < Billion * Billion
    /\ \A m \in Owned : mrow[m].rate < Billion * Billion
=============================================================================
