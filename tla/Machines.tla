------------------------------ MODULE Machines ------------------------------
(***************************************************************************)
(* One player's machines: bought or granted into the inventory, installed   *)
(* in rack slots, moved, switched, sent back, discarded; the catalogue they *)
(* copy their hash rate and size from; and the engine's copy of what the    *)
(* rack mines with.                                                         *)
(*                                                                          *)
(* A handler reads rows, then runs one transaction that deletes and creates *)
(* rows by id (all or nothing), then has the engine reload the profile.     *)
(* A machine gets a new row each time it moves between the two tables:      *)
(* gone[c] holds the machines whose rows, as call c read them, are deleted. *)
(***************************************************************************)
EXTENDS Requests

CONSTANTS
    Units,          \* machines there may be
    ModelOf,        \* the catalogue model of each; None for a Pulse GPU
    Stats,          \* [hash, size] the catalogue may give a model
    LastSlot,       \* slots are 0 .. LastSlot (79 in the code)
    Funds, Price,
    MaxCalls        \* bound: requests made

ASSUME MachinesAssumption ==
    /\ None \notin Units \cup Stats
    /\ LastSlot \in Nat /\ MaxCalls \in Nat /\ Price \in Nat /\ Funds \in Nat
    /\ Stats \subseteq [hash: Nat, size: {1, 2}]

VARIABLES
    catalogue,      \* [hash, size] of each model, or None once deleted
    inventory,      \* rows of user_inventory
    rack,           \* rows of user_miners
    funds,          \* users.pol_balance
    owned,          \* machines the player was given and has not discarded
    engine,         \* what miner.baseHashRate and rigs were computed from
    call,           \* progress of each request
    gone,
    made,           \* requests made
    \* What happened so far, for the properties.
    alone,          \* the request that has had the server for itself
    raced,          \* two requests were in flight together
    resized,        \* the catalogue made an installed machine larger
    muddled,        \* since the last undisturbed reload, one failed or raced
    refused         \* why undisturbed requests were rolled back

machinesTables == <<catalogue, inventory, rack, funds, owned>>
machinesGhosts == <<alone, raced, resized, muddled, refused>>
machinesVars == <<machinesTables, engine, call, gone, made, machinesGhosts>>

Slots == 0 .. LastSlot
Models == {ModelOf[u] : u \in Units} \ {None}
PulseStats == [hash |-> 1, size |-> 1]

Item(u, model, stats) ==
    [unit |-> u, model |-> model, hash |-> stats.hash, size |-> stats.size]

Machine(i, s) ==
    [unit |-> i.unit, model |-> i.model, hash |-> i.hash, size |-> i.size,
     slot |-> s, on |-> TRUE]

Stored(m) == Item(m.unit, m.model, m)

\* row: the item or machine acted on, as read; others: existingMachines;
\* seen: a loaded profile.
Call(pc, op, row, slot, others, seen) ==
    [pc |-> pc, op |-> op, row |-> row, slot |-> slot, others |-> others, seen |-> seen]

NoRow == Item(None, None, PulseStats)
NoCall == Call("idle", "none", NoRow, 0, {}, {})
Loading == Call("load", "none", NoRow, 0, {}, {})

UnitsOf(rows) == {r.unit : r \in rows}
\* Slip: one cell too far.
CellsShifted(size, s) == (s + 1) .. (s + size)

Cells(size, s) == s .. (s + size - 1)
Active == {Stored(m) : m \in {x \in rack : x.on}}
Busy == {c \in Calls : call[c].pc # "idle"}
Reads(c, op) == call[c].pc = "read" /\ call[c].op = op

MachinesInit ==
    /\ catalogue \in [Models -> Stats]
    /\ inventory = {} /\ rack = {} /\ engine = {} /\ owned = {}
    /\ funds = Funds
    /\ call = [c \in Calls |-> NoCall]
    /\ gone = [c \in Calls |-> {}]
    /\ made = 0
    /\ alone = None /\ refused = {}
    /\ raced = FALSE /\ resized = FALSE /\ muddled = FALSE

-----------------------------------------------------------------------------
(* Requests.                                                                *)

\* Rows of the machines in U are deleted by c: other requests miss them.
Deletes(c, U) ==
    gone' = [d \in Calls |-> IF d = c \/ call[d].pc # "read" THEN {} ELSE gone[d] \cup U]

\* Request c is made; q is what it has read.
Enter(c, q, U) ==
    /\ call[c].pc = "idle" /\ made < MaxCalls
    /\ made' = made + 1
    /\ call' = [call EXCEPT ![c] = q]
    /\ Deletes(c, U)
    /\ alone' = IF Busy = {} THEN c ELSE None
    /\ raced' = (raced \/ Busy # {})
    /\ muddled' = (muddled \/ Busy # {})
    /\ UNCHANGED <<engine, refused>>

Begin(c, q) == Enter(c, q, {}) /\ UNCHANGED <<machinesTables, resized>>

\* Request c goes on as q; the rows of the machines in U are deleted.
Step(c, q, U) ==
    /\ call' = [call EXCEPT ![c] = q]
    /\ Deletes(c, U)
    /\ UNCHANGED <<made, alone, raced, resized>>

\* The transaction of c leaves these rows.
Commits(c, machines, items, q, U) ==
    /\ rack' = machines
    /\ inventory' = items
    /\ Step(c, q, U)
    /\ UNCHANGED <<catalogue, funds, owned, engine, muddled, refused>>

\* The transaction throws: nothing of it stays and the answer is 500.
RollsBack(c) ==
    /\ Step(c, NoCall, {})
    /\ refused' = IF alone # c THEN refused
                  ELSE refused \cup {IF None \in {m.model : m \in rack} THEN "nameless" ELSE "named"}
    /\ UNCHANGED <<machinesTables, engine, muddled>>

\* The foreign key of a new row refers to a model there is.
Refers(r) == r.model = None \/ catalogue[r.model] # None

\* A machine displaced by another one is stored under miner.name, which must
\* not be missing.
Displaceable(m) == m.model # None /\ catalogue[m.model] # None

\* Slip: the displaced machines are deleted and not written back.
PutAway(out) == {}

PutBack(out) == {Stored(m) : m \in out}

\* prevMachine: a large machine that reaches into the target slot, looked up
\* once the machines in taken are gone from the rack.
Previous(s, taken) ==
    {m \in rack : s % 2 = 1 /\ m.slot = s - 1 /\ m.size = 2 /\ m.unit \notin taken}

\* Slip: the second cell of a large machine is not looked at.
OccupantsOfFirst(size, s, self) == {m \in rack : m.slot = s /\ m.unit # self}

Occupants(size, s, self) == {m \in rack : m.slot \in Cells(size, s) /\ m.unit # self}

FitsAt(size, s) == size = 2 => s % 2 = 0

installInventoryItem(c) ==
    \E i \in inventory, s \in Slots :
        /\ FitsAt(i.size, s)
        /\ Begin(c, Call("read", "install", i, s, Occupants(i.size, s, None), {}))

InstallCommits(c) ==
    LET q == call[c]
        out == q.others \cup Previous(q.slot, UnitsOf(q.others))
        left == {m \in rack : m.unit \notin UnitsOf(out)}
        used == UnitsOf(q.others) \cup {q.row.unit}
    IN  /\ Reads(c, "install")
        /\ IF /\ used \cap gone[c] = {}
              /\ \A m \in out : Displaceable(m)
              /\ \A m \in left : m.slot # q.slot
              /\ Refers(q.row)
           THEN Commits(c, left \cup {Machine(q.row, q.slot)},
                        {i \in inventory : i.unit # q.row.unit} \cup PutBack(out),
                        Loading, UnitsOf(out) \cup {q.row.unit})
           ELSE RollsBack(c)

\* Slip: a target beyond the last slot is accepted.
MoveAnywhere(c) ==
    \E m \in rack, s \in 0 .. LastSlot + 1 :
        /\ FitsAt(m.size, s)
        /\ Begin(c, Call("read", "move", m, s, Occupants(m.size, s, m.unit), {}))

moveMachine(c) ==
    \E m \in rack, s \in Slots :
        /\ FitsAt(m.size, s)
        /\ Begin(c, Call("read", "move", m, s, Occupants(m.size, s, m.unit), {}))

MoveCommits(c) ==
    LET q == call[c]
        self == q.row.unit
        out == q.others \cup Previous(q.slot, UnitsOf(q.others) \cup {self})
        left == {m \in rack : m.unit \notin UnitsOf(out) \cup {self}}
    IN  /\ Reads(c, "move")
        /\ IF /\ (UnitsOf(q.others) \cup {self}) \cap gone[c] = {}
              /\ \A m \in out : Displaceable(m)
              /\ \A m \in left : m.slot # q.slot
           THEN Commits(c, left \cup {[m EXCEPT !.slot = q.slot] : m \in {x \in rack : x.unit = self}},
                        inventory \cup PutBack(out), Loading, UnitsOf(out))
           ELSE RollsBack(c)

removeMachine(c) == \E m \in rack : Begin(c, Call("read", "remove", m, 0, {}, {}))

RemoveCommits(c) ==
    LET m == call[c].row IN
    /\ Reads(c, "remove")
    /\ IF m.unit \notin gone[c] /\ Refers(m)
       THEN Commits(c, {x \in rack : x.unit # m.unit}, inventory \cup {Stored(m)},
                    Loading, {m.unit})
       ELSE RollsBack(c)

toggleMachine(c) ==
    \E m \in rack : Begin(c, Call("read", "toggle", [m EXCEPT !.on = ~m.on], 0, {}, {}))

Switched(machines, u, on) == {IF x.unit = u THEN [x EXCEPT !.on = on] ELSE x : x \in machines}

\* Slip: the engine is not told.
ToggleQuietly(c) ==
    LET m == call[c].row IN
    /\ Reads(c, "toggle")
    /\ IF m.unit \notin gone[c]
       THEN Commits(c, Switched(rack, m.unit, m.on), inventory, NoCall, {})
       ELSE RollsBack(c)

ToggleCommits(c) ==
    LET m == call[c].row IN
    /\ Reads(c, "toggle")
    /\ IF m.unit \notin gone[c]
       THEN Commits(c, Switched(rack, m.unit, m.on), inventory, Loading, {})
       ELSE RollsBack(c)

removeInventoryItem(c) ==
    \E i \in inventory :
        /\ Enter(c, NoCall, {i.unit})
        /\ inventory' = inventory \ {i}
        /\ owned' = owned \ {i.unit}
        /\ UNCHANGED <<catalogue, rack, funds, resized>>

-----------------------------------------------------------------------------
(* New machines.                                                            *)

Unused == Units \ (owned \cup {call[c].row.unit : c \in Busy})

\* purchaseMiner, the grant to every user and the rewards that are machines
\* of the catalogue read its row first.
ReadModel(c, op) ==
    \E u \in Unused :
        /\ ModelOf[u] # None /\ catalogue[ModelOf[u]] # None
        /\ Begin(c, Call("read", op, Item(u, ModelOf[u], catalogue[ModelOf[u]]), 0, {}, {}))

purchaseMiner(c) == ReadModel(c, "buy")
grantMinerInventoryToAllUsers(c) == ReadModel(c, "grant")

\* Slip: the balance is not compared with the price.
SkipsFunds(c) == TRUE

HasFunds(c) == funds >= Price

\* In the transaction, and before the decrement.
PurchaseChecks(c) ==
    /\ Reads(c, "buy")
    /\ Step(c, IF HasFunds(c) THEN [call[c] EXCEPT !.op = "pay"] ELSE NoCall, {})
    /\ UNCHANGED <<machinesTables, engine, muddled, refused>>

Gives(c, price) ==
    IF Refers(call[c].row)
    THEN /\ inventory' = inventory \cup {call[c].row}
         /\ owned' = owned \cup {call[c].row.unit}
         /\ funds' = funds - price
         /\ Step(c, NoCall, {})
         /\ UNCHANGED <<catalogue, rack, engine, muddled, refused>>
    ELSE RollsBack(c)

PurchaseCommits(c) == Reads(c, "pay") /\ Gives(c, Price)
GrantCommits(c) == Reads(c, "grant") /\ Gives(c, 0)

\* claimGPUHandler's row has no minerId.
PulseArrives(c) ==
    \E u \in Unused :
        /\ ModelOf[u] = None
        /\ Enter(c, NoCall, {})
        /\ inventory' = inventory \cup {Item(u, None, PulseStats)}
        /\ owned' = owned \cup {u}
        /\ UNCHANGED <<catalogue, rack, funds, resized>>

-----------------------------------------------------------------------------
(* The catalogue and the engine.                                            *)

Restated(rows, model, stats) ==
    {IF r.model = model THEN [r EXCEPT !.hash = stats.hash, !.size = stats.size] ELSE r : r \in rows}

\* Slip: only installed machines follow the catalogue.
RackOnly(items, model, stats) == items

Propagated(items, model, stats) == Restated(items, model, stats)

\* updateMiner, and the repair that propagates the row as it is.
updateMiner(c) ==
    \E m \in Models, st \in Stats :
        /\ catalogue[m] # None
        /\ Enter(c, IF m \in {r.model : r \in inventory \cup rack} THEN Loading ELSE NoCall, {})
        /\ catalogue' = [catalogue EXCEPT ![m] = st]
        /\ rack' = Restated(rack, m, st)
        /\ inventory' = Propagated(inventory, m, st)
        /\ resized' = (resized \/ \E x \in rack : x.model = m /\ x.size < st.size)
        /\ UNCHANGED <<funds, owned>>

\* Slip: machines in a rack are not counted.
InUseInInventory(m) == m \in {r.model : r \in inventory}

InUse(m) == m \in {r.model : r \in inventory} \cup {r.model : r \in rack}

\* The instances are counted, and the model deleted by a later transaction;
\* rows that refer to it by then lose the reference.
deleteMiner(c) ==
    \E m \in Models :
        /\ catalogue[m] # None /\ ~InUse(m)
        /\ Begin(c, Call("read", "delete", Item(None, m, PulseStats), 0, {}, {}))

Unnamed(rows, m) == {IF r.model = m THEN [r EXCEPT !.model = None] ELSE r : r \in rows}

DeleteCommits(c) ==
    LET m == call[c].row.model IN
    /\ Reads(c, "delete")
    /\ IF catalogue[m] # None
       THEN /\ catalogue' = [catalogue EXCEPT ![m] = None]
            /\ rack' = Unnamed(rack, m)
            /\ inventory' = Unnamed(inventory, m)
            /\ Step(c, NoCall, {})
            /\ UNCHANGED <<funds, owned, engine, muddled, refused>>
       ELSE RollsBack(c)

\* miner:join and the other handlers that reload the profile.
reloadMinerProfile(c) == Begin(c, Loading)

LoadProfile(c) ==
    /\ call[c].pc = "load"
    /\ Step(c, Call("apply", "none", NoRow, 0, {}, Active), {})
    /\ UNCHANGED <<machinesTables, engine, muddled, refused>>

LoadFails(c) ==
    /\ MayFail
    /\ call[c].pc = "load"
    /\ Step(c, NoCall, {})
    /\ muddled' = TRUE
    /\ UNCHANGED <<machinesTables, engine, refused>>

ApplyProfile(c) ==
    /\ call[c].pc = "apply"
    /\ engine' = call[c].seen
    /\ muddled' = (muddled /\ alone # c)
    /\ Step(c, NoCall, {})
    /\ UNCHANGED <<machinesTables, refused>>

\* The lists of machines, items and models change nothing.
listMachines == UNCHANGED machinesVars

MachinesNext ==
    \/ \E c \in Calls :
          \/ installInventoryItem(c) \/ InstallCommits(c)
          \/ moveMachine(c) \/ MoveCommits(c)
          \/ removeMachine(c) \/ RemoveCommits(c)
          \/ toggleMachine(c) \/ ToggleCommits(c)
          \/ removeInventoryItem(c)
          \/ purchaseMiner(c) \/ PurchaseChecks(c) \/ PurchaseCommits(c)
          \/ grantMinerInventoryToAllUsers(c) \/ GrantCommits(c) \/ PulseArrives(c)
          \/ updateMiner(c) \/ deleteMiner(c) \/ DeleteCommits(c)
          \/ reloadMinerProfile(c) \/ LoadProfile(c) \/ LoadFails(c) \/ ApplyProfile(c)
    \/ listMachines

MachinesSpec == MachinesInit /\ [][MachinesNext]_machinesVars

-----------------------------------------------------------------------------
(* Properties.                                                              *)

Items == [unit: Units, model: Models \cup {None}, hash: Nat, size: {1, 2}]
Installed ==
    [unit: Units, model: Models \cup {None}, hash: Nat, size: {1, 2}, slot: Slots, on: BOOLEAN]

\* Type correctness of the tables, the engine and the requests.
MachinesTypeOK ==
    /\ catalogue \in [Models -> Stats \cup {None}]
    /\ inventory \subseteq Items /\ engine \subseteq Items
    /\ rack \subseteq Installed
    /\ funds \in Int /\ owned \subseteq Units /\ made \in 0 .. MaxCalls
    /\ gone \in [Calls -> SUBSET Units]
    /\ DOMAIN call = Calls
    /\ \A c \in Calls : call[c].others \subseteq Installed /\ call[c].seen \subseteq Items
    /\ alone \in Calls \cup {None} /\ refused \subseteq {"named", "nameless"}
    /\ {raced, resized, muddled} \subseteq BOOLEAN

\* Whatever requests overlap, a machine the player was given and has not
\* discarded is in exactly one row of the two tables, and no other is: none
\* is lost or doubled by a move (installInventoryItem, moveMachine,
\* removeMachine).
UnitsAreKept ==
    \A u \in Units :
        Cardinality({i \in inventory : i.unit = u}) + Cardinality({m \in rack : m.unit = u})
            = IF u \in owned THEN 1 ELSE 0

\* Machines never share a cell of the rack, unless requests overlapped or the
\* catalogue made an installed machine larger.
SlotsDoNotOverlap ==
    raced \/ resized \/
        \A m, n \in rack : m # n => Cells(m.size, m.slot) \cap Cells(n.size, n.slot) = {}

\* Every machine has the hash rate and the size the catalogue gives its
\* model, unless a change of the catalogue overlapped a request that copies
\* them (propagateMinerToAllInstances).
InstancesMatchCatalogue ==
    raced \/ \A r \in inventory \cup rack :
        r.model # None => catalogue[r.model] = [hash |-> r.hash, size |-> r.size]

\* When no request is in flight, the engine mines with the machines that are
\* installed and switched on, unless reloads overlapped or failed since the
\* last one that ran undisturbed.
EngineMinesWithRack == (Busy = {} /\ ~muddled) => engine = Active

\* A request that runs undisturbed is never rolled back: what it reads before
\* its transaction is all it needs to clear the slots.  A machine without a
\* catalogue model in the rack is excluded.
UndisturbedCallsSucceed == "named" \notin refused

\* Overlapping purchases overdraw the account by less than a price for each
\* request but one.
DebtIsBounded == funds >= Price * (1 - Cardinality(Calls))

\* The catalogue keeps the model of every machine a player has, unless the
\* deletion overlapped another request.
CatalogueKeepsOwned ==
    raced \/ \A r \in inventory \cup rack : r.model = ModelOf[r.unit]

\* What the handlers promise of the rack and the catalogue when they do not
\* overlap.
RackIsSound ==
    SlotsDoNotOverlap /\ InstancesMatchCatalogue /\ UndisturbedCallsSucceed /\ CatalogueKeepsOwned
=============================================================================
