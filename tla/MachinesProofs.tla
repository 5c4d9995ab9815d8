--------------------------- MODULE MachinesProofs ---------------------------
(***************************************************************************)
(* Theorems about Machines, for any machines, catalogue, slots and number  *)
(* of overlapping requests: none is lost or doubled, the rack stays sound, *)
(* the engine follows it, and purchases overdraw by a price each but one.  *)
(***************************************************************************)
EXTENDS Machines, RequestsProofs

-----------------------------------------------------------------------------
(* The invariant.                                                           *)

One(rows) == \A r, q \in rows : r.unit = q.unit => r = q

\* A machine that is owned has one row, in one of the tables.
RowsAreKept ==
    /\ inventory \subseteq Items /\ rack \subseteq Installed
    /\ One(inventory) /\ One(rack)
    /\ UnitsOf(inventory) \cap UnitsOf(rack) = {}
    /\ UnitsOf(inventory) \cup UnitsOf(rack) = owned

Giving(c) == call[c].pc = "read" /\ call[c].op \in {"buy", "grant", "pay"}

\* What a request has read is still in its table, under the same row, or is
\* known to be gone.
KnowsRows(c) ==
    LET q == call[c] IN
    call[c].pc = "read" =>
        /\ q.op \in {"install", "buy", "grant", "pay"} => q.row \in Items
        /\ q.op \in {"move", "remove", "toggle"} => q.row \in Installed
        /\ q.op \in {"install", "move"} => q.slot \in Slots
        /\ q.op = "install" => q.row.unit \in UnitsOf(inventory) \cup gone[c]
        /\ q.op \in {"move", "remove"} => q.row.unit \in UnitsOf(rack) \cup gone[c]
        /\ q.op = "move" => q.row.unit \notin UnitsOf(q.others)
        /\ q.op \notin {"install", "move"} => q.others = {}
        /\ q.others \subseteq Installed /\ One(q.others)
        /\ UnitsOf(q.others) \subseteq UnitsOf(rack) \cup gone[c]

\* A machine about to be given is not owned, and nobody else is about to give it.
GiftsAreNew ==
    \A c \in Calls : Giving(c) =>
        /\ call[c].row.unit \notin owned
        /\ \A d \in Calls \ {c} : Giving(d) => call[d].row.unit # call[c].row.unit

CallsAreCalls ==
    /\ DOMAIN call = Calls
    /\ \A c \in Calls :
          call[c] = Call(call[c].pc, call[c].op, call[c].row, call[c].slot, call[c].others, call[c].seen)

KeptInv ==
    /\ catalogue \in [Models -> Stats \cup {None}]
    /\ RowsAreKept /\ GiftsAreNew /\ CallsAreCalls
    /\ \A c \in Calls : KnowsRows(c)

LEMMA KeptBegins == MachinesInit => KeptInv
<1> SUFFICES ASSUME MachinesInit PROVE KeptInv
  OBVIOUS
<1>1. inventory = {} /\ rack = {} /\ owned = {} /\ catalogue \in [Models -> Stats \cup {None}]
  BY DEF MachinesInit
<1>2. RowsAreKept
  BY <1>1 DEF RowsAreKept, One, UnitsOf
<1>3. \A c \in Calls : call[c] = NoCall /\ call[c].pc = "idle"
  BY DEF MachinesInit, NoCall, Call
<1>4. CallsAreCalls
  BY <1>3 DEF MachinesInit, CallsAreCalls, NoCall, Call
<1> QED
  BY <1>1, <1>2, <1>3, <1>4 DEF KeptInv, GiftsAreNew, Giving, KnowsRows

-----------------------------------------------------------------------------
(* What a request's step leaves of what the others know.                    *)

LEMMA OthersKnow ==
    ASSUME KeptInv, NEW c \in Calls, NEW q, NEW U,
           call' = [call EXCEPT ![c] = q], Deletes(c, U),
           q = Call(q.pc, q.op, q.row, q.slot, q.others, q.seen),
           catalogue' \in [Models -> Stats \cup {None}],
           RowsAreKept',
           UnitsOf(inventory) \subseteq UnitsOf(inventory)' \cup U,
           UnitsOf(rack) \subseteq UnitsOf(rack)' \cup U,
           \A d \in Calls \ {c} : Giving(d) => call[d].row.unit \notin owned',
           KnowsRows(c)',
           Giving(c)' => /\ q.row.unit \notin owned'
                         /\ \A d \in Calls \ {c} : Giving(d) => call[d].row.unit # q.row.unit
    PROVE  KeptInv'
<1>1. /\ DOMAIN call' = Calls /\ call'[c] = q
      /\ \A d \in Calls \ {c} : call'[d] = call[d]
  BY DEF KeptInv, CallsAreCalls
<1>2. CallsAreCalls'
  BY <1>1 DEF KeptInv, CallsAreCalls
<1>3. ASSUME NEW d \in Calls \ {c} PROVE Giving(d)' <=> Giving(d)
  BY <1>1 DEF Giving
<1>4. GiftsAreNew'
  BY <1>1, <1>3 DEF KeptInv, GiftsAreNew
<1>5. ASSUME NEW d \in Calls \ {c}, call[d].pc = "read" PROVE gone'[d] = gone[d] \cup U
  BY <1>5 DEF Deletes
<1>6. ASSUME NEW d \in Calls \ {c} PROVE KnowsRows(d)'
  <2> SUFFICES ASSUME call[d].pc = "read" PROVE KnowsRows(d)'
    BY <1>1 DEF KnowsRows
  <2>1. call'[d] = call[d] /\ gone'[d] = gone[d] \cup U
    BY <1>1, <1>5
  <2>2. KnowsRows(d)
    BY DEF KeptInv
  <2> QED
    BY <2>1, <2>2 DEF KnowsRows, Items, Installed, Models, Slots, One, UnitsOf
<1> QED
  BY <1>2, <1>4, <1>6 DEF KeptInv

\* A request's step that writes no row.
LEMMA RowsUntouched ==
    ASSUME KeptInv, NEW c \in Calls, NEW q,
           call' = [call EXCEPT ![c] = q], Deletes(c, {}),
           q = Call(q.pc, q.op, q.row, q.slot, q.others, q.seen),
           UNCHANGED machinesTables,
           KnowsRows(c)',
           Giving(c)' => /\ q.row.unit \notin owned
                         /\ \A d \in Calls \ {c} : Giving(d) => call[d].row.unit # q.row.unit
    PROVE  KeptInv'
<1>1. RowsAreKept' /\ catalogue' \in [Models -> Stats \cup {None}]
  BY DEF KeptInv, RowsAreKept, machinesTables, UnitsOf, Items, Installed, Models, Slots, One
<1>2. \A d \in Calls : Giving(d) => call[d].row.unit \notin owned'
  BY DEF KeptInv, GiftsAreNew, machinesTables
<1>3. UnitsOf(inventory) \subseteq UnitsOf(inventory)' /\ UnitsOf(rack) \subseteq UnitsOf(rack)'
  BY DEF machinesTables, UnitsOf
<1> QED
  BY <1>1, <1>2, <1>3, OthersKnow DEF machinesTables

\* The transaction of a request that has none to give.
LEMMA RowsRewritten ==
    ASSUME KeptInv, NEW c \in Calls, NEW q, NEW U,
           call' = [call EXCEPT ![c] = q], Deletes(c, U),
           q \in {NoCall, Loading},
           catalogue' \in [Models -> Stats \cup {None}], owned' \subseteq owned,
           RowsAreKept',
           UnitsOf(inventory) \subseteq UnitsOf(inventory)' \cup U,
           UnitsOf(rack) \subseteq UnitsOf(rack)' \cup U
    PROVE  KeptInv'
<1>1. q = Call(q.pc, q.op, q.row, q.slot, q.others, q.seen) /\ q.pc # "read"
  BY DEF NoCall, Loading, Call
<1>2. call'[c] = q
  BY DEF KeptInv, CallsAreCalls
<1>3. ~Giving(c)' /\ KnowsRows(c)'
  BY <1>1, <1>2 DEF Giving, KnowsRows
<1>4. \A d \in Calls : Giving(d) => call[d].row.unit \notin owned'
  BY DEF KeptInv, GiftsAreNew
<1> QED
  BY <1>1, <1>3, <1>4, OthersKnow

LEMMA RollsBackKeeps ==
    ASSUME KeptInv, NEW c \in Calls, RollsBack(c)
    PROVE  KeptInv'
<1>1. call' = [call EXCEPT ![c] = NoCall] /\ Deletes(c, {}) /\ UNCHANGED machinesTables
  BY DEF RollsBack, Step
<1>2. RowsAreKept' /\ catalogue' \in [Models -> Stats \cup {None}]
  BY <1>1 DEF KeptInv, RowsAreKept, machinesTables, UnitsOf, Items, Installed, Models, Slots, One
<1> QED
  BY <1>1, <1>2, RowsRewritten DEF machinesTables, UnitsOf

-----------------------------------------------------------------------------
(* The steps that read.                                                     *)

LEMMA BeginsKeeps ==
    ASSUME KeptInv, NEW c \in Calls,
           \/ installInventoryItem(c) \/ moveMachine(c) \/ removeMachine(c) \/ toggleMachine(c)
           \/ deleteMiner(c) \/ reloadMinerProfile(c)
    PROVE  KeptInv'
<1>1. ASSUME NEW q, Begin(c, q), q = Call(q.pc, q.op, q.row, q.slot, q.others, q.seen),
             q.op \notin {"buy", "grant", "pay"}, KnowsRows(c)'
      PROVE  KeptInv'
  <2>1. /\ call' = [call EXCEPT ![c] = q] /\ Deletes(c, {}) /\ UNCHANGED machinesTables
        /\ call'[c] = q
    BY <1>1 DEF Begin, Enter, KeptInv, CallsAreCalls
  <2>2. ~Giving(c)'
    BY <1>1, <2>1 DEF Giving
  <2> QED
    BY <1>1, <2>1, <2>2, RowsUntouched
<1>2. ASSUME NEW q, Begin(c, q)
      PROVE  /\ call'[c] = q /\ inventory' = inventory /\ rack' = rack
             /\ UNCHANGED <<catalogue, owned>>
  BY <1>2 DEF Begin, Enter, KeptInv, CallsAreCalls, machinesTables
<1>3. CASE installInventoryItem(c)
  <2>1. PICK i \in inventory, s \in Slots :
          Begin(c, Call("read", "install", i, s, Occupants(i.size, s, None), {}))
    BY <1>3 DEF installInventoryItem
  <2> DEFINE q == Call("read", "install", i, s, Occupants(i.size, s, None), {})
  <2>2. /\ q.pc = "read" /\ q.op = "install" /\ q.row = i /\ q.slot = s
        /\ q.others = Occupants(i.size, s, None)
        /\ q = Call(q.pc, q.op, q.row, q.slot, q.others, q.seen)
    BY DEF Call
  <2>3. Occupants(i.size, s, None) \subseteq rack
    BY DEF Occupants
  <2>4. call'[c] = q /\ inventory' = inventory /\ rack' = rack /\ UNCHANGED <<catalogue, owned>>
    BY <1>2, <2>1
  <2>5. Begin(c, q)
    BY <2>1
  <2> HIDE DEF q
  <2>6. KnowsRows(c)'
    BY <2>2, <2>3, <2>4 DEF KnowsRows, KeptInv, RowsAreKept, One, UnitsOf, Items, Installed, Models, Slots
  <2> QED
    BY <1>1, <2>2, <2>5, <2>6
<1>4. CASE moveMachine(c)
  <2>1. PICK m \in rack, s \in Slots :
          Begin(c, Call("read", "move", m, s, Occupants(m.size, s, m.unit), {}))
    BY <1>4 DEF moveMachine
  <2> DEFINE q == Call("read", "move", m, s, Occupants(m.size, s, m.unit), {})
  <2>2. /\ q.pc = "read" /\ q.op = "move" /\ q.row = m /\ q.slot = s
        /\ q.others = Occupants(m.size, s, m.unit)
        /\ q = Call(q.pc, q.op, q.row, q.slot, q.others, q.seen)
    BY DEF Call
  <2>3. Occupants(m.size, s, m.unit) \subseteq rack /\ \A x \in Occupants(m.size, s, m.unit) : x.unit # m.unit
    BY DEF Occupants
  <2>4. call'[c] = q /\ inventory' = inventory /\ rack' = rack /\ UNCHANGED <<catalogue, owned>>
    BY <1>2, <2>1
  <2>5. Begin(c, q)
    BY <2>1
  <2> HIDE DEF q
  <2>6. KnowsRows(c)'
    BY <2>2, <2>3, <2>4 DEF KnowsRows, KeptInv, RowsAreKept, One, UnitsOf, Items, Installed, Models, Slots
  <2> QED
    BY <1>1, <2>2, <2>5, <2>6
<1>5. CASE removeMachine(c)
  <2>1. PICK m \in rack : Begin(c, Call("read", "remove", m, 0, {}, {}))
    BY <1>5 DEF removeMachine
  <2> DEFINE q == Call("read", "remove", m, 0, {}, {})
  <2>2. /\ q.pc = "read" /\ q.op = "remove" /\ q.row = m /\ q.others = {}
        /\ q = Call(q.pc, q.op, q.row, q.slot, q.others, q.seen)
    BY DEF Call
  <2>3. call'[c] = q /\ inventory' = inventory /\ rack' = rack /\ UNCHANGED <<catalogue, owned>>
    BY <1>2, <2>1
  <2>4. Begin(c, q)
    BY <2>1
  <2> HIDE DEF q
  <2>5. KnowsRows(c)'
    BY <2>2, <2>3 DEF KnowsRows, KeptInv, RowsAreKept, One, UnitsOf, Items, Installed, Models, Slots
  <2> QED
    BY <1>1, <2>2, <2>4, <2>5
<1>6. CASE toggleMachine(c)
  <2>1. PICK m \in rack : Begin(c, Call("read", "toggle", [m EXCEPT !.on = ~m.on], 0, {}, {}))
    BY <1>6 DEF toggleMachine
  <2> DEFINE q == Call("read", "toggle", [m EXCEPT !.on = ~m.on], 0, {}, {})
  <2>2. /\ q.pc = "read" /\ q.op = "toggle" /\ q.row = [m EXCEPT !.on = ~m.on] /\ q.others = {}
        /\ q = Call(q.pc, q.op, q.row, q.slot, q.others, q.seen)
    BY DEF Call
  <2>3. call'[c] = q /\ inventory' = inventory /\ rack' = rack /\ UNCHANGED <<catalogue, owned>>
    BY <1>2, <2>1
  <2>4. Begin(c, q)
    BY <2>1
  <2>5. q.row \in Installed
    <3>1. m \in Installed
      BY DEF KeptInv, RowsAreKept
    <3>2. [m EXCEPT !.on = ~m.on] \in Installed
      BY <3>1 DEF Installed
    <3> QED
      BY <2>2, <3>2
  <2> HIDE DEF q
  <2>6. KnowsRows(c)'
    BY <2>2, <2>3, <2>5 DEF KnowsRows, One, UnitsOf, Installed, Models, Slots
  <2> QED
    BY <1>1, <2>2, <2>4, <2>6
<1>7. CASE deleteMiner(c)
  <2>1. PICK m \in Models : Begin(c, Call("read", "delete", Item(None, m, PulseStats), 0, {}, {}))
    BY <1>7 DEF deleteMiner
  <2> DEFINE q == Call("read", "delete", Item(None, m, PulseStats), 0, {}, {})
  <2>2. /\ q.pc = "read" /\ q.op = "delete" /\ q.others = {}
        /\ q = Call(q.pc, q.op, q.row, q.slot, q.others, q.seen)
    BY DEF Call
  <2>3. call'[c] = q
    BY <1>2, <2>1
  <2>4. Begin(c, q)
    BY <2>1
  <2> HIDE DEF q
  <2>5. KnowsRows(c)'
    BY <2>2, <2>3 DEF KnowsRows, One, UnitsOf
  <2> QED
    BY <1>1, <2>2, <2>4, <2>5
<1>8. CASE reloadMinerProfile(c)
  <2>1. Begin(c, Loading)
    BY <1>8 DEF reloadMinerProfile
  <2>2. /\ Loading.pc # "read" /\ Loading.op \notin {"buy", "grant", "pay"}
        /\ Loading = Call(Loading.pc, Loading.op, Loading.row, Loading.slot, Loading.others, Loading.seen)
    BY DEF Call, Loading
  <2>3. KnowsRows(c)'
    BY <1>2, <2>1, <2>2 DEF KnowsRows
  <2> QED
    BY <1>1, <2>1, <2>2, <2>3
<1> QED
  BY <1>3, <1>4, <1>5, <1>6, <1>7, <1>8

\* A purchase or a grant reads its model's row.
LEMMA ReadModelKeeps ==
    ASSUME KeptInv, NEW c \in Calls, NEW op \in {"buy", "grant"}, ReadModel(c, op)
    PROVE  KeptInv'
<1>1. PICK u \in Unused :
        /\ ModelOf[u] # None /\ catalogue[ModelOf[u]] # None
        /\ Begin(c, Call("read", op, Item(u, ModelOf[u], catalogue[ModelOf[u]]), 0, {}, {}))
  BY DEF ReadModel
<1> DEFINE i == Item(u, ModelOf[u], catalogue[ModelOf[u]])
           q == Call("read", op, i, 0, {}, {})
<1>2. /\ q.pc = "read" /\ q.op = op /\ q.row = i /\ q.others = {}
      /\ q = Call(q.pc, q.op, q.row, q.slot, q.others, q.seen)
  BY DEF Call
<1>3. i \in Items /\ i.unit = u
  <2>1. ModelOf[u] \in Models /\ u \in Units
    BY <1>1 DEF Models, Unused
  <2>2. catalogue[ModelOf[u]] \in [hash : Nat, size : {1, 2}]
    BY <1>1, <2>1, MachinesAssumption DEF KeptInv
  <2> QED
    BY <2>1, <2>2 DEF Item, Items
<1>4. u \notin owned /\ \A d \in Calls : Giving(d) => call[d].row.unit # u
  BY <1>1 DEF Unused, Busy, Giving
<1>5. /\ call' = [call EXCEPT ![c] = q] /\ Deletes(c, {}) /\ UNCHANGED machinesTables
      /\ call'[c] = q /\ call[c].pc = "idle"
  BY <1>1 DEF Begin, Enter, KeptInv, CallsAreCalls
<1> HIDE DEF q, i
<1>6. KnowsRows(c)'
  BY <1>2, <1>3, <1>5 DEF KnowsRows, One, UnitsOf, Items, Models
<1> QED
  BY <1>2, <1>3, <1>4, <1>5, <1>6, RowsUntouched

LEMMA GoesOnKeeps ==
    ASSUME KeptInv, NEW c \in Calls,
           PurchaseChecks(c) \/ LoadProfile(c) \/ LoadFails(c) \/ ApplyProfile(c)
    PROVE  KeptInv'
<1>1. CASE LoadProfile(c) \/ LoadFails(c) \/ ApplyProfile(c)
  <2>1. PICK q \in {NoCall, Call("apply", "none", NoRow, 0, {}, Active)} :
          /\ call' = [call EXCEPT ![c] = q] /\ Deletes(c, {}) /\ UNCHANGED machinesTables
    BY <1>1 DEF LoadProfile, LoadFails, ApplyProfile, Step
  <2>2. q.pc # "read" /\ q = Call(q.pc, q.op, q.row, q.slot, q.others, q.seen)
    BY DEF Call, NoCall
  <2>3. call'[c] = q
    BY <2>1 DEF KeptInv, CallsAreCalls
  <2>4. ~Giving(c)' /\ KnowsRows(c)'
    BY <2>2, <2>3 DEF Giving, KnowsRows
  <2> QED
    BY <2>1, <2>2, <2>4, RowsUntouched
<1>2. CASE PurchaseChecks(c)
  <2> DEFINE q == IF HasFunds(c) THEN [call[c] EXCEPT !.op = "pay"] ELSE NoCall
  <2>1. /\ call' = [call EXCEPT ![c] = q] /\ Deletes(c, {}) /\ UNCHANGED machinesTables
        /\ call[c].pc = "read" /\ call[c].op = "buy"
        /\ inventory' = inventory /\ rack' = rack /\ UNCHANGED <<catalogue, owned>>
    BY <1>2 DEF PurchaseChecks, Step, Reads, machinesTables
  <2>2. call'[c] = q
    BY <2>1 DEF KeptInv, CallsAreCalls
  <2>3. CASE HasFunds(c)
    <3>1. q = Call("read", "pay", call[c].row, call[c].slot, call[c].others, call[c].seen)
      BY <2>1, <2>3 DEF KeptInv, CallsAreCalls, Call
    <3>2. /\ q.pc = "read" /\ q.op = "pay" /\ q.row = call[c].row /\ q.others = call[c].others
          /\ q = Call(q.pc, q.op, q.row, q.slot, q.others, q.seen)
      BY <3>1 DEF Call
    <3>3. KnowsRows(c) /\ Giving(c)
      BY <2>1 DEF KeptInv, Giving
    <3>4. /\ q.row \in Items /\ q.others = {} /\ q.row.unit \notin owned
          /\ \A d \in Calls \ {c} : Giving(d) => call[d].row.unit # q.row.unit
      BY <2>1, <3>2, <3>3 DEF KeptInv, GiftsAreNew, KnowsRows
    <3> HIDE DEF q
    <3>5. KnowsRows(c)'
      BY <2>1, <2>2, <3>2, <3>4 DEF KnowsRows, One, UnitsOf, Items, Models
    <3> QED
      BY <2>1, <2>2, <3>2, <3>4, <3>5, RowsUntouched
  <2>4. CASE ~HasFunds(c)
    <3>1. q = NoCall
      BY <2>4
    <3>2. /\ q.pc # "read"
          /\ q = Call(q.pc, q.op, q.row, q.slot, q.others, q.seen)
      BY <3>1 DEF NoCall, Call
    <3> HIDE DEF q
    <3>3. ~Giving(c)' /\ KnowsRows(c)'
      BY <2>2, <3>2 DEF Giving, KnowsRows
    <3> QED
      BY <2>1, <3>2, <3>3, RowsUntouched
  <2> QED
    BY <2>3, <2>4
<1> QED
  BY <1>1, <1>2

-----------------------------------------------------------------------------
(* The transactions.                                                        *)

LEMMA StoredIsItem ==
    ASSUME NEW m \in Installed
    PROVE  Stored(m) \in Items /\ Stored(m).unit = m.unit
  BY DEF Stored, Item, Items, Installed

LEMMA PutBackRows ==
    ASSUME NEW out \in SUBSET Installed, One(out)
    PROVE  PutBack(out) \subseteq Items /\ One(PutBack(out)) /\ UnitsOf(PutBack(out)) = UnitsOf(out)
<1>1. \A m \in out : Stored(m) \in Items /\ Stored(m).unit = m.unit
  BY StoredIsItem
<1>2. PutBack(out) \subseteq Items
  BY <1>1 DEF PutBack
<1>3. One(PutBack(out))
  BY <1>1 DEF PutBack, One
<1>4. UnitsOf(PutBack(out)) = UnitsOf(out)
  BY <1>1 DEF PutBack, UnitsOf
<1> QED
  BY <1>2, <1>3, <1>4

\* The machines that a transaction takes out of the rack.
LEMMA OutIsInstalled ==
    ASSUME RowsAreKept, NEW others \in SUBSET Installed, One(others),
           UnitsOf(others) \subseteq UnitsOf(rack),
           NEW s, NEW taken, UnitsOf(others) \subseteq taken
    PROVE  LET out == others \cup Previous(s, taken) IN
           out \in SUBSET Installed /\ One(out) /\ UnitsOf(out) \subseteq UnitsOf(rack)
<1>1. Previous(s, taken) \subseteq rack /\ \A m \in Previous(s, taken) : m.unit \notin taken
  BY DEF Previous
<1>2. \A m \in others : m.unit \in taken
  BY DEF UnitsOf
<1>3. One(others \cup Previous(s, taken))
  BY <1>1, <1>2 DEF RowsAreKept, One
<1> QED
  BY <1>1, <1>3 DEF RowsAreKept, UnitsOf

LEMMA InstallKeeps ==
    ASSUME KeptInv, NEW c \in Calls, InstallCommits(c)
    PROVE  KeptInv'
<1> DEFINE q == call[c]
           out == q.others \cup Previous(q.slot, UnitsOf(q.others))
           left == {m \in rack : m.unit \notin UnitsOf(out)}
           U == UnitsOf(out) \cup {q.row.unit}
           machine == Machine(q.row, q.slot)
<1>1. CASE RollsBack(c)
  BY <1>1, RollsBackKeeps
<1>2. CASE ~RollsBack(c)
  <2>1. /\ Reads(c, "install")
        /\ (UnitsOf(q.others) \cup {q.row.unit}) \cap gone[c] = {}
        /\ Commits(c, left \cup {machine},
                   {i \in inventory : i.unit # q.row.unit} \cup PutBack(out), Loading, U)
    BY <1>2 DEF InstallCommits
  <2>2. /\ q.row \in Items /\ q.slot \in Slots /\ q.row.unit \in UnitsOf(inventory)
        /\ q.others \in SUBSET Installed /\ One(q.others) /\ UnitsOf(q.others) \subseteq UnitsOf(rack)
    BY <2>1 DEF KeptInv, KnowsRows, Reads
  <2>3. out \in SUBSET Installed /\ One(out) /\ UnitsOf(out) \subseteq UnitsOf(rack)
    BY <2>2, OutIsInstalled DEF KeptInv
  <2>4. PutBack(out) \subseteq Items /\ One(PutBack(out)) /\ UnitsOf(PutBack(out)) = UnitsOf(out)
    BY <2>3, PutBackRows
  <2>5. machine \in Installed /\ machine.unit = q.row.unit
    BY <2>2 DEF Machine, Items, Installed
  <2>6. /\ rack' = left \cup {machine}
        /\ inventory' = {i \in inventory : i.unit # q.row.unit} \cup PutBack(out)
        /\ call' = [call EXCEPT ![c] = Loading] /\ Deletes(c, U) /\ UNCHANGED <<catalogue, owned>>
    BY <2>1 DEF Commits, Step
  <2>7. q.row.unit \notin UnitsOf(rack)
    BY <2>2 DEF KeptInv, RowsAreKept
  <2> HIDE DEF q, out, machine
  <2>8. inventory' \subseteq Items /\ rack' \subseteq Installed
    BY <2>4, <2>5, <2>6 DEF KeptInv, RowsAreKept
  <2>9. One(inventory') /\ One(rack')
    <3>1. \A m \in left : m.unit \in UnitsOf(rack)
      BY DEF UnitsOf
    <3>2. One(rack')
      BY <2>5, <2>6, <2>7, <3>1 DEF KeptInv, RowsAreKept, One
    <3>3. \A i \in inventory, j \in PutBack(out) : i.unit # j.unit
      BY <2>3, <2>4 DEF KeptInv, RowsAreKept, UnitsOf
    <3>4. One(inventory')
      BY <2>4, <2>6, <3>3 DEF KeptInv, RowsAreKept, One
    <3> QED
      BY <3>2, <3>4
  <2>10. /\ UnitsOf(rack)' = (UnitsOf(rack) \ UnitsOf(out)) \cup {q.row.unit}
         /\ UnitsOf(inventory)' = (UnitsOf(inventory) \ {q.row.unit}) \cup UnitsOf(out)
    <3> DEFINE kept == {i \in inventory : i.unit # q.row.unit}
    <3>1. UnitsOf(left) = UnitsOf(rack) \ UnitsOf(out)
      BY DEF UnitsOf
    <3>2. UnitsOf(kept) = UnitsOf(inventory) \ {q.row.unit}
      BY DEF UnitsOf
    <3>3. rack' = left \cup {machine} /\ inventory' = kept \cup PutBack(out)
      BY <2>6
    <3> HIDE DEF left, kept
    <3>4. UnitsOf(rack)' = UnitsOf(left) \cup {machine.unit}
      BY <3>3 DEF UnitsOf
    <3>5. UnitsOf(inventory)' = UnitsOf(kept) \cup UnitsOf(PutBack(out))
      BY <3>3 DEF UnitsOf
    <3> QED
      BY <2>4, <2>5, <3>1, <3>2, <3>4, <3>5
  <2>11. RowsAreKept'
    <3>1. /\ UnitsOf(inventory) \cap UnitsOf(rack) = {}
          /\ UnitsOf(inventory) \cup UnitsOf(rack) = owned
      BY DEF KeptInv, RowsAreKept
    <3>2. /\ UnitsOf(inventory)' \cap UnitsOf(rack)' = {}
          /\ UnitsOf(inventory)' \cup UnitsOf(rack)' = owned'
      BY <2>2, <2>3, <2>6, <2>7, <2>10, <3>1
    <3> QED
      BY <2>8, <2>9, <3>2 DEF RowsAreKept, Items, Installed, Models, Slots, One
  <2> HIDE DEF left, U
  <2>12. UnitsOf(inventory) \subseteq UnitsOf(inventory)' \cup U /\ UnitsOf(rack) \subseteq UnitsOf(rack)' \cup U
    BY <2>10 DEF U
  <2> QED
    BY <2>6, <2>11, <2>12, RowsRewritten DEF KeptInv, Models
<1> QED
  BY <1>1, <1>2

LEMMA MoveKeeps ==
    ASSUME KeptInv, NEW c \in Calls, MoveCommits(c)
    PROVE  KeptInv'
<1> DEFINE q == call[c]
           self == q.row.unit
           out == q.others \cup Previous(q.slot, UnitsOf(q.others) \cup {self})
           left == {m \in rack : m.unit \notin UnitsOf(out) \cup {self}}
<1>1. CASE RollsBack(c)
  BY <1>1, RollsBackKeeps
<1>2. CASE ~RollsBack(c)
  <2>1. /\ Reads(c, "move")
        /\ (UnitsOf(q.others) \cup {self}) \cap gone[c] = {}
        /\ Commits(c, left \cup {[m EXCEPT !.slot = q.slot] : m \in {x \in rack : x.unit = self}},
                   inventory \cup PutBack(out), Loading, UnitsOf(out))
    BY <1>2 DEF MoveCommits
  <2>2. /\ q.slot \in Slots /\ self \in UnitsOf(rack) /\ self \notin UnitsOf(q.others)
        /\ q.others \in SUBSET Installed /\ One(q.others) /\ UnitsOf(q.others) \subseteq UnitsOf(rack)
    BY <2>1 DEF KeptInv, KnowsRows, Reads
  <2>3. out \in SUBSET Installed /\ One(out) /\ UnitsOf(out) \subseteq UnitsOf(rack)
    BY <2>2, OutIsInstalled DEF KeptInv
  <2>4. self \notin UnitsOf(out)
    BY <2>2 DEF UnitsOf, Previous
  <2>5. PutBack(out) \subseteq Items /\ One(PutBack(out)) /\ UnitsOf(PutBack(out)) = UnitsOf(out)
    BY <2>3, PutBackRows
  <2>6. PICK old \in rack : old.unit = self
    BY <2>2 DEF UnitsOf
  <2> DEFINE moved == [old EXCEPT !.slot = q.slot]
  <2>7. moved \in Installed /\ moved.unit = self
    <3>1. old \in Installed
      BY DEF KeptInv, RowsAreKept
    <3> QED
      BY <2>2, <2>6, <3>1 DEF Installed
  <2>8. {x \in rack : x.unit = self} = {old}
    BY <2>6 DEF KeptInv, RowsAreKept, One
  <2>9. /\ rack' = left \cup {moved}
        /\ inventory' = inventory \cup PutBack(out)
        /\ call' = [call EXCEPT ![c] = Loading] /\ Deletes(c, UnitsOf(out)) /\ UNCHANGED <<catalogue, owned>>
    BY <2>1, <2>8 DEF Commits, Step
  <2> HIDE DEF out, moved
  <2>10. /\ inventory' \subseteq Items /\ rack' \subseteq Installed
    BY <2>5, <2>7, <2>9 DEF KeptInv, RowsAreKept
  <2>11. One(inventory') /\ One(rack')
    <3>1. One(rack')
      BY <2>7, <2>9 DEF KeptInv, RowsAreKept, One
    <3>2. \A i \in inventory, j \in PutBack(out) : i.unit # j.unit
      BY <2>3, <2>5 DEF KeptInv, RowsAreKept, UnitsOf
    <3>3. One(inventory')
      BY <2>5, <2>9, <3>2 DEF KeptInv, RowsAreKept, One
    <3> QED
      BY <3>1, <3>3
  <2>12. /\ UnitsOf(rack)' = UnitsOf(rack) \ UnitsOf(out)
         /\ UnitsOf(inventory)' = UnitsOf(inventory) \cup UnitsOf(out)
    <3>1. UnitsOf(left) = UnitsOf(rack) \ (UnitsOf(out) \cup {self})
      BY DEF UnitsOf
    <3>2. rack' = left \cup {moved}
      BY <2>9
    <3> HIDE DEF left
    <3>3. UnitsOf(rack)' = UnitsOf(left) \cup {moved.unit}
      BY <3>2 DEF UnitsOf
    <3>4. UnitsOf(inventory)' = UnitsOf(inventory) \cup UnitsOf(PutBack(out))
      BY <2>9 DEF UnitsOf
    <3> QED
      BY <2>2, <2>4, <2>5, <2>7, <3>1, <3>3, <3>4
  <2>13. RowsAreKept'
    <3>1. /\ UnitsOf(inventory) \cap UnitsOf(rack) = {}
          /\ UnitsOf(inventory) \cup UnitsOf(rack) = owned
      BY DEF KeptInv, RowsAreKept
    <3>2. /\ UnitsOf(inventory)' \cap UnitsOf(rack)' = {}
          /\ UnitsOf(inventory)' \cup UnitsOf(rack)' = owned'
      BY <2>3, <2>9, <2>12, <3>1
    <3> QED
      BY <2>10, <2>11, <3>2 DEF RowsAreKept, Items, Installed, Models, Slots, One
  <2>14. /\ UnitsOf(inventory) \subseteq UnitsOf(inventory)' \cup UnitsOf(out)
         /\ UnitsOf(rack) \subseteq UnitsOf(rack)' \cup UnitsOf(out)
    BY <2>12
  <2> QED
    BY <2>9, <2>13, <2>14, RowsRewritten DEF KeptInv, Models
<1> QED
  BY <1>1, <1>2

LEMMA RemoveKeeps ==
    ASSUME KeptInv, NEW c \in Calls, RemoveCommits(c)
    PROVE  KeptInv'
<1> DEFINE m == call[c].row
           left == {x \in rack : x.unit # m.unit}
<1>1. CASE RollsBack(c)
  BY <1>1, RollsBackKeeps
<1>2. CASE ~RollsBack(c)
  <2>1. /\ Reads(c, "remove") /\ m.unit \notin gone[c]
        /\ rack' = left
        /\ inventory' = inventory \cup {Stored(m)}
        /\ call' = [call EXCEPT ![c] = Loading] /\ Deletes(c, {m.unit}) /\ UNCHANGED <<catalogue, owned>>
    BY <1>2 DEF RemoveCommits, Commits, Step
  <2>2. m \in Installed /\ m.unit \in UnitsOf(rack)
    BY <2>1 DEF KeptInv, KnowsRows, Reads
  <2>3. Stored(m) \in Items /\ Stored(m).unit = m.unit
    BY <2>2, StoredIsItem
  <2> HIDE DEF m
  <2>4. m.unit \notin UnitsOf(inventory)
    BY <2>2 DEF KeptInv, RowsAreKept
  <2>5. /\ UnitsOf(rack)' = UnitsOf(rack) \ {m.unit}
        /\ UnitsOf(inventory)' = UnitsOf(inventory) \cup {m.unit}
    BY <2>1, <2>3 DEF UnitsOf
  <2>6. RowsAreKept'
    <3>1. /\ UnitsOf(inventory) \cap UnitsOf(rack) = {}
          /\ UnitsOf(inventory) \cup UnitsOf(rack) = owned
      BY DEF KeptInv, RowsAreKept
    <3>2. /\ UnitsOf(inventory)' \cap UnitsOf(rack)' = {}
          /\ UnitsOf(inventory)' \cup UnitsOf(rack)' = owned'
      BY <2>1, <2>2, <2>5, <3>1
    <3>3. /\ inventory' \subseteq Items /\ rack' \subseteq Installed
      BY <2>1, <2>3 DEF KeptInv, RowsAreKept
    <3>4. One(inventory') /\ One(rack')
      BY <2>1, <2>3, <2>4 DEF KeptInv, RowsAreKept, One, UnitsOf
    <3> QED
      BY <3>2, <3>3, <3>4 DEF RowsAreKept, Items, Installed, Models, Slots, One
  <2>7. UnitsOf(inventory) \subseteq UnitsOf(inventory)' \cup {m.unit} /\ UnitsOf(rack) \subseteq UnitsOf(rack)' \cup {m.unit}
    BY <2>5
  <2> QED
    BY <2>1, <2>6, <2>7, RowsRewritten DEF KeptInv, Models
<1> QED
  BY <1>1, <1>2

\* Rows that are changed and stay what they are of.
LEMMA RowsRestated ==
    ASSUME KeptInv, NEW c \in Calls, NEW q \in {NoCall, Loading},
           call' = [call EXCEPT ![c] = q], Deletes(c, {}),
           catalogue' \in [Models -> Stats \cup {None}], owned' = owned,
           inventory' \subseteq Items, rack' \subseteq Installed,
           One(inventory'), One(rack'),
           UnitsOf(inventory)' = UnitsOf(inventory), UnitsOf(rack)' = UnitsOf(rack)
    PROVE  KeptInv'
<1>1. RowsAreKept'
  BY DEF KeptInv, RowsAreKept, Items, Installed, Models, Slots, One
<1> QED
  BY <1>1, RowsRewritten

LEMMA ToggleKeeps ==
    ASSUME KeptInv, NEW c \in Calls, ToggleCommits(c)
    PROVE  KeptInv'
<1> DEFINE m == call[c].row
           on(x) == IF x.unit = m.unit THEN [x EXCEPT !.on = m.on] ELSE x
<1>1. CASE RollsBack(c)
  BY <1>1, RollsBackKeeps
<1>2. CASE ~RollsBack(c)
  <2>1. /\ Reads(c, "toggle") /\ rack' = {on(x) : x \in rack} /\ inventory' = inventory
        /\ call' = [call EXCEPT ![c] = Loading] /\ Deletes(c, {}) /\ UNCHANGED <<catalogue, owned>>
    BY <1>2 DEF ToggleCommits, Commits, Step, Switched
  <2>2. m \in Installed
    BY <2>1 DEF KeptInv, KnowsRows, Reads
  <2>3. ASSUME NEW x \in rack PROVE on(x) \in Installed /\ on(x).unit = x.unit
    <3>1. x \in Installed /\ m.on \in BOOLEAN
      BY <2>2 DEF KeptInv, RowsAreKept, Installed
    <3> QED
      BY <3>1 DEF Installed
  <2> HIDE DEF on
  <2>4. rack' \subseteq Installed /\ One(rack') /\ UnitsOf(rack)' = UnitsOf(rack)
    BY <2>1, <2>3 DEF KeptInv, RowsAreKept, One, UnitsOf
  <2>5. inventory' \subseteq Items /\ One(inventory') /\ UnitsOf(inventory)' = UnitsOf(inventory)
    BY <2>1 DEF KeptInv, RowsAreKept, UnitsOf
  <2> QED
    BY <2>1, <2>4, <2>5, RowsRestated DEF KeptInv, Models
<1> QED
  BY <1>1, <1>2

LEMMA DiscardKeeps ==
    ASSUME KeptInv, NEW c \in Calls, removeInventoryItem(c)
    PROVE  KeptInv'
<1>1. PICK i \in inventory :
        /\ call' = [call EXCEPT ![c] = NoCall] /\ Deletes(c, {i.unit})
        /\ inventory' = inventory \ {i} /\ owned' = owned \ {i.unit}
        /\ UNCHANGED <<catalogue, rack>>
  BY DEF removeInventoryItem, Enter
<1>2. /\ UnitsOf(inventory)' = UnitsOf(inventory) \ {i.unit} /\ UnitsOf(rack)' = UnitsOf(rack)
      /\ i.unit \in UnitsOf(inventory)
  BY <1>1 DEF KeptInv, RowsAreKept, One, UnitsOf
<1>3. RowsAreKept'
  <2>1. /\ UnitsOf(inventory) \cap UnitsOf(rack) = {}
        /\ UnitsOf(inventory) \cup UnitsOf(rack) = owned
    BY DEF KeptInv, RowsAreKept
  <2>2. /\ UnitsOf(inventory)' \cap UnitsOf(rack)' = {}
        /\ UnitsOf(inventory)' \cup UnitsOf(rack)' = owned'
    BY <1>1, <1>2, <2>1
  <2> QED
    BY <1>1, <2>2 DEF KeptInv, RowsAreKept, Items, Installed, Models, Slots, One
<1>4. UnitsOf(inventory) \subseteq UnitsOf(inventory)' \cup {i.unit} /\ UnitsOf(rack) \subseteq UnitsOf(rack)' \cup {i.unit}
  BY <1>2
<1> QED
  BY <1>1, <1>3, <1>4, RowsRewritten DEF KeptInv, Models

\* A machine enters the inventory.
LEMMA ArrivalKeeps ==
    ASSUME KeptInv, NEW c \in Calls, NEW i \in Items, i.unit \notin owned,
           \A d \in Calls \ {c} : Giving(d) => call[d].row.unit # i.unit,
           call' = [call EXCEPT ![c] = NoCall], Deletes(c, {}),
           inventory' = inventory \cup {i}, owned' = owned \cup {i.unit},
           UNCHANGED <<catalogue, rack>>
    PROVE  KeptInv'
<1>1. /\ UnitsOf(inventory)' = UnitsOf(inventory) \cup {i.unit} /\ UnitsOf(rack)' = UnitsOf(rack)
  BY DEF UnitsOf
<1>2. RowsAreKept'
  <2>1. /\ UnitsOf(inventory) \cap UnitsOf(rack) = {}
        /\ UnitsOf(inventory) \cup UnitsOf(rack) = owned
    BY DEF KeptInv, RowsAreKept
  <2>2. /\ UnitsOf(inventory)' \cap UnitsOf(rack)' = {}
        /\ UnitsOf(inventory)' \cup UnitsOf(rack)' = owned'
    BY <1>1, <2>1
  <2>3. One(inventory')
    BY <2>1 DEF KeptInv, RowsAreKept, One, UnitsOf
  <2> QED
    BY <2>2, <2>3 DEF KeptInv, RowsAreKept, Items, Installed, Models, Slots, One
<1>3. NoCall.pc # "read"
      /\ NoCall = Call(NoCall.pc, NoCall.op, NoCall.row, NoCall.slot, NoCall.others, NoCall.seen)
  BY DEF NoCall, Call
<1>4. call'[c] = NoCall
  BY DEF KeptInv, CallsAreCalls
<1>5. ~Giving(c)' /\ KnowsRows(c)'
  BY <1>3, <1>4 DEF Giving, KnowsRows
<1>6. \A d \in Calls \ {c} : Giving(d) => call[d].row.unit \notin owned'
  BY DEF KeptInv, GiftsAreNew
<1>7. catalogue' \in [Models -> Stats \cup {None}]
  BY DEF KeptInv, Models
<1> QED
  BY <1>1, <1>2, <1>3, <1>5, <1>6, <1>7, OthersKnow

LEMMA GiftKeeps ==
    ASSUME KeptInv, NEW c \in Calls, PurchaseCommits(c) \/ GrantCommits(c) \/ PulseArrives(c)
    PROVE  KeptInv'
<1>1. CASE RollsBack(c)
  BY <1>1, RollsBackKeeps
<1>2. CASE ~RollsBack(c) /\ (PurchaseCommits(c) \/ GrantCommits(c))
  <2> DEFINE i == call[c].row
  <2>1. /\ Giving(c)
        /\ call' = [call EXCEPT ![c] = NoCall] /\ Deletes(c, {})
        /\ inventory' = inventory \cup {i} /\ owned' = owned \cup {i.unit}
        /\ UNCHANGED <<catalogue, rack>>
    BY <1>2 DEF PurchaseCommits, GrantCommits, Gives, Step, Reads, Giving
  <2>2. i \in Items /\ i.unit \notin owned
        /\ \A d \in Calls \ {c} : Giving(d) => call[d].row.unit # i.unit
    BY <2>1 DEF KeptInv, KnowsRows, GiftsAreNew, Giving
  <2> HIDE DEF i
  <2> QED
    BY <2>1, <2>2, ArrivalKeeps
<1>3. CASE PulseArrives(c)
  <2>1. PICK u \in Unused :
          /\ call' = [call EXCEPT ![c] = NoCall] /\ Deletes(c, {})
          /\ inventory' = inventory \cup {Item(u, None, PulseStats)} /\ owned' = owned \cup {u}
          /\ UNCHANGED <<catalogue, rack>>
    BY <1>3 DEF PulseArrives, Enter
  <2> DEFINE i == Item(u, None, PulseStats)
  <2>2. i \in Items /\ i.unit = u
    BY DEF Item, Items, PulseStats, Unused
  <2>3. u \notin owned /\ \A d \in Calls \ {c} : Giving(d) => call[d].row.unit # u
    BY DEF Unused, Busy, Giving
  <2> HIDE DEF i
  <2> QED
    BY <2>1, <2>2, <2>3, ArrivalKeeps DEF i
<1> QED
  BY <1>1, <1>2, <1>3

LEMMA CatalogueKeeps ==
    ASSUME KeptInv, NEW c \in Calls, updateMiner(c) \/ DeleteCommits(c)
    PROVE  KeptInv'
<1>1. CASE updateMiner(c)
  <2>1. PICK m \in Models, st \in Stats :
          /\ \E q \in {NoCall, Loading} : call' = [call EXCEPT ![c] = q]
          /\ Deletes(c, {})
          /\ catalogue' = [catalogue EXCEPT ![m] = st]
          /\ rack' = Restated(rack, m, st)
          /\ inventory' = Restated(inventory, m, st)
          /\ owned' = owned
    BY <1>1 DEF updateMiner, Enter, Propagated
  <2> DEFINE g(r) == IF r.model = m THEN [r EXCEPT !.hash = st.hash, !.size = st.size] ELSE r
  <2>2. st.hash \in Nat /\ st.size \in {1, 2}
    BY MachinesAssumption
  <2>3. ASSUME NEW x \in rack PROVE g(x) \in Installed /\ g(x).unit = x.unit
    BY <2>2 DEF KeptInv, RowsAreKept, Installed
  <2>4. ASSUME NEW x \in inventory PROVE g(x) \in Items /\ g(x).unit = x.unit
    BY <2>2 DEF KeptInv, RowsAreKept, Items
  <2>5. rack' = {g(x) : x \in rack} /\ inventory' = {g(x) : x \in inventory}
    BY <2>1 DEF Restated
  <2> HIDE DEF g
  <2>6. rack' \subseteq Installed /\ One(rack') /\ UnitsOf(rack)' = UnitsOf(rack)
    BY <2>3, <2>5 DEF KeptInv, RowsAreKept, One, UnitsOf
  <2>7. inventory' \subseteq Items /\ One(inventory') /\ UnitsOf(inventory)' = UnitsOf(inventory)
    BY <2>4, <2>5 DEF KeptInv, RowsAreKept, One, UnitsOf
  <2>8. catalogue' \in [Models -> Stats \cup {None}]
    BY <2>1 DEF KeptInv
  <2> QED
    BY <2>1, <2>6, <2>7, <2>8, RowsRestated
<1>2. CASE RollsBack(c)
  BY <1>2, RollsBackKeeps
<1>3. CASE DeleteCommits(c) /\ ~RollsBack(c)
  <2> DEFINE m == call[c].row.model
             g(r) == IF r.model = m THEN [r EXCEPT !.model = None] ELSE r
  <2>1. /\ call' = [call EXCEPT ![c] = NoCall] /\ Deletes(c, {})
        /\ catalogue' = [catalogue EXCEPT ![m] = None]
        /\ rack' = {g(x) : x \in rack} /\ inventory' = {g(x) : x \in inventory}
        /\ owned' = owned
    BY <1>3 DEF DeleteCommits, Step, Unnamed
  <2>2. ASSUME NEW x \in rack PROVE g(x) \in Installed /\ g(x).unit = x.unit
    BY DEF KeptInv, RowsAreKept, Installed
  <2>3. ASSUME NEW x \in inventory PROVE g(x) \in Items /\ g(x).unit = x.unit
    BY DEF KeptInv, RowsAreKept, Items
  <2> HIDE DEF g
  <2>4. rack' \subseteq Installed /\ One(rack') /\ UnitsOf(rack)' = UnitsOf(rack)
    BY <2>1, <2>2 DEF KeptInv, RowsAreKept, One, UnitsOf
  <2>5. inventory' \subseteq Items /\ One(inventory') /\ UnitsOf(inventory)' = UnitsOf(inventory)
    BY <2>1, <2>3 DEF KeptInv, RowsAreKept, One, UnitsOf
  <2>6. catalogue' \in [Models -> Stats \cup {None}]
    BY <2>1 DEF KeptInv
  <2> QED
    BY <2>1, <2>4, <2>5, <2>6, RowsRestated
<1> QED
  BY <1>1, <1>2, <1>3

\* Every step keeps the rows: one case for each kind of request.
LEMMA KeptStep == KeptInv /\ [MachinesNext]_machinesVars => KeptInv'
<1> SUFFICES ASSUME KeptInv, [MachinesNext]_machinesVars PROVE KeptInv'
  OBVIOUS
<1>1. CASE UNCHANGED machinesVars
  BY <1>1 DEF machinesVars, machinesTables, KeptInv, RowsAreKept, GiftsAreNew, Giving, CallsAreCalls,
     KnowsRows, UnitsOf, Items, Installed, Models, Slots, One
<1>2. ASSUME NEW c \in Calls,
             \/ installInventoryItem(c) \/ moveMachine(c) \/ removeMachine(c) \/ toggleMachine(c)
             \/ deleteMiner(c) \/ reloadMinerProfile(c)
      PROVE  KeptInv'
  BY <1>2, BeginsKeeps
<1>3. ASSUME NEW c \in Calls, InstallCommits(c) \/ MoveCommits(c) \/ RemoveCommits(c) \/ ToggleCommits(c)
      PROVE  KeptInv'
  BY <1>3, InstallKeeps, MoveKeeps, RemoveKeeps, ToggleKeeps
<1>4. ASSUME NEW c \in Calls, purchaseMiner(c) \/ grantMinerInventoryToAllUsers(c)
      PROVE  KeptInv'
  BY <1>4, ReadModelKeeps DEF purchaseMiner, grantMinerInventoryToAllUsers
<1>5. ASSUME NEW c \in Calls,
             PurchaseChecks(c) \/ LoadProfile(c) \/ LoadFails(c) \/ ApplyProfile(c)
      PROVE  KeptInv'
  BY <1>5, GoesOnKeeps
<1>6. ASSUME NEW c \in Calls, removeInventoryItem(c) PROVE KeptInv'
  BY <1>6, DiscardKeeps
<1>7. ASSUME NEW c \in Calls, PurchaseCommits(c) \/ GrantCommits(c) \/ PulseArrives(c)
      PROVE  KeptInv'
  BY <1>7, GiftKeeps
<1>8. ASSUME NEW c \in Calls, updateMiner(c) \/ DeleteCommits(c) PROVE KeptInv'
  BY <1>8, CatalogueKeeps
<1> QED
  BY <1>1, <1>2, <1>3, <1>4, <1>5, <1>6, <1>7, <1>8 DEF MachinesNext, listMachines

-----------------------------------------------------------------------------
(* The theorem.                                                             *)

LEMMA RowsOfOne ==
    ASSUME NEW rows, One(rows), NEW u
    PROVE  Cardinality({r \in rows : r.unit = u}) = IF u \in UnitsOf(rows) THEN 1 ELSE 0
<1>1. CASE u \in UnitsOf(rows)
  <2>1. PICK r \in rows : r.unit = u
    BY <1>1 DEF UnitsOf
  <2>2. {x \in rows : x.unit = u} = {r}
    BY <2>1 DEF One
  <2> QED
    BY <1>1, <2>2, FS_Singleton
<1>2. CASE u \notin UnitsOf(rows)
  <2>1. {x \in rows : x.unit = u} = {}
    BY <1>2 DEF UnitsOf
  <2> QED
    BY <1>2, <2>1, FS_EmptySet
<1> QED
  BY <1>1, <1>2

\* Whatever requests overlap, a machine the player was given and has not
\* discarded is in exactly one row of the two tables, and no other is.
THEOREM MachinesAreKept == MachinesSpec => []UnitsAreKept
<1>1. ASSUME KeptInv, NEW u \in Units
      PROVE  Cardinality({i \in inventory : i.unit = u}) + Cardinality({m \in rack : m.unit = u})
                = IF u \in owned THEN 1 ELSE 0
  <2>1. One(inventory) /\ One(rack)
    BY <1>1 DEF KeptInv, RowsAreKept
  <2>2. /\ Cardinality({i \in inventory : i.unit = u}) = IF u \in UnitsOf(inventory) THEN 1 ELSE 0
        /\ Cardinality({m \in rack : m.unit = u}) = IF u \in UnitsOf(rack) THEN 1 ELSE 0
    BY <2>1, RowsOfOne
  <2>3. /\ UnitsOf(inventory) \cap UnitsOf(rack) = {}
        /\ UnitsOf(inventory) \cup UnitsOf(rack) = owned
    BY <1>1 DEF KeptInv, RowsAreKept
  <2> QED
    BY <2>2, <2>3
<1>2. KeptInv => UnitsAreKept
  BY <1>1 DEF UnitsAreKept
<1> QED
  BY <1>2, KeptBegins, KeptStep, PTL DEF MachinesSpec

-----------------------------------------------------------------------------
(* The engine and the rack.                                                 *)

\* A request that has had the server for itself is the only one in flight, and
\* the engine is behind the rack only while that request reloads it.
EngineInv ==
    /\ DOMAIN call = Calls
    /\ \A c \in Busy : c = alone \/ muddled
    /\ alone \in Calls => Busy \subseteq {alone}
    /\ \A c \in Calls :
          /\ c = alone /\ call[c].pc = "apply" => call[c].seen = Active
          /\ ~muddled /\ Reads(c, "delete") => ~InUse(call[c].row.model)
    /\ ~muddled /\ (\A c \in Busy : call[c].pc = "read") => engine = Active

LEMMA EngineBegins == MachinesInit => EngineInv
  BY RequestsAssumption DEF MachinesInit, EngineInv, Busy, NoCall, Call, Active, Reads

\* A request begins: q is what it has read.
LEMMA EngineEnter ==
    ASSUME EngineInv, NEW c \in Calls, NEW q, NEW U, Enter(c, q, U),
           q.pc # "apply",
           ~muddled' /\ q.pc = "read" /\ q.op = "delete" => ~InUse(q.row.model)',
           q.pc \in {"read", "idle"} => Active' = Active
    PROVE  EngineInv'
<1>1. /\ call' = [call EXCEPT ![c] = q] /\ call[c].pc = "idle" /\ engine' = engine
      /\ alone' = (IF Busy = {} THEN c ELSE None)
      /\ muddled' = (muddled \/ Busy # {})
  BY DEF Enter
<1>2. /\ DOMAIN call' = Calls /\ call'[c] = q
      /\ \A d \in Calls \ {c} : call'[d] = call[d]
  BY <1>1 DEF EngineInv
<1>3. Busy' \subseteq Busy \cup {c} /\ (q.pc # "idle" => c \in Busy')
  BY <1>2 DEF Busy
<1>4. CASE Busy # {}
  BY <1>1, <1>2, <1>4, RequestsAssumption DEF EngineInv, Reads
<1>5. CASE Busy = {}
  <2>1. alone' = c /\ (muddled' => muddled) /\ (muddled => muddled') /\ Busy' \subseteq {c}
    BY <1>1, <1>3, <1>5
  <2>2. \A d \in Calls \ {c} : call'[d].pc = "idle"
    BY <1>2, <1>5 DEF Busy
  <2>3. ~muddled => engine = Active
    BY <1>5 DEF EngineInv
  <2>4. ~muddled' /\ (\A d \in Busy' : call'[d].pc = "read") => engine' = Active'
    BY <1>1, <1>2, <1>3, <2>1, <2>3 DEF Busy
  <2>5. \A d \in Calls :
          /\ d = alone' /\ call'[d].pc = "apply" => call'[d].seen = Active'
          /\ ~muddled' /\ Reads(d, "delete")' => ~InUse(call[d].row.model)'
    BY <1>2, <2>1, <2>2 DEF Reads, InUse
  <2> QED
    BY <1>2, <2>1, <2>4, <2>5 DEF EngineInv
<1> QED
  BY <1>4, <1>5

\* A request that is in flight goes on.
LEMMA EngineGoesOn ==
    ASSUME EngineInv, NEW c \in Calls, NEW q, NEW U, Step(c, q, U),
           call[c].pc = "read", engine' = engine, muddled => muddled', muddled' => muddled,
           q.pc # "apply", q.pc = "read" => q.op # "delete",
           ~muddled /\ q.pc \in {"read", "idle"} => Active' = Active
    PROVE  EngineInv'
<1>1. /\ call' = [call EXCEPT ![c] = q] /\ alone' = alone
      /\ DOMAIN call' = Calls /\ call'[c] = q
      /\ \A d \in Calls \ {c} : call'[d] = call[d]
  BY DEF Step, EngineInv
<1>2. c \in Busy /\ Busy' \subseteq Busy /\ (q.pc # "idle" => c \in Busy')
  BY <1>1 DEF Busy
<1>3. CASE muddled
  <2>1. \A d \in Calls : ~(d = alone' /\ call'[d].pc = "apply")
    BY <1>1, <1>2 DEF EngineInv, Busy
  <2> QED
    BY <1>1, <1>2, <1>3, <2>1 DEF EngineInv, Reads
<1>4. CASE ~muddled
  <2>1. c = alone /\ Busy = {c}
    BY <1>2, <1>4 DEF EngineInv
  <2>2. \A d \in Calls \ {c} : call'[d].pc = "idle"
    BY <1>1, <2>1 DEF Busy
  <2>3. engine = Active
    BY <1>4, <2>1 DEF EngineInv
  <2>4. (\A d \in Busy' : call'[d].pc = "read") => engine' = Active'
    <3>1. CASE q.pc \in {"read", "idle"}
      BY <1>4, <2>3, <3>1
    <3>2. CASE q.pc \notin {"read", "idle"}
      BY <1>1, <1>2, <3>2
    <3> QED
      BY <3>1, <3>2
  <2>5. \A d \in Calls : ~(d = alone' /\ call'[d].pc = "apply") /\ ~Reads(d, "delete")'
    BY <1>1, <2>2 DEF Reads
  <2> QED
    BY <1>1, <1>2, <1>4, <2>1, <2>4, <2>5 DEF EngineInv
<1> QED
  BY <1>3, <1>4

LEMMA EngineRollsBack ==
    ASSUME EngineInv, NEW c \in Calls, RollsBack(c), call[c].pc = "read"
    PROVE  EngineInv'
<1>1. Active' = Active /\ engine' = engine /\ muddled' = muddled
  BY DEF RollsBack, machinesTables, Active
<1>2. NoCall.pc = "idle"
  BY DEF NoCall, Call
<1> QED
  BY <1>1, <1>2, EngineGoesOn DEF RollsBack

LEMMA EngineCommits ==
    ASSUME EngineInv, NEW c \in Calls, call[c].pc = "read",
           NEW machines, NEW items, NEW U, Commits(c, machines, items, Loading, U)
    PROVE  EngineInv'
<1>1. engine' = engine /\ muddled' = muddled /\ Step(c, Loading, U)
  BY DEF Commits
<1>2. Loading.pc = "load"
  BY DEF Loading, Call
<1> QED
  BY <1>1, <1>2, EngineGoesOn

\* Nothing that is begun changes what the rack mines with, but a change of the
\* catalogue, which reloads the engine if any machine is of the model.
LEMMA EngineKeepsReads ==
    ASSUME EngineInv, NEW c \in Calls,
           \/ installInventoryItem(c) \/ moveMachine(c) \/ removeMachine(c) \/ toggleMachine(c)
           \/ purchaseMiner(c) \/ grantMinerInventoryToAllUsers(c) \/ deleteMiner(c)
           \/ reloadMinerProfile(c)
    PROVE  EngineInv'
<1>1. ASSUME NEW q, Begin(c, q) PROVE Enter(c, q, {}) /\ Active' = Active /\ UNCHANGED <<inventory, rack>>
  BY <1>1 DEF Begin, machinesTables, Active
<1>2. ASSUME NEW q, Begin(c, q), q.pc # "apply", q.op # "delete" PROVE EngineInv'
  BY <1>1, <1>2, EngineEnter
<1>3. CASE deleteMiner(c)
  <2>1. PICK m \in Models : ~InUse(m) /\ Begin(c, Call("read", "delete", Item(None, m, PulseStats), 0, {}, {}))
    BY <1>3 DEF deleteMiner
  <2> DEFINE q == Call("read", "delete", Item(None, m, PulseStats), 0, {}, {})
  <2>2. q.pc = "read" /\ q.row.model = m
    BY DEF Call, Item
  <2>3. Begin(c, q)
    BY <2>1
  <2> HIDE DEF q
  <2>4. ~InUse(m)'
    BY <1>1, <2>1, <2>3 DEF InUse
  <2>5. Enter(c, q, {}) /\ Active' = Active
    BY <1>1, <2>3
  <2>6. InUse(q.row.model)' => InUse(m)'
    BY <2>2 DEF InUse
  <2> QED
    BY <2>2, <2>4, <2>5, <2>6, EngineEnter
<1>4. CASE reloadMinerProfile(c)
  BY <1>2, <1>4 DEF reloadMinerProfile, Loading, Call
<1>5. CASE purchaseMiner(c) \/ grantMinerInventoryToAllUsers(c)
  BY <1>2, <1>5 DEF purchaseMiner, grantMinerInventoryToAllUsers, ReadModel, Call
<1>6. CASE installInventoryItem(c) \/ moveMachine(c) \/ removeMachine(c) \/ toggleMachine(c)
  BY <1>2, <1>6 DEF installInventoryItem, moveMachine, removeMachine, toggleMachine, Call
<1> QED
  BY <1>3, <1>4, <1>5, <1>6

LEMMA EngineKeepsEntries ==
    ASSUME EngineInv, NEW c \in Calls, removeInventoryItem(c) \/ PulseArrives(c) \/ updateMiner(c)
    PROVE  EngineInv'
<1>1. NoCall.pc = "idle" /\ Loading.pc = "load"
  BY DEF NoCall, Loading, Call
<1>2. CASE removeInventoryItem(c)
  <2>1. PICK i \in inventory : Enter(c, NoCall, {i.unit}) /\ rack' = rack
    BY <1>2 DEF removeInventoryItem
  <2> QED
    BY <1>1, <2>1, EngineEnter DEF Active
<1>3. CASE PulseArrives(c)
  BY <1>1, <1>3, EngineEnter DEF PulseArrives, Active
<1>4. CASE updateMiner(c)
  <2>1. PICK m \in Models, st \in Stats :
          /\ Enter(c, IF m \in {r.model : r \in inventory \cup rack} THEN Loading ELSE NoCall, {})
          /\ rack' = Restated(rack, m, st)
    BY <1>4 DEF updateMiner
  <2>2. CASE m \in {r.model : r \in inventory \cup rack}
    <3>1. Enter(c, Loading, {})
      BY <2>1, <2>2
    <3> QED
      BY <1>1, <3>1, EngineEnter
  <2>3. CASE m \notin {r.model : r \in inventory \cup rack}
    <3>1. \A r \in rack : r.model # m
      BY <2>3
    <3>2. Restated(rack, m, st) = rack
      BY <3>1 DEF Restated
    <3>3. Active' = Active /\ Enter(c, NoCall, {})
      BY <2>1, <2>3, <3>2 DEF Active
    <3> QED
      BY <1>1, <3>3, EngineEnter
  <2> QED
    BY <2>2, <2>3
<1> QED
  BY <1>2, <1>3, <1>4

LEMMA EngineKeepsWrites ==
    ASSUME EngineInv, NEW c \in Calls,
           \/ InstallCommits(c) \/ MoveCommits(c) \/ RemoveCommits(c) \/ ToggleCommits(c)
           \/ PurchaseChecks(c) \/ PurchaseCommits(c) \/ GrantCommits(c) \/ DeleteCommits(c)
    PROVE  EngineInv'
<1>1. NoCall.pc = "idle" /\ call[c].pc = "read"
  BY DEF NoCall, Call, InstallCommits, MoveCommits, RemoveCommits, ToggleCommits, PurchaseChecks,
     PurchaseCommits, GrantCommits, DeleteCommits, Reads
<1>2. CASE RollsBack(c)
  BY <1>1, <1>2, EngineRollsBack
<1>3. ASSUME InstallCommits(c) \/ MoveCommits(c) \/ RemoveCommits(c) \/ ToggleCommits(c), ~RollsBack(c)
      PROVE  \E machines, items, U : Commits(c, machines, items, Loading, U)
  BY <1>3 DEF InstallCommits, MoveCommits, RemoveCommits, ToggleCommits
<1>4. CASE PurchaseChecks(c)
  <2> DEFINE q == IF HasFunds(c) THEN [call[c] EXCEPT !.op = "pay"] ELSE NoCall
  <2>1. Step(c, q, {}) /\ Active' = Active /\ engine' = engine /\ muddled' = muddled
        /\ call[c].op = "buy"
    BY <1>4 DEF PurchaseChecks, machinesTables, Active, Reads
  <2>2. q.pc # "apply" /\ (q.pc = "read" => q.op # "delete")
    BY <1>1, <2>1
  <2> HIDE DEF q
  <2> QED
    BY <1>1, <2>1, <2>2, EngineGoesOn
<1>5. CASE (PurchaseCommits(c) \/ GrantCommits(c)) /\ ~RollsBack(c)
  <2>1. Step(c, NoCall, {}) /\ rack' = rack /\ engine' = engine /\ muddled' = muddled
    BY <1>5 DEF PurchaseCommits, GrantCommits, Gives
  <2> QED
    BY <1>1, <2>1, EngineGoesOn DEF Active
<1>6. CASE DeleteCommits(c) /\ ~RollsBack(c)
  <2> DEFINE m == call[c].row.model
  <2>1. /\ Reads(c, "delete") /\ rack' = Unnamed(rack, m)
        /\ Step(c, NoCall, {}) /\ engine' = engine /\ muddled' = muddled
    BY <1>6 DEF DeleteCommits
  <2>2. ASSUME ~muddled PROVE Active' = Active
    <3>1. ~InUse(m)
      BY <2>1, <2>2 DEF EngineInv
    <3> HIDE DEF m
    <3>2. \A r \in rack : r.model # m
      BY <3>1 DEF InUse
    <3>3. Unnamed(rack, m) = rack
      BY <3>2 DEF Unnamed
    <3> QED
      BY <2>1, <3>3 DEF Active
  <2> QED
    BY <1>1, <2>1, <2>2, EngineGoesOn
<1> QED
  BY <1>1, <1>2, <1>3, <1>4, <1>5, <1>6, EngineCommits

\* A reload reads the rack, and then the engine takes what was read.
LEMMA EngineReloads ==
    ASSUME EngineInv, NEW c \in Calls, LoadProfile(c) \/ LoadFails(c) \/ ApplyProfile(c)
    PROVE  EngineInv'
<1> DEFINE Took == Call("apply", "none", NoRow, 0, {}, Active)
<1>1. /\ NoCall.pc = "idle" /\ Took.pc = "apply" /\ Took.seen = Active
  BY DEF NoCall, Call
<1> HIDE DEF Took
<1>2. /\ c \in Busy /\ alone' = alone /\ Active' = Active
      /\ inventory' = inventory /\ rack' = rack
  BY DEF LoadProfile, LoadFails, ApplyProfile, Step, machinesTables, Active, Busy
<1>3. ASSUME NEW q, call' = [call EXCEPT ![c] = q]
      PROVE  /\ DOMAIN call' = Calls /\ call'[c] = q
             /\ \A d \in Calls \ {c} : call'[d] = call[d]
             /\ \A d \in Calls \ {c} : d \in Busy' <=> d \in Busy
             /\ c \in Busy' <=> q.pc # "idle"
  BY <1>3 DEF EngineInv, Busy
<1>4. Busy' \subseteq Busy
  <2>1. \E q : call' = [call EXCEPT ![c] = q]
    BY DEF LoadProfile, LoadFails, ApplyProfile, Step
  <2> QED
    BY <1>2, <1>3, <2>1 DEF Busy
<1>5. CASE LoadProfile(c)
  <2>1. call' = [call EXCEPT ![c] = Took] /\ engine' = engine /\ muddled' = muddled
    BY <1>5 DEF LoadProfile, Step, Took
  <2>2. c \in Busy' /\ call'[c] = Took /\ \A d \in Calls \ {c} : call'[d] = call[d]
    BY <1>1, <1>3, <2>1
  <2>3. \A d \in Calls :
          /\ d = alone' /\ call'[d].pc = "apply" => call'[d].seen = Active'
          /\ ~muddled' /\ Reads(d, "delete")' => ~InUse(call[d].row.model)'
    BY <1>1, <1>2, <2>1, <2>2 DEF EngineInv, Reads, InUse
  <2> QED
    BY <1>1, <1>2, <1>3, <1>4, <2>1, <2>2, <2>3 DEF EngineInv
<1>6. CASE LoadFails(c)
  <2>1. call' = [call EXCEPT ![c] = NoCall] /\ engine' = engine /\ muddled'
    BY <1>6 DEF LoadFails, Step
  <2>2. \A d \in Calls :
          /\ d = alone' /\ call'[d].pc = "apply" => call'[d].seen = Active'
          /\ ~muddled' /\ Reads(d, "delete")' => ~InUse(call[d].row.model)'
    BY <1>1, <1>2, <1>3, <2>1 DEF EngineInv, Reads
  <2> QED
    BY <1>2, <1>3, <1>4, <2>1, <2>2 DEF EngineInv
<1>7. CASE ApplyProfile(c)
  <2>1. /\ call' = [call EXCEPT ![c] = NoCall] /\ engine' = call[c].seen
        /\ (~muddled' => ~muddled \/ alone = c) /\ call[c].pc = "apply"
        /\ (alone # c => (muddled' <=> muddled))
    BY <1>7 DEF ApplyProfile, Step
  <2>2. CASE alone = c
    <3>1. Busy = {c} /\ Busy' = {} /\ engine' = Active'
      BY <1>1, <1>2, <1>3, <1>4, <2>1, <2>2 DEF EngineInv
    <3>2. \A d \in Calls : call'[d].pc = "idle"
      BY <3>1 DEF Busy
    <3> QED
      BY <1>3, <2>1, <3>1, <3>2 DEF EngineInv, Reads
  <2>3. CASE alone # c
    <3>1. muddled /\ muddled'
      BY <1>2, <2>1, <2>3 DEF EngineInv
    <3>2. \A d \in Calls : d = alone' /\ call'[d].pc = "apply" => call'[d].seen = Active'
      BY <1>2, <1>3, <2>1, <2>3 DEF EngineInv
    <3> QED
      BY <1>2, <1>3, <1>4, <2>1, <3>1, <3>2 DEF EngineInv
  <2> QED
    BY <2>2, <2>3
<1> QED
  BY <1>5, <1>6, <1>7

LEMMA EngineStep == EngineInv /\ [MachinesNext]_machinesVars => EngineInv'
<1> SUFFICES ASSUME EngineInv, [MachinesNext]_machinesVars PROVE EngineInv'
  OBVIOUS
<1>1. CASE UNCHANGED machinesVars
  BY <1>1 DEF machinesVars, machinesTables, machinesGhosts, EngineInv, Busy, Active, Reads, InUse
<1>2. ASSUME NEW c \in Calls,
             \/ installInventoryItem(c) \/ moveMachine(c) \/ removeMachine(c) \/ toggleMachine(c)
             \/ purchaseMiner(c) \/ grantMinerInventoryToAllUsers(c) \/ deleteMiner(c)
             \/ reloadMinerProfile(c)
      PROVE  EngineInv'
  BY <1>2, EngineKeepsReads
<1>3. ASSUME NEW c \in Calls, removeInventoryItem(c) \/ PulseArrives(c) \/ updateMiner(c)
      PROVE  EngineInv'
  BY <1>3, EngineKeepsEntries
<1>4. ASSUME NEW c \in Calls,
             \/ InstallCommits(c) \/ MoveCommits(c) \/ RemoveCommits(c) \/ ToggleCommits(c)
             \/ PurchaseChecks(c) \/ PurchaseCommits(c) \/ GrantCommits(c) \/ DeleteCommits(c)
      PROVE  EngineInv'
  BY <1>4, EngineKeepsWrites
<1>5. ASSUME NEW c \in Calls, LoadProfile(c) \/ LoadFails(c) \/ ApplyProfile(c)
      PROVE  EngineInv'
  BY <1>5, EngineReloads
<1> QED
  BY <1>1, <1>2, <1>3, <1>4, <1>5 DEF MachinesNext, listMachines

\* When no request is in flight, the engine mines with the machines that are
\* installed and switched on, unless reloads overlapped or failed since the
\* last one that ran undisturbed.
THEOREM EngineFollowsRack == MachinesSpec => []EngineMinesWithRack
<1>1. EngineInv => EngineMinesWithRack
  BY DEF EngineInv, EngineMinesWithRack
<1> QED
  BY <1>1, EngineBegins, EngineStep, PTL DEF MachinesSpec
-----------------------------------------------------------------------------
(* The invariant.                                                           *)

\* What a request that has had the server for itself has read still holds.
UpToDate(c) ==
    LET q == call[c] IN
    c = alone /\ q.pc = "read" =>
        /\ gone[c] = {}
        /\ q.op = "install" =>
              /\ q.row \in inventory /\ q.slot \in Slots /\ FitsAt(q.row.size, q.slot)
              /\ q.others = Occupants(q.row.size, q.slot, None)
        /\ q.op = "move" =>
              /\ q.row \in rack /\ q.slot \in Slots /\ FitsAt(q.row.size, q.slot)
              /\ q.others = Occupants(q.row.size, q.slot, q.row.unit)
        /\ q.op = "remove" => q.row \in rack
        /\ q.op \in {"buy", "grant", "pay"} =>
              /\ q.row.model = ModelOf[q.row.unit] /\ catalogue[q.row.model] # None
              /\ catalogue[q.row.model] = [hash |-> q.row.hash, size |-> q.row.size]
        /\ q.op = "delete" => catalogue[q.row.model] # None /\ ~InUse(q.row.model)

TableRows == inventory \cup rack

\* The foreign keys of the two tables.
ModelsExist == \A r \in TableRows : r.model # None => catalogue[r.model] # None

\* A large machine begins in an even slot, and machines share no cell.
Fits(machines) ==
    /\ \A m \in machines : FitsAt(m.size, m.slot)
    /\ \A m, n \in machines : m # n => Cells(m.size, m.slot) \cap Cells(n.size, n.slot) = {}

RackFits == raced \/ resized \/ Fits(rack)

TablesSound == ModelsExist /\ RackFits /\ InstancesMatchCatalogue /\ CatalogueKeepsOwned

RackInv ==
    /\ alone \in Calls => Busy \subseteq {alone}
    /\ raced \/ \A c \in Busy : c = alone
    /\ \A c \in Calls : UpToDate(c)
    /\ TablesSound
    /\ UndisturbedCallsSucceed

LEMMA RackBegins == MachinesInit => RackInv
<1> SUFFICES ASSUME MachinesInit PROVE RackInv
  OBVIOUS
<1>1. inventory = {} /\ rack = {} /\ alone = None /\ refused = {}
  BY DEF MachinesInit
<1>2. \A c \in Calls : call[c].pc = "idle"
  BY DEF MachinesInit, NoCall, Call
<1> QED
  BY <1>1, <1>2, RequestsAssumption DEF RackInv, Busy, UpToDate, TablesSound, ModelsExist, RackFits, Fits, TableRows,
     InstancesMatchCatalogue, CatalogueKeepsOwned, UndisturbedCallsSucceed

-----------------------------------------------------------------------------
(* How requests come and go.                                                *)

LEMMA RackEnter ==
    ASSUME KeptInv, RackInv, NEW c \in Calls, NEW q, NEW U, Enter(c, q, U),
           TablesSound', Busy = {} => UpToDate(c)'
    PROVE  RackInv'
<1>1. /\ alone' = (IF Busy = {} THEN c ELSE None)
      /\ (raced' <=> raced \/ Busy # {}) /\ refused' = refused
      /\ \A d \in Calls \ {c} : call'[d] = call[d]
  BY DEF Enter, KeptInv, CallsAreCalls
<1>2. Busy' \subseteq Busy \cup {c}
  BY <1>1 DEF Busy
<1>3. CASE Busy = {}
  <2>1. \A d \in Calls : UpToDate(d)'
    BY <1>1, <1>3 DEF UpToDate
  <2> QED
    BY <1>1, <1>2, <1>3, <2>1 DEF RackInv, UndisturbedCallsSucceed
<1>4. CASE Busy # {}
  <2>1. alone' \notin Calls /\ raced'
    BY <1>1, <1>4, RequestsAssumption
  <2>2. \A d \in Calls : UpToDate(d)'
    BY <2>1 DEF UpToDate
  <2> QED
    BY <1>1, <2>1, <2>2 DEF RackInv, UndisturbedCallsSucceed
<1> QED
  BY <1>3, <1>4

LEMMA RackGoesOn ==
    ASSUME KeptInv, RackInv, NEW c \in Calls, NEW q, NEW U, Step(c, q, U), call[c].pc # "idle",
           TablesSound', UndisturbedCallsSucceed', q.pc = "read" => UpToDate(c)'
    PROVE  RackInv'
<1>1. /\ alone' = alone /\ (raced' <=> raced) /\ call'[c] = q
      /\ \A d \in Calls \ {c} : call'[d] = call[d]
  BY DEF Step, KeptInv, CallsAreCalls
<1>2. c \in Busy /\ Busy' \subseteq Busy
  BY <1>1 DEF Busy
<1>3. ASSUME NEW d \in Calls PROVE UpToDate(d)'
  <2>1. CASE d = c
    BY <1>1, <2>1 DEF UpToDate
  <2>2. CASE d # c
    BY <1>1, <1>2, <2>2 DEF RackInv, UpToDate
  <2> QED
    BY <2>1, <2>2
<1> QED
  BY <1>1, <1>2, <1>3 DEF RackInv

LEMMA TablesStay ==
    ASSUME TablesSound, UNCHANGED <<catalogue, inventory, rack>>,
           raced => raced', resized => resized'
    PROVE  TablesSound'
  BY DEF TablesSound, ModelsExist, RackFits, TableRows, InstancesMatchCatalogue, CatalogueKeepsOwned

\* A request that runs undisturbed is rolled back for a nameless machine only.
LEMMA RackRollsBack ==
    ASSUME KeptInv, RackInv, NEW c \in Calls, RollsBack(c), call[c].pc # "idle",
           alone = c => None \in {m.model : m \in rack}
    PROVE  RackInv'
<1>1. Step(c, NoCall, {}) /\ NoCall.pc = "idle"
  BY DEF RollsBack, NoCall, Call
<1>2. TablesSound'
  BY <1>1, TablesStay DEF RollsBack, machinesTables, Step, RackInv
<1>3. UndisturbedCallsSucceed'
  BY DEF RollsBack, RackInv, UndisturbedCallsSucceed
<1> QED
  BY <1>1, <1>2, <1>3, RackGoesOn

-----------------------------------------------------------------------------
(* The steps that read.                                                     *)

LEMMA RackKeepsReads ==
    ASSUME KeptInv, RackInv, NEW c \in Calls,
           \/ installInventoryItem(c) \/ moveMachine(c) \/ removeMachine(c) \/ toggleMachine(c)
           \/ purchaseMiner(c) \/ grantMinerInventoryToAllUsers(c) \/ deleteMiner(c)
           \/ reloadMinerProfile(c)
    PROVE  RackInv'
<1>1. ASSUME NEW q, Begin(c, q)
      PROVE  /\ Enter(c, q, {}) /\ TablesSound' /\ UNCHANGED <<catalogue, inventory, rack>>
             /\ call'[c] = q /\ gone'[c] = {}
  <2>1. /\ Enter(c, q, {}) /\ UNCHANGED <<catalogue, inventory, rack>>
        /\ (raced => raced') /\ (resized => resized')
    BY <1>1 DEF Begin, Enter, machinesTables
  <2>2. call'[c] = q /\ gone'[c] = {}
    BY <2>1 DEF Enter, Deletes, KeptInv, CallsAreCalls
  <2> QED
    BY <2>1, <2>2, TablesStay DEF RackInv
<1>2. CASE installInventoryItem(c)
  <2>1. PICK i \in inventory, s \in Slots :
          /\ FitsAt(i.size, s)
          /\ Begin(c, Call("read", "install", i, s, Occupants(i.size, s, None), {}))
    BY <1>2 DEF installInventoryItem
  <2> DEFINE q == Call("read", "install", i, s, Occupants(i.size, s, None), {})
  <2>2. q.op = "install" /\ q.row = i /\ q.slot = s /\ q.others = Occupants(i.size, s, None)
    BY DEF Call
  <2>3. Begin(c, q)
    BY <2>1
  <2> HIDE DEF q
  <2>4. Occupants(i.size, s, None)' = Occupants(i.size, s, None)
    BY <1>1, <2>3 DEF Occupants
  <2>5. UpToDate(c)'
    BY <1>1, <2>1, <2>2, <2>3, <2>4 DEF UpToDate, Slots, Occupants
  <2> QED
    BY <1>1, <2>3, <2>5, RackEnter
<1>3. CASE moveMachine(c)
  <2>1. PICK m \in rack, s \in Slots :
          /\ FitsAt(m.size, s)
          /\ Begin(c, Call("read", "move", m, s, Occupants(m.size, s, m.unit), {}))
    BY <1>3 DEF moveMachine
  <2> DEFINE q == Call("read", "move", m, s, Occupants(m.size, s, m.unit), {})
  <2>2. q.op = "move" /\ q.row = m /\ q.slot = s /\ q.others = Occupants(m.size, s, m.unit)
    BY DEF Call
  <2>3. Begin(c, q)
    BY <2>1
  <2> HIDE DEF q
  <2>5. UpToDate(c)'
    BY <1>1, <2>1, <2>2, <2>3 DEF UpToDate, Slots, Occupants
  <2> QED
    BY <1>1, <2>3, <2>5, RackEnter
<1>4. CASE removeMachine(c)
  <2>1. PICK m \in rack : Begin(c, Call("read", "remove", m, 0, {}, {}))
    BY <1>4 DEF removeMachine
  <2> DEFINE q == Call("read", "remove", m, 0, {}, {})
  <2>2. q.op = "remove" /\ q.row = m
    BY DEF Call
  <2>3. Begin(c, q)
    BY <2>1
  <2> HIDE DEF q
  <2>4. UpToDate(c)'
    BY <1>1, <2>2, <2>3 DEF UpToDate
  <2> QED
    BY <1>1, <2>3, <2>4, RackEnter
<1>5. CASE toggleMachine(c)
  <2>1. PICK m \in rack : Begin(c, Call("read", "toggle", [m EXCEPT !.on = ~m.on], 0, {}, {}))
    BY <1>5 DEF toggleMachine
  <2> DEFINE q == Call("read", "toggle", [m EXCEPT !.on = ~m.on], 0, {}, {})
  <2>2. q.op = "toggle"
    BY DEF Call
  <2>3. Begin(c, q)
    BY <2>1
  <2> HIDE DEF q
  <2>4. UpToDate(c)'
    BY <1>1, <2>2, <2>3 DEF UpToDate
  <2> QED
    BY <1>1, <2>3, <2>4, RackEnter
<1>6. ASSUME NEW op \in {"buy", "grant"}, ReadModel(c, op)
      PROVE  RackInv'
  <2>1. PICK u \in Unused :
          /\ ModelOf[u] # None /\ catalogue[ModelOf[u]] # None
          /\ Begin(c, Call("read", op, Item(u, ModelOf[u], catalogue[ModelOf[u]]), 0, {}, {}))
    BY <1>6 DEF ReadModel
  <2> DEFINE i == Item(u, ModelOf[u], catalogue[ModelOf[u]])
             q == Call("read", op, i, 0, {}, {})
  <2>2. q.op = op /\ q.row = i
    BY DEF Call
  <2>3. ModelOf[u] \in Models
    BY <2>1 DEF Models, Unused
  <2>4. catalogue[ModelOf[u]] \in Stats
    BY <2>1, <2>3 DEF KeptInv
  <2>5. catalogue[ModelOf[u]] \in [hash : Nat, size : {1, 2}]
    BY <2>4, MachinesAssumption
  <2>6. /\ i.unit = u /\ i.model = ModelOf[u]
        /\ catalogue[ModelOf[u]] = [hash |-> i.hash, size |-> i.size]
    BY <2>5 DEF Item
  <2>7. Begin(c, q)
    BY <2>1
  <2> HIDE DEF i, q
  <2>8. UpToDate(c)'
    BY <1>1, <1>6, <2>1, <2>2, <2>6, <2>7 DEF UpToDate
  <2> QED
    BY <1>1, <2>7, <2>8, RackEnter
<1>7. CASE deleteMiner(c)
  <2>1. PICK m \in Models :
          /\ catalogue[m] # None /\ ~InUse(m)
          /\ Begin(c, Call("read", "delete", Item(None, m, PulseStats), 0, {}, {}))
    BY <1>7 DEF deleteMiner
  <2> DEFINE q == Call("read", "delete", Item(None, m, PulseStats), 0, {}, {})
  <2>2. q.op = "delete" /\ q.row.model = m
    BY DEF Call, Item
  <2>3. Begin(c, q)
    BY <2>1
  <2> HIDE DEF q
  <2>4. UpToDate(c)'
    BY <1>1, <2>1, <2>2, <2>3 DEF UpToDate, InUse
  <2> QED
    BY <1>1, <2>3, <2>4, RackEnter
<1>8. CASE reloadMinerProfile(c)
  <2>1. Begin(c, Loading) /\ Loading.pc # "read"
    BY <1>8 DEF reloadMinerProfile, Loading, Call
  <2>2. UpToDate(c)'
    BY <1>1, <2>1 DEF UpToDate
  <2> QED
    BY <1>1, <2>1, <2>2, RackEnter
<1> QED
  BY <1>2, <1>3, <1>4, <1>5, <1>6, <1>7, <1>8 DEF purchaseMiner, grantMinerInventoryToAllUsers

\* A reload writes no row, nor does the look at the balance.
LEMMA RackKeepsLooks ==
    ASSUME KeptInv, RackInv, NEW c \in Calls,
           PurchaseChecks(c) \/ LoadProfile(c) \/ LoadFails(c) \/ ApplyProfile(c)
    PROVE  RackInv'
<1>1. /\ UNCHANGED <<catalogue, inventory, rack, refused>> /\ call[c].pc # "idle"
      /\ (raced => raced') /\ (resized => resized')
  BY DEF PurchaseChecks, LoadProfile, LoadFails, ApplyProfile, Step, machinesTables, Reads
<1>2. TablesSound' /\ UndisturbedCallsSucceed'
  BY <1>1, TablesStay DEF RackInv, UndisturbedCallsSucceed
<1>3. CASE PurchaseChecks(c)
  <2> DEFINE q == IF HasFunds(c) THEN [call[c] EXCEPT !.op = "pay"] ELSE NoCall
  <2>1. Step(c, q, {}) /\ Reads(c, "buy")
    BY <1>3 DEF PurchaseChecks
  <2>2. call'[c] = q /\ gone'[c] = {} /\ alone' = alone
    BY <2>1 DEF Step, Deletes, KeptInv, CallsAreCalls
  <2>3. q.pc = "read" => q.op = "pay" /\ q.row = call[c].row
    BY DEF NoCall, Call, KeptInv, CallsAreCalls
  <2> HIDE DEF q
  <2>4. q.pc = "read" => UpToDate(c)'
    BY <1>1, <2>1, <2>2, <2>3 DEF UpToDate, RackInv, Reads
  <2> QED
    BY <1>1, <1>2, <2>1, <2>4, RackGoesOn
<1>4. CASE LoadProfile(c) \/ LoadFails(c) \/ ApplyProfile(c)
  <2>1. \E q : Step(c, q, {}) /\ q.pc # "read"
    BY <1>4 DEF LoadProfile, LoadFails, ApplyProfile, NoCall, Call
  <2> QED
    BY <1>1, <1>2, <2>1, RackGoesOn
<1> QED
  BY <1>3, <1>4

-----------------------------------------------------------------------------
(* The transactions.                                                        *)

Copies(r, o) == r.unit = o.unit /\ r.model = o.model /\ r.hash = o.hash /\ r.size = o.size

\* TableRows that are as they were but for their place keep to the catalogue.
LEMMA RowsCopied ==
    ASSUME TablesSound, catalogue' = catalogue, raced => raced',
           \A r \in TableRows' : r.model = None \/ catalogue[r.model] # None,
           raced' \/ \A r \in TableRows' : \E o \in TableRows : Copies(r, o)
    PROVE  ModelsExist' /\ InstancesMatchCatalogue' /\ CatalogueKeepsOwned'
<1>1. ModelsExist'
  BY DEF ModelsExist
<1>2. CASE raced'
  BY <1>1, <1>2 DEF InstancesMatchCatalogue, CatalogueKeepsOwned
<1>3. CASE ~raced'
  <2>1. ASSUME NEW r \in TableRows'
        PROVE  /\ r.model # None => catalogue[r.model] = [hash |-> r.hash, size |-> r.size]
               /\ r.model = ModelOf[r.unit]
    <3>1. PICK o \in TableRows : Copies(r, o)
      BY <1>3, <2>1
    <3> QED
      BY <1>3, <3>1 DEF TablesSound, InstancesMatchCatalogue, CatalogueKeepsOwned, TableRows, Copies
  <2> QED
    BY <1>1, <2>1 DEF InstancesMatchCatalogue, CatalogueKeepsOwned, TableRows
<1> QED
  BY <1>2, <1>3

LEMMA RackCommits ==
    ASSUME KeptInv, RackInv, NEW c \in Calls, call[c].pc = "read",
           NEW machines, NEW items, NEW q, NEW U, Commits(c, machines, items, q, U), q.pc # "read",
           \A r \in items \cup machines : r.model = None \/ catalogue[r.model] # None,
           c = alone => \A r \in items \cup machines : \E o \in TableRows : Copies(r, o),
           c = alone /\ Fits(rack) => Fits(machines)
    PROVE  RackInv'
<1>1. /\ Step(c, q, U) /\ rack' = machines /\ TableRows' = items \cup machines
      /\ catalogue' = catalogue /\ refused' = refused
      /\ (raced' <=> raced) /\ (resized' <=> resized)
  BY DEF Commits, Step, TableRows
<1>2. c = alone \/ raced
  BY DEF RackInv, Busy
<1>3. ModelsExist' /\ InstancesMatchCatalogue' /\ CatalogueKeepsOwned'
  BY <1>1, <1>2, RowsCopied DEF RackInv
<1>4. RackFits'
  <2>1. Fits(rack)' <=> Fits(machines)
    BY <1>1 DEF Fits, FitsAt, Cells
  <2> QED
    BY <1>1, <1>2, <2>1 DEF RackFits, RackInv, TablesSound
<1>5. TablesSound' /\ UndisturbedCallsSucceed'
  BY <1>1, <1>3, <1>4 DEF TablesSound, UndisturbedCallsSucceed, RackInv
<1> QED
  BY <1>1, <1>5, RackGoesOn

\* A machine placed where nothing that stays reaches.
LEMMA Placed ==
    ASSUME NEW left \in SUBSET Installed, Fits(left),
           NEW machine \in Installed, FitsAt(machine.size, machine.slot),
           \A m \in left : /\ m.slot \notin Cells(machine.size, machine.slot)
                           /\ ~(machine.slot % 2 = 1 /\ m.slot = machine.slot - 1 /\ m.size = 2)
    PROVE  Fits(left \cup {machine})
<1>1. ASSUME NEW m \in left PROVE Cells(m.size, m.slot) \cap Cells(machine.size, machine.slot) = {}
  <2>1. /\ m.slot \in Int /\ machine.slot \in Int /\ m.size \in {1, 2} /\ machine.size \in {1, 2}
    BY MachinesAssumption DEF Installed, Slots
  <2> SUFFICES ASSUME NEW k \in Int, m.slot <= k, k <= m.slot + m.size - 1,
                      machine.slot <= k, k <= machine.slot + machine.size - 1
               PROVE  FALSE
    BY <2>1 DEF Cells
  <2>2. m.slot < machine.slot
    BY <2>1 DEF Cells
  <2>3. m.size = 2 /\ m.slot = machine.slot - 1
    BY <2>1, <2>2
  <2>4. m.slot % 2 = 0
    BY <2>3 DEF Fits, FitsAt
  <2>5. machine.slot % 2 = 1
    BY <2>1, <2>3, <2>4
  <2> QED
    BY <2>3, <2>5
<1>2. \A m \in left : Cells(machine.size, machine.slot) \cap Cells(m.size, m.slot) = {}
  BY <1>1
<1> QED
  BY <1>1, <1>2 DEF Fits

\* Taking machines out leaves the others where they fit.
LEMMA FitsLeft == ASSUME NEW rows, NEW left \in SUBSET rows, Fits(rows) PROVE Fits(left)
  BY DEF Fits

LEMMA PutBackCopies ==
    ASSUME NEW out \in SUBSET Installed
    PROVE  \A r \in PutBack(out) : \E m \in out : Copies(r, m)
<1>1. \A m \in out : Copies(Stored(m), m)
  BY DEF Stored, Item, Copies
<1> QED
  BY <1>1 DEF PutBack

LEMMA RackInstalls ==
    ASSUME KeptInv, RackInv, NEW c \in Calls, InstallCommits(c)
    PROVE  RackInv'
<1> DEFINE q == call[c]
           out == q.others \cup Previous(q.slot, UnitsOf(q.others))
           left == {m \in rack : m.unit \notin UnitsOf(out)}
           used == UnitsOf(q.others) \cup {q.row.unit}
           machine == Machine(q.row, q.slot)
           items == {i \in inventory : i.unit # q.row.unit} \cup PutBack(out)
           ok == /\ used \cap gone[c] = {}
                 /\ \A m \in out : Displaceable(m)
                 /\ \A m \in left : m.slot # q.slot
                 /\ Refers(q.row)
<1>1. /\ q.pc = "read" /\ q.op = "install" /\ UpToDate(c)
      /\ q.row \in Items /\ q.slot \in Slots /\ q.others \in SUBSET Installed
  BY DEF InstallCommits, Reads, RackInv, KeptInv, KnowsRows
<1>2. /\ machine \in Installed /\ Copies(machine, q.row)
      /\ machine.slot = q.slot /\ machine.size = q.row.size /\ q.row.size \in {1, 2}
  BY <1>1 DEF Machine, Copies, Installed, Items
<1>3. /\ rack \in SUBSET Installed /\ inventory \in SUBSET Items /\ out \in SUBSET Installed
      /\ left \in SUBSET Installed /\ left \in SUBSET rack
  BY <1>1 DEF KeptInv, RowsAreKept, Previous
<1>4. ASSUME c = alone
      PROVE  /\ gone[c] = {} /\ q.row \in inventory /\ FitsAt(q.row.size, q.slot) /\ out \subseteq rack
             /\ \A m \in left : /\ m.slot \notin Cells(q.row.size, q.slot)
                                /\ ~(q.slot % 2 = 1 /\ m.slot = q.slot - 1 /\ m.size = 2)
  <2>1. /\ gone[c] = {} /\ q.row \in inventory /\ FitsAt(q.row.size, q.slot)
        /\ q.others = Occupants(q.row.size, q.slot, None)
    BY <1>1, <1>4 DEF UpToDate
  <2>2. out \subseteq rack
    BY <2>1 DEF Occupants, Previous
  <2>3. ASSUME NEW m \in left
        PROVE  /\ m.slot \notin Cells(q.row.size, q.slot)
               /\ ~(q.slot % 2 = 1 /\ m.slot = q.slot - 1 /\ m.size = 2)
    <3>1. m \in rack /\ m.unit \in Units /\ m \notin out /\ m.unit \notin UnitsOf(q.others)
      BY <1>3 DEF UnitsOf, Installed
    <3>2. m \notin Occupants(q.row.size, q.slot, None) /\ m \notin Previous(q.slot, UnitsOf(q.others))
      BY <2>1, <3>1
    <3> QED
      BY <3>1, <3>2, MachinesAssumption DEF Occupants, Previous
  <2> QED
    BY <2>1, <2>2, <2>3
<1>5. CASE ~ok
  <2>1. RollsBack(c)
    BY <1>5 DEF InstallCommits
  <2>2. ASSUME c = alone PROVE None \in {m.model : m \in rack}
    <3>1. q.slot \in Cells(q.row.size, q.slot)
      BY <1>1, <1>2, MachinesAssumption DEF Cells, Slots
    <3>2. used \cap gone[c] = {} /\ (\A m \in left : m.slot # q.slot)
      BY <1>4, <2>2, <3>1
    <3>3. Refers(q.row)
      BY <1>4, <2>2 DEF RackInv, TablesSound, ModelsExist, TableRows, Refers
    <3>4. PICK m \in out : ~Displaceable(m)
      BY <1>5, <3>2, <3>3
    <3>5. m \in rack /\ m.model = None
      BY <1>4, <2>2, <3>4 DEF RackInv, TablesSound, ModelsExist, TableRows, Displaceable
    <3> QED
      BY <3>5
  <2> QED
    BY <1>1, <2>1, <2>2, RackRollsBack
<1>6. CASE ok
  <2>1. Commits(c, left \cup {machine}, items, Loading, UnitsOf(out) \cup {q.row.unit})
    BY <1>6 DEF InstallCommits
  <2>2. \A r \in PutBack(out) : \E m \in out : Copies(r, m)
    BY <1>3, PutBackCopies
  <2>3. (\A m \in out : Displaceable(m)) /\ Refers(q.row)
    BY <1>6
  <2> HIDE DEF q, out, left, machine, ok
  <2>4. \A r \in items \cup (left \cup {machine}) : r.model = None \/ catalogue[r.model] # None
    <3>1. \A r \in inventory \cup left : r.model = None \/ catalogue[r.model] # None
      BY <1>3 DEF RackInv, TablesSound, ModelsExist, TableRows
    <3>2. \A r \in PutBack(out) : r.model = None \/ catalogue[r.model] # None
      BY <2>2, <2>3 DEF Displaceable, Copies
    <3>3. machine.model = None \/ catalogue[machine.model] # None
      BY <1>2, <2>3 DEF Refers, Copies
    <3> QED
      BY <3>1, <3>2, <3>3
  <2>5. ASSUME c = alone
        PROVE  \A r \in items \cup (left \cup {machine}) : \E o \in TableRows : Copies(r, o)
    <3>1. \A r \in inventory \cup left : r \in TableRows /\ Copies(r, r)
      BY <1>3 DEF TableRows, Copies
    <3>2. \A r \in PutBack(out) : \E o \in TableRows : Copies(r, o)
      BY <1>4, <2>2, <2>5 DEF TableRows
    <3>3. q.row \in TableRows
      BY <1>4, <2>5 DEF TableRows
    <3> QED
      BY <1>2, <3>1, <3>2, <3>3
  <2>6. ASSUME c = alone, Fits(rack) PROVE Fits(left \cup {machine})
    <3>1. Fits(left)
      BY <1>3, <2>6, FitsLeft
    <3> QED
      BY <1>2, <1>3, <1>4, <2>6, <3>1, Placed
  <2>7. Loading.pc # "read"
    BY DEF Loading, Call
  <2> HIDE DEF items
  <2> QED
    BY <1>1, <2>1, <2>4, <2>5, <2>6, <2>7, RackCommits DEF q
<1> QED
  BY <1>5, <1>6

LEMMA RackMoves ==
    ASSUME KeptInv, RackInv, NEW c \in Calls, MoveCommits(c)
    PROVE  RackInv'
<1> DEFINE q == call[c]
           self == q.row.unit
           out == q.others \cup Previous(q.slot, UnitsOf(q.others) \cup {self})
           left == {m \in rack : m.unit \notin UnitsOf(out) \cup {self}}
           used == UnitsOf(q.others) \cup {self}
           moved == {[m EXCEPT !.slot = q.slot] : m \in {x \in rack : x.unit = self}}
           machine == [q.row EXCEPT !.slot = q.slot]
           items == inventory \cup PutBack(out)
           ok == /\ used \cap gone[c] = {}
                 /\ \A m \in out : Displaceable(m)
                 /\ \A m \in left : m.slot # q.slot
<1>1. /\ q.pc = "read" /\ q.op = "move" /\ UpToDate(c)
      /\ q.row \in Installed /\ q.slot \in Slots /\ q.others \in SUBSET Installed
  BY DEF MoveCommits, Reads, RackInv, KeptInv, KnowsRows
<1>2. /\ machine \in Installed /\ machine.slot = q.slot /\ machine.size = q.row.size
      /\ q.row.size \in {1, 2}
  BY <1>1 DEF Installed
<1>3. /\ rack \in SUBSET Installed /\ inventory \in SUBSET Items /\ out \in SUBSET Installed
      /\ left \in SUBSET Installed /\ left \in SUBSET rack
  BY <1>1 DEF KeptInv, RowsAreKept, Previous
<1>4. ASSUME c = alone
      PROVE  /\ gone[c] = {} /\ q.row \in rack /\ FitsAt(q.row.size, q.slot) /\ out \subseteq rack
             /\ moved = {machine}
             /\ \A m \in left : /\ m.slot \notin Cells(q.row.size, q.slot)
                                /\ ~(q.slot % 2 = 1 /\ m.slot = q.slot - 1 /\ m.size = 2)
  <2>1. /\ gone[c] = {} /\ q.row \in rack /\ FitsAt(q.row.size, q.slot)
        /\ q.others = Occupants(q.row.size, q.slot, self)
    BY <1>1, <1>4 DEF UpToDate
  <2>2. out \subseteq rack
    BY <2>1 DEF Occupants, Previous
  <2>3. moved = {machine}
    <3>1. \A x \in rack : x.unit = self <=> x = q.row
      BY <2>1 DEF KeptInv, RowsAreKept, One
    <3>2. {x \in rack : x.unit = self} = {q.row}
      BY <2>1, <3>1
    <3> HIDE DEF q, self
    <3> QED
      BY <3>2
  <2>4. ASSUME NEW m \in left
        PROVE  /\ m.slot \notin Cells(q.row.size, q.slot)
               /\ ~(q.slot % 2 = 1 /\ m.slot = q.slot - 1 /\ m.size = 2)
    <3>1. m \in rack /\ m \notin out /\ m.unit \notin UnitsOf(q.others) \cup {self}
      BY <1>3 DEF UnitsOf
    <3>2. /\ m \notin Occupants(q.row.size, q.slot, self)
          /\ m \notin Previous(q.slot, UnitsOf(q.others) \cup {self})
      BY <2>1, <3>1
    <3> QED
      BY <3>1, <3>2 DEF Occupants, Previous
  <2> QED
    BY <2>1, <2>2, <2>3, <2>4
<1>5. CASE ~ok
  <2>1. RollsBack(c)
    BY <1>5 DEF MoveCommits
  <2>2. ASSUME c = alone PROVE None \in {m.model : m \in rack}
    <3>1. q.slot \in Cells(q.row.size, q.slot)
      BY <1>1, <1>2, MachinesAssumption DEF Cells, Slots
    <3>2. used \cap gone[c] = {} /\ (\A m \in left : m.slot # q.slot)
      BY <1>4, <2>2, <3>1
    <3>3. PICK m \in out : ~Displaceable(m)
      BY <1>5, <3>2
    <3>4. m \in rack /\ m.model = None
      BY <1>4, <2>2, <3>3 DEF RackInv, TablesSound, ModelsExist, TableRows, Displaceable
    <3> QED
      BY <3>4
  <2> QED
    BY <1>1, <2>1, <2>2, RackRollsBack
<1>6. CASE ok
  <2>1. Commits(c, left \cup moved, items, Loading, UnitsOf(out))
    BY <1>6 DEF MoveCommits
  <2>2. \A r \in PutBack(out) : \E m \in out : Copies(r, m)
    BY <1>3, PutBackCopies
  <2>3. \A m \in out : Displaceable(m)
    BY <1>6
  <2>4. \A r \in moved : \E m \in rack : Copies(r, m)
    <3>1. \A m \in rack : Copies([m EXCEPT !.slot = q.slot], m)
      BY <1>3 DEF Installed, Copies
    <3> QED
      BY <3>1
  <2> HIDE DEF q, self, out, left, moved, machine, ok
  <2>5. \A r \in items \cup (left \cup moved) : r.model = None \/ catalogue[r.model] # None
    <3>1. \A r \in inventory \cup rack : r.model = None \/ catalogue[r.model] # None
      BY DEF RackInv, TablesSound, ModelsExist, TableRows
    <3>2. \A r \in PutBack(out) : r.model = None \/ catalogue[r.model] # None
      BY <2>2, <2>3 DEF Displaceable, Copies
    <3>3. \A r \in moved : r.model = None \/ catalogue[r.model] # None
      BY <2>4, <3>1 DEF Copies
    <3> QED
      BY <1>3, <3>1, <3>2, <3>3
  <2>6. ASSUME c = alone
        PROVE  \A r \in items \cup (left \cup moved) : \E o \in TableRows : Copies(r, o)
    <3>1. \A r \in inventory \cup left : r \in TableRows /\ Copies(r, r)
      BY <1>3 DEF TableRows, Copies
    <3>2. \A r \in PutBack(out) : \E o \in TableRows : Copies(r, o)
      BY <1>4, <2>2, <2>6 DEF TableRows
    <3> QED
      BY <2>4, <3>1, <3>2 DEF TableRows
  <2>7. ASSUME c = alone, Fits(rack) PROVE Fits(left \cup moved)
    <3>1. Fits(left)
      BY <1>3, <2>7, FitsLeft
    <3>2. Fits(left \cup {machine})
      BY <1>2, <1>3, <1>4, <2>7, <3>1, Placed
    <3> QED
      BY <1>4, <2>7, <3>2
  <2>8. Loading.pc # "read"
    BY DEF Loading, Call
  <2> HIDE DEF items
  <2> QED
    BY <1>1, <2>1, <2>5, <2>6, <2>7, <2>8, RackCommits DEF q
<1> QED
  BY <1>5, <1>6

LEMMA RackRemoves ==
    ASSUME KeptInv, RackInv, NEW c \in Calls, RemoveCommits(c)
    PROVE  RackInv'
<1> DEFINE m == call[c].row
           left == {x \in rack : x.unit # m.unit}
<1>1. call[c].pc = "read" /\ call[c].op = "remove" /\ UpToDate(c) /\ m \in Installed
  BY DEF RemoveCommits, Reads, RackInv, KeptInv, KnowsRows
<1>2. CASE ~(m.unit \notin gone[c] /\ Refers(m))
  <2>1. RollsBack(c)
    BY <1>2 DEF RemoveCommits
  <2>2. c # alone
    BY <1>1, <1>2 DEF UpToDate, RackInv, TablesSound, ModelsExist, TableRows, Refers
  <2> QED
    BY <1>1, <2>1, <2>2, RackRollsBack
<1>3. CASE m.unit \notin gone[c] /\ Refers(m)
  <2>1. Commits(c, left, inventory \cup {Stored(m)}, Loading, {m.unit})
    BY <1>3 DEF RemoveCommits
  <2>2. Copies(Stored(m), m)
    BY DEF Stored, Item, Copies
  <2>3. \A r \in (inventory \cup {Stored(m)}) \cup left : r.model = None \/ catalogue[r.model] # None
    BY <1>3, <2>2 DEF RackInv, TablesSound, ModelsExist, TableRows, Refers, Copies
  <2>4. ASSUME c = alone
        PROVE  \A r \in (inventory \cup {Stored(m)}) \cup left : \E o \in TableRows : Copies(r, o)
    <3>1. m \in TableRows
      BY <1>1, <2>4 DEF UpToDate, TableRows
    <3>2. \A r \in inventory \cup left : r \in TableRows /\ Copies(r, r)
      BY DEF TableRows, Copies
    <3> QED
      BY <2>2, <3>1, <3>2
  <2>5. Fits(rack) => Fits(left)
    BY FitsLeft
  <2>6. Loading.pc # "read"
    BY DEF Loading, Call
  <2> HIDE DEF m, left
  <2> QED
    BY <1>1, <2>1, <2>3, <2>4, <2>5, <2>6, RackCommits
<1> QED
  BY <1>2, <1>3

\* Machines that keep their slots and grow no larger fit as before.
LEMMA FitsStill ==
    ASSUME NEW rows \in SUBSET Installed, NEW others \in SUBSET Installed, One(others), Fits(rows),
           \A m \in others : \E x \in rows : x.unit = m.unit /\ x.slot = m.slot /\ m.size <= x.size
    PROVE  Fits(others)
<1>1. ASSUME NEW m \in others PROVE FitsAt(m.size, m.slot)
  <2>1. PICK x \in rows : x.slot = m.slot /\ m.size <= x.size
    OBVIOUS
  <2>2. m.size \in {1, 2} /\ x.size \in {1, 2} /\ FitsAt(x.size, x.slot)
    BY DEF Installed, Fits
  <2> QED
    BY <2>1, <2>2 DEF FitsAt
<1>2. ASSUME NEW m \in others, NEW n \in others, m # n
      PROVE  Cells(m.size, m.slot) \cap Cells(n.size, n.slot) = {}
  <2>1. PICK x \in rows : x.unit = m.unit /\ x.slot = m.slot /\ m.size <= x.size
    OBVIOUS
  <2>2. PICK y \in rows : y.unit = n.unit /\ y.slot = n.slot /\ n.size <= y.size
    OBVIOUS
  <2>3. x # y
    BY <1>2, <2>1, <2>2 DEF One
  <2>4. Cells(x.size, x.slot) \cap Cells(y.size, y.slot) = {}
    BY <2>3 DEF Fits
  <2>5. /\ m.size \in {1, 2} /\ x.size \in {1, 2} /\ n.size \in {1, 2} /\ y.size \in {1, 2}
        /\ m.slot \in Int /\ n.slot \in Int
    BY MachinesAssumption DEF Installed, Slots
  <2>6. /\ Cells(m.size, m.slot) \subseteq Cells(x.size, x.slot)
        /\ Cells(n.size, n.slot) \subseteq Cells(y.size, y.slot)
    BY <2>1, <2>2, <2>5 DEF Cells
  <2> QED
    BY <2>4, <2>6
<1> QED
  BY <1>1, <1>2 DEF Fits

LEMMA RackToggles ==
    ASSUME KeptInv, KeptInv', RackInv, NEW c \in Calls, ToggleCommits(c)
    PROVE  RackInv'
<1> DEFINE m == call[c].row
           machines == Switched(rack, m.unit, m.on)
<1>1. call[c].pc = "read" /\ call[c].op = "toggle" /\ UpToDate(c)
  BY DEF ToggleCommits, Reads, RackInv
<1>2. CASE m.unit \in gone[c]
  <2>1. RollsBack(c) /\ c # alone
    BY <1>1, <1>2 DEF ToggleCommits, UpToDate
  <2> QED
    BY <1>1, <2>1, RackRollsBack
<1>3. CASE m.unit \notin gone[c]
  <2>1. Commits(c, machines, inventory, Loading, {})
    BY <1>3 DEF ToggleCommits
  <2>2. rack \in SUBSET Installed /\ machines \in SUBSET Installed /\ One(machines)
    <3>1. rack' = machines
      BY <2>1 DEF Commits
    <3> HIDE DEF machines
    <3> QED
      BY <3>1 DEF KeptInv, RowsAreKept, Installed, Models, Slots, One
  <2>3. ASSUME NEW r \in machines
        PROVE  \E x \in rack : x.slot = r.slot /\ Copies(r, x)
    <3>1. PICK x \in rack : r = (IF x.unit = m.unit THEN [x EXCEPT !.on = m.on] ELSE x)
      BY DEF Switched
    <3>2. x \in Installed
      BY <2>2
    <3> HIDE DEF m
    <3>3. x.slot = r.slot /\ Copies(r, x)
      BY <3>1, <3>2 DEF Installed, Copies
    <3> QED
      BY <3>3
  <2>4. \A r \in inventory \cup machines : r.model = None \/ catalogue[r.model] # None
    BY <2>3 DEF RackInv, TablesSound, ModelsExist, TableRows, Copies
  <2>5. \A r \in inventory \cup machines : \E o \in TableRows : Copies(r, o)
    BY <2>3 DEF TableRows, Copies
  <2>6. ASSUME Fits(rack) PROVE Fits(machines)
    <3>1. \A r \in machines : r.size \in {1, 2}
      BY <2>2 DEF Installed
    <3>2. \A r \in machines : \E x \in rack : x.unit = r.unit /\ x.slot = r.slot /\ r.size <= x.size
      BY <2>3, <3>1 DEF Copies
    <3> HIDE DEF machines
    <3> QED
      BY <2>2, <2>6, <3>2, FitsStill
  <2>7. Loading.pc # "read"
    BY DEF Loading, Call
  <2> HIDE DEF m, machines
  <2> QED
    BY <1>1, <2>1, <2>4, <2>5, <2>6, <2>7, RackCommits
<1> QED
  BY <1>2, <1>3

-----------------------------------------------------------------------------
(* Machines that come and go, and the catalogue.                            *)

LEMMA RackGives ==
    ASSUME KeptInv, RackInv, NEW c \in Calls, PurchaseCommits(c) \/ GrantCommits(c)
    PROVE  RackInv'
<1> DEFINE i == call[c].row
<1>1. /\ call[c].pc = "read" /\ call[c].op \in {"grant", "pay"} /\ UpToDate(c)
  BY DEF PurchaseCommits, GrantCommits, Reads, RackInv
<1>2. CASE RollsBack(c)
  <2>1. c # alone \/ Refers(i)
    BY <1>1 DEF UpToDate, Refers
  <2>2. ~Refers(i)
    <3>1. ASSUME Refers(i) PROVE inventory' = inventory \cup {i} /\ owned' = owned \cup {i.unit}
      BY <3>1 DEF PurchaseCommits, GrantCommits, Gives
    <3>2. i.unit \notin owned /\ owned' = owned
      BY <1>1, <1>2 DEF KeptInv, GiftsAreNew, Giving, RollsBack, machinesTables
    <3> QED
      BY <3>1, <3>2
  <2> QED
    BY <1>1, <1>2, <2>1, <2>2, RackRollsBack
<1>3. CASE ~RollsBack(c)
  <2>1. /\ Refers(i) /\ inventory' = inventory \cup {i} /\ Step(c, NoCall, {})
        /\ UNCHANGED <<catalogue, rack, refused>>
    BY <1>3 DEF PurchaseCommits, GrantCommits, Gives
  <2>2. (raced' <=> raced) /\ (resized' <=> resized) /\ (c = alone \/ raced)
    BY <1>1, <2>1 DEF Step, RackInv, Busy
  <2>3. ModelsExist'
    BY <2>1 DEF RackInv, TablesSound, ModelsExist, TableRows, Refers
  <2>4. RackFits'
    BY <2>1, <2>2 DEF RackInv, TablesSound, RackFits, Fits, FitsAt, Cells
  <2>5. InstancesMatchCatalogue' /\ CatalogueKeepsOwned'
    BY <1>1, <2>1, <2>2 DEF UpToDate, RackInv, TablesSound, InstancesMatchCatalogue, CatalogueKeepsOwned
  <2>6. NoCall.pc # "read"
    BY DEF NoCall, Call
  <2> QED
    BY <1>1, <2>1, <2>3, <2>4, <2>5, <2>6, RackGoesOn
    DEF TablesSound, UndisturbedCallsSucceed, RackInv
<1> QED
  BY <1>2, <1>3

LEMMA RackKeepsEntries ==
    ASSUME KeptInv, RackInv, NEW c \in Calls, removeInventoryItem(c) \/ PulseArrives(c)
    PROVE  RackInv'
<1>1. PICK U : Enter(c, NoCall, U) /\ UNCHANGED <<catalogue, rack, resized>>
  BY DEF removeInventoryItem, PulseArrives
<1>2. raced => raced'
  BY <1>1 DEF Enter
<1>3. RackFits'
  BY <1>1, <1>2 DEF RackInv, TablesSound, RackFits, Fits, FitsAt, Cells
<1>4. ASSUME NEW r \in TableRows'
      PROVE  r \in TableRows \/ (r.model = None /\ ModelOf[r.unit] = None)
  <2>1. CASE removeInventoryItem(c)
    BY <1>1, <2>1 DEF removeInventoryItem, TableRows
  <2>2. CASE PulseArrives(c)
    <3>1. PICK u \in Unused : ModelOf[u] = None /\ inventory' = inventory \cup {Item(u, None, PulseStats)}
      BY <2>2 DEF PulseArrives
    <3>2. Item(u, None, PulseStats).unit = u /\ Item(u, None, PulseStats).model = None
      BY DEF Item
    <3> QED
      BY <1>1, <3>1, <3>2 DEF TableRows
  <2> QED
    BY <2>1, <2>2
<1>5. ModelsExist' /\ InstancesMatchCatalogue' /\ CatalogueKeepsOwned'
  BY <1>1, <1>2, <1>4 DEF RackInv, TablesSound, ModelsExist, InstancesMatchCatalogue, CatalogueKeepsOwned, TableRows
<1>6. UpToDate(c)'
  BY <1>1 DEF Enter, KeptInv, CallsAreCalls, NoCall, Call, UpToDate
<1> QED
  BY <1>1, <1>3, <1>5, <1>6, RackEnter DEF TablesSound

LEMMA RackRestated ==
    ASSUME KeptInv, KeptInv', RackInv, NEW c \in Calls, updateMiner(c)
    PROVE  RackInv'
<1>1. PICK m \in Models, st \in Stats :
        /\ Enter(c, IF m \in {r.model : r \in inventory \cup rack} THEN Loading ELSE NoCall, {})
        /\ catalogue' = [catalogue EXCEPT ![m] = st]
        /\ rack' = Restated(rack, m, st) /\ inventory' = Restated(inventory, m, st)
        /\ resized' = (resized \/ \E x \in rack : x.model = m /\ x.size < st.size)
  BY DEF updateMiner, Propagated
<1> DEFINE q == IF m \in {r.model : r \in inventory \cup rack} THEN Loading ELSE NoCall
<1>2. q.pc # "read" /\ Enter(c, q, {})
  BY <1>1 DEF Loading, NoCall, Call
<1> HIDE DEF q
<1>3. /\ m # None /\ st # None /\ st.hash \in Nat /\ st.size \in {1, 2}
      /\ st = [hash |-> st.hash, size |-> st.size]
  <2>1. st \in [hash : Nat, size : {1, 2}]
    BY MachinesAssumption
  <2> QED
    BY <2>1, MachinesAssumption DEF Models
<1>4. /\ catalogue'[m] = st /\ \A n \in Models \ {m} : catalogue'[n] = catalogue[n]
      /\ raced => raced'
  BY <1>1 DEF KeptInv, Enter
<1>5. inventory \subseteq Items /\ rack \subseteq Installed
  BY DEF KeptInv, RowsAreKept
<1> DEFINE Follows(r, x) ==
             /\ r.unit = x.unit /\ r.model = x.model
             /\ x.model = m => r.hash = st.hash /\ r.size = st.size
             /\ x.model # m => r.hash = x.hash /\ r.size = x.size
<1>6. ASSUME NEW r \in rack' PROVE \E x \in rack : Follows(r, x) /\ r.slot = x.slot
  <2>1. PICK x \in rack : r = (IF x.model = m THEN [x EXCEPT !.hash = st.hash, !.size = st.size] ELSE x)
    BY <1>1 DEF Restated
  <2>2. x \in Installed
    BY <1>5
  <2> QED
    BY <1>3, <2>1, <2>2 DEF Installed
<1>7. ASSUME NEW r \in inventory' PROVE \E x \in inventory : Follows(r, x)
  <2>1. PICK x \in inventory : r = (IF x.model = m THEN [x EXCEPT !.hash = st.hash, !.size = st.size] ELSE x)
    BY <1>1 DEF Restated
  <2>2. x \in Items
    BY <1>5
  <2> QED
    BY <1>3, <2>1, <2>2 DEF Items
<1>8. ASSUME NEW r \in TableRows'
      PROVE  \E x \in TableRows : Follows(r, x) /\ (x.model = None \/ x.model \in Models)
  <2>1. PICK x \in TableRows : Follows(r, x)
    BY <1>6, <1>7 DEF TableRows
  <2>2. x.model = None \/ x.model \in Models
    BY <1>5 DEF TableRows, Items, Installed
  <2> QED
    BY <2>1, <2>2
<1>9. ModelsExist'
  <2> SUFFICES ASSUME NEW r \in TableRows', r.model # None PROVE catalogue'[r.model] # None
    BY DEF ModelsExist
  <2> QED
    BY <1>3, <1>4, <1>8 DEF RackInv, TablesSound, ModelsExist
<1>10. CASE raced'
  BY <1>2, <1>9, <1>10, RackEnter
  DEF TablesSound, RackFits, InstancesMatchCatalogue, CatalogueKeepsOwned, Enter, KeptInv, CallsAreCalls, UpToDate
<1>11. CASE ~raced'
  <2>1. InstancesMatchCatalogue'
    <3> SUFFICES ASSUME NEW r \in TableRows', r.model # None
                 PROVE  catalogue'[r.model] = [hash |-> r.hash, size |-> r.size]
      BY DEF InstancesMatchCatalogue, TableRows
    <3>1. PICK x \in TableRows : Follows(r, x) /\ x.model \in Models
      BY <1>8
    <3>2. CASE x.model = m
      BY <1>3, <1>4, <3>1, <3>2
    <3>3. CASE x.model # m
      <4>1. catalogue[x.model] = [hash |-> x.hash, size |-> x.size]
        BY <1>4, <1>11, <3>1 DEF RackInv, TablesSound, InstancesMatchCatalogue, TableRows
      <4> QED
        BY <1>4, <3>1, <3>3, <4>1
    <3> QED
      BY <3>2, <3>3
  <2>2. CatalogueKeepsOwned'
    BY <1>4, <1>8, <1>11 DEF RackInv, TablesSound, CatalogueKeepsOwned, TableRows
  <2>3. RackFits'
    <3> SUFFICES ASSUME ~resized' PROVE Fits(rack)'
      BY DEF RackFits
    <3>1. Fits(rack) /\ \A x \in rack : ~(x.model = m /\ x.size < st.size)
      BY <1>1, <1>4, <1>11 DEF RackInv, TablesSound, RackFits
    <3>2. \A r \in rack' : \E x \in rack : x.unit = r.unit /\ x.slot = r.slot /\ r.size <= x.size
      <4> SUFFICES ASSUME NEW r \in rack'
                   PROVE  \E x \in rack : x.unit = r.unit /\ x.slot = r.slot /\ r.size <= x.size
        OBVIOUS
      <4>1. PICK x \in rack : Follows(r, x) /\ r.slot = x.slot
        BY <1>6
      <4>2. x.size \in {1, 2} /\ ~(x.model = m /\ x.size < st.size)
        BY <1>5, <3>1 DEF Installed
      <4>3. r.size <= x.size
        BY <1>3, <4>1, <4>2
      <4> QED
        BY <4>1, <4>3
    <3>3. rack' \in SUBSET Installed /\ One(rack')
      BY DEF KeptInv, RowsAreKept, Installed, Models, Slots, One
    <3>4. Fits(rack')
      BY <1>5, <3>1, <3>2, <3>3, FitsStill
    <3> QED
      BY <3>4 DEF Fits, FitsAt, Cells
  <2>4. UpToDate(c)'
    BY <1>2 DEF Enter, KeptInv, CallsAreCalls, UpToDate
  <2> QED
    BY <1>2, <1>9, <2>1, <2>2, <2>3, <2>4, RackEnter DEF TablesSound
<1> QED
  BY <1>10, <1>11

LEMMA RackLosesModel ==
    ASSUME KeptInv, RackInv, NEW c \in Calls, DeleteCommits(c)
    PROVE  RackInv'
<1> DEFINE m == call[c].row.model
<1>1. call[c].pc = "read" /\ call[c].op = "delete" /\ UpToDate(c)
  BY DEF DeleteCommits, Reads, RackInv
<1>2. CASE catalogue[m] = None
  BY <1>1, <1>2, RackRollsBack DEF DeleteCommits, UpToDate
<1>3. CASE catalogue[m] # None
  <2>1. /\ catalogue' = [catalogue EXCEPT ![m] = None]
        /\ rack' = Unnamed(rack, m) /\ inventory' = Unnamed(inventory, m)
        /\ Step(c, NoCall, {}) /\ refused' = refused
    BY <1>3 DEF DeleteCommits
  <2>2. (raced' <=> raced) /\ (resized' <=> resized) /\ (c = alone \/ raced)
    BY <1>1, <2>1 DEF Step, RackInv, Busy
  <2>3. c = alone => ~InUse(m)
    BY <1>1 DEF UpToDate
  <2>4. inventory \subseteq Items /\ rack \subseteq Installed /\ catalogue \in [Models -> Stats \cup {None}]
    BY DEF KeptInv, RowsAreKept
  <2>5. NoCall.pc # "read"
    BY DEF NoCall, Call
  <2> HIDE DEF m
  <2>6. \A n \in Models \ {m} : catalogue'[n] = catalogue[n]
    BY <2>1, <2>4
  <2>7. ASSUME NEW r \in TableRows'
        PROVE  r.model = None \/ (r.model \in Models \ {m} /\ \E x \in TableRows : x.model = r.model)
    <3>1. PICK x \in TableRows : r = (IF x.model = m THEN [x EXCEPT !.model = None] ELSE x)
      BY <2>1 DEF TableRows, Unnamed
    <3>2. x.model = None \/ x.model \in Models
      BY <2>4 DEF TableRows, Items, Installed
    <3>3. CASE x.model = m
      <4>1. r.model = None
        BY <2>4, <3>1, <3>3 DEF TableRows, Items, Installed
      <4> QED
        BY <4>1
    <3>4. CASE x.model # m
      BY <3>1, <3>2, <3>4
    <3> QED
      BY <3>3, <3>4
  <2>8. ModelsExist'
    <3> SUFFICES ASSUME NEW r \in TableRows', r.model # None PROVE catalogue'[r.model] # None
      BY DEF ModelsExist
    <3> QED
      BY <2>6, <2>7 DEF RackInv, TablesSound, ModelsExist
  <2>9. CASE c = alone
    <3>1. \A r \in TableRows : r.model # m
      BY <2>3, <2>9 DEF InUse, TableRows
    <3>2. rack' = rack /\ inventory' = inventory
      BY <2>1, <3>1 DEF Unnamed, TableRows
    <3>3. \A r \in TableRows : r.model = None \/ r.model \in Models \ {m}
      BY <2>4, <3>1 DEF TableRows, Items, Installed
    <3>4. RackFits'
      BY <2>2, <3>2 DEF RackInv, TablesSound, RackFits, Fits, FitsAt, Cells
    <3>5. InstancesMatchCatalogue' /\ CatalogueKeepsOwned'
      BY <2>2, <2>6, <3>2, <3>3 DEF RackInv, TablesSound, InstancesMatchCatalogue, CatalogueKeepsOwned, TableRows
    <3> QED
      BY <1>1, <2>1, <2>5, <2>8, <3>4, <3>5, RackGoesOn DEF TablesSound, UndisturbedCallsSucceed, RackInv
  <2>10. CASE c # alone
    <3>1. raced'
      BY <2>2, <2>10
    <3>2. TablesSound'
      BY <2>8, <3>1 DEF TablesSound, RackFits, InstancesMatchCatalogue, CatalogueKeepsOwned
    <3> QED
      BY <1>1, <2>1, <2>5, <3>2, RackGoesOn DEF UndisturbedCallsSucceed, RackInv
  <2> QED
    BY <2>9, <2>10
<1> QED
  BY <1>2, <1>3

-----------------------------------------------------------------------------
(* The theorem.                                                             *)

LEMMA RackStep == KeptInv /\ KeptInv' /\ RackInv /\ [MachinesNext]_machinesVars => RackInv'
<1> SUFFICES ASSUME KeptInv, KeptInv', RackInv, [MachinesNext]_machinesVars PROVE RackInv'
  OBVIOUS
<1>1. CASE UNCHANGED machinesVars
  <2>1. TablesSound'
    BY <1>1, TablesStay DEF machinesVars, machinesTables, machinesGhosts, RackInv
  <2>2. \A c \in Calls : UpToDate(c)'
    BY <1>1 DEF machinesVars, machinesTables, machinesGhosts, RackInv, UpToDate, Slots, Occupants, InUse
  <2> QED
    BY <1>1, <2>1, <2>2
    DEF machinesVars, machinesTables, machinesGhosts, RackInv, Busy, UndisturbedCallsSucceed
<1>2. ASSUME NEW c \in Calls,
             \/ installInventoryItem(c) \/ moveMachine(c) \/ removeMachine(c) \/ toggleMachine(c)
             \/ purchaseMiner(c) \/ grantMinerInventoryToAllUsers(c) \/ deleteMiner(c)
             \/ reloadMinerProfile(c)
      PROVE  RackInv'
  BY <1>2, RackKeepsReads
<1>3. ASSUME NEW c \in Calls,
             PurchaseChecks(c) \/ LoadProfile(c) \/ LoadFails(c) \/ ApplyProfile(c)
      PROVE  RackInv'
  BY <1>3, RackKeepsLooks
<1>4. ASSUME NEW c \in Calls,
             \/ InstallCommits(c) \/ MoveCommits(c) \/ RemoveCommits(c) \/ ToggleCommits(c)
             \/ PurchaseCommits(c) \/ GrantCommits(c) \/ DeleteCommits(c)
      PROVE  RackInv'
  BY <1>4, RackInstalls, RackMoves, RackRemoves, RackToggles, RackGives, RackLosesModel
<1>5. ASSUME NEW c \in Calls, removeInventoryItem(c) \/ PulseArrives(c) \/ updateMiner(c)
      PROVE  RackInv'
  BY <1>5, RackKeepsEntries, RackRestated
<1> QED
  BY <1>1, <1>2, <1>3, <1>4, <1>5 DEF MachinesNext, listMachines

\* Whatever requests do one after the other, machines share no slot, have what
\* the catalogue gives their model, whose row is never gone, and no request is
\* rolled back but for a machine without a model; requests that overlap are
\* excused as each part says.
THEOREM RackStaysSound == MachinesSpec => []RackIsSound
<1>1. RackInv => RackIsSound
  BY DEF RackInv, TablesSound, RackFits, Fits, RackIsSound, SlotsDoNotOverlap
<1>2. KeptInv /\ [MachinesNext]_machinesVars => KeptInv'
  BY KeptStep
<1> QED
  BY <1>1, <1>2, KeptBegins, RackBegins, RackStep, PTL DEF MachinesSpec
-----------------------------------------------------------------------------
(* Types.                                                                   *)

\* What the tables' invariant leaves open.
RequestTypes ==
    /\ DOMAIN call = Calls /\ made \in 0 .. MaxCalls
    /\ gone \in [Calls -> SUBSET Units]
    /\ \A c \in Calls : call[c].others \subseteq Installed /\ call[c].seen \subseteq Items
    /\ alone \in Calls \cup {None}

GhostTypes ==
    /\ engine \subseteq Items /\ funds \in Int
    /\ refused \subseteq {"named", "nameless"}
    /\ {raced, resized, muddled} \subseteq BOOLEAN

TypesInv == RequestTypes /\ GhostTypes

LEMMA TypesBegin == MachinesInit => TypesInv
<1> SUFFICES ASSUME MachinesInit PROVE TypesInv
  OBVIOUS
<1>1. /\ DOMAIN call = Calls /\ made = 0 /\ MaxCalls \in Nat
      /\ \A c \in Calls : call[c].others = {} /\ call[c].seen = {}
      /\ gone = [c \in Calls |-> {}] /\ alone = None
  BY MachinesAssumption DEF MachinesInit, NoCall, Call
<1>2. made \in 0 .. MaxCalls
  BY <1>1
<1>3. gone \in [Calls -> SUBSET Units]
  BY <1>1
<1>4. engine = {} /\ funds \in Int /\ refused = {}
  BY MachinesAssumption DEF MachinesInit
<1>5. {raced, resized, muddled} \subseteq BOOLEAN
  BY DEF MachinesInit
<1>6. RequestTypes
  BY <1>1, <1>2, <1>3 DEF RequestTypes
<1>7. GhostTypes
  BY <1>4, <1>5 DEF GhostTypes
<1> QED
  BY <1>6, <1>7 DEF TypesInv

LEMMA EnterTypes ==
    ASSUME TypesInv, NEW c \in Calls, NEW q, NEW U \in SUBSET Units, Enter(c, q, U),
           q.others \subseteq Installed, q.seen \subseteq Items
    PROVE  /\ RequestTypes' /\ engine' = engine /\ refused' = refused
           /\ raced' \in BOOLEAN /\ muddled' \in BOOLEAN
<1>1. call' = [call EXCEPT ![c] = q] /\ made' = made + 1 /\ made < MaxCalls /\ Deletes(c, U)
      /\ alone' \in {c, None}
  BY DEF Enter
<1>2. gone' \in [Calls -> SUBSET Units]
  BY <1>1 DEF TypesInv, RequestTypes, Deletes
<1>3. made' \in 0 .. MaxCalls
  BY <1>1, MachinesAssumption DEF TypesInv, RequestTypes
<1>4. DOMAIN call' = Calls /\ \A d \in Calls : call'[d].others \subseteq Installed /\ call'[d].seen \subseteq Items
  BY <1>1 DEF TypesInv, RequestTypes
<1>5. (raced' \in BOOLEAN) /\ (muddled' \in BOOLEAN)
  BY DEF Enter
<1>6. Installed' = Installed /\ Items' = Items
  BY DEF Installed, Items, Models, Slots
<1> QED
  BY <1>1, <1>2, <1>3, <1>4, <1>5, <1>6 DEF RequestTypes, Enter

LEMMA StepTypes ==
    ASSUME TypesInv, NEW c \in Calls, NEW q, NEW U \in SUBSET Units, Step(c, q, U),
           q.others \subseteq Installed, q.seen \subseteq Items
    PROVE  RequestTypes' /\ raced' = raced /\ resized' = resized
<1>1. call' = [call EXCEPT ![c] = q] /\ Deletes(c, U) /\ UNCHANGED <<made, alone, raced, resized>>
  BY DEF Step
<1>2. gone' \in [Calls -> SUBSET Units]
  BY <1>1 DEF TypesInv, RequestTypes, Deletes
<1>4. DOMAIN call' = Calls /\ \A d \in Calls : call'[d].others \subseteq Installed /\ call'[d].seen \subseteq Items
  BY <1>1 DEF TypesInv, RequestTypes
<1> QED
  BY <1>1, <1>2, <1>4 DEF RequestTypes, TypesInv, Installed, Items, Models, Slots

LEMMA PlainCalls ==
    /\ NoCall.others = {} /\ NoCall.seen = {} /\ Loading.others = {} /\ Loading.seen = {}
BY DEF NoCall, Loading, Call

LEMMA RollsBackTypes ==
    ASSUME TypesInv, NEW c \in Calls, RollsBack(c)
    PROVE  TypesInv'
<1>1. RequestTypes' /\ raced' = raced /\ resized' = resized
  BY StepTypes, PlainCalls DEF RollsBack
<1>2. refused' \subseteq {"named", "nameless"}
  BY DEF RollsBack, TypesInv, GhostTypes
<1> QED
  BY <1>1, <1>2 DEF TypesInv, GhostTypes, RollsBack, machinesTables, Items, Models

LEMMA CommitsTypes ==
    ASSUME TypesInv, NEW c \in Calls, NEW machines, NEW items, NEW U \in SUBSET Units,
           Commits(c, machines, items, Loading, U)
    PROVE  TypesInv'
<1>1. RequestTypes' /\ raced' = raced /\ resized' = resized
  BY StepTypes, PlainCalls DEF Commits
<1> QED
  BY <1>1 DEF TypesInv, GhostTypes, Commits, Items, Models

LEMMA BeginTypes ==
    ASSUME TypesInv, NEW c \in Calls, NEW q, Begin(c, q),
           q.others \subseteq Installed, q.seen \subseteq Items
    PROVE  TypesInv'
<1>1. /\ RequestTypes' /\ engine' = engine /\ refused' = refused
      /\ raced' \in BOOLEAN /\ muddled' \in BOOLEAN
  BY EnterTypes DEF Begin
<1>2. funds' = funds /\ resized' = resized
  BY DEF Begin, machinesTables
<1> QED
  BY <1>1, <1>2 DEF TypesInv, GhostTypes, Items, Models

\* What a request that only reads has read.
LEMMA BeginsWith ==
    ASSUME NEW c \in Calls,
           \/ installInventoryItem(c) \/ moveMachine(c) \/ removeMachine(c) \/ toggleMachine(c)
           \/ purchaseMiner(c) \/ grantMinerInventoryToAllUsers(c) \/ deleteMiner(c)
           \/ reloadMinerProfile(c)
    PROVE  \E q : /\ Begin(c, q) /\ q.op # "pay" /\ q.seen = {}
                  /\ q.others = {} \/ \E i, s, u : q.others = Occupants(i, s, u)
<1>1. ASSUME NEW pc, NEW op, NEW i, NEW s, NEW o, Begin(c, Call(pc, op, i, s, o, {})), op # "pay",
             o = {} \/ \E j, t, u : o = Occupants(j, t, u)
      PROVE  \E q : /\ Begin(c, q) /\ q.op # "pay" /\ q.seen = {}
                    /\ q.others = {} \/ \E j, t, u : q.others = Occupants(j, t, u)
  <2> DEFINE q == Call(pc, op, i, s, o, {})
  <2>1. q.op = op /\ q.others = o /\ q.seen = {}
    BY DEF Call
  <2>2. Begin(c, q)
    BY <1>1
  <2> HIDE DEF q
  <2> QED
    BY <1>1, <2>1, <2>2
<1>2. CASE installInventoryItem(c)
  BY <1>1, <1>2 DEF installInventoryItem
<1>3. CASE moveMachine(c)
  BY <1>1, <1>3 DEF moveMachine
<1>4. CASE removeMachine(c)
  BY <1>1, <1>4 DEF removeMachine
<1>5. CASE toggleMachine(c)
  BY <1>1, <1>5 DEF toggleMachine
<1>6. CASE deleteMiner(c)
  BY <1>1, <1>6 DEF deleteMiner
<1>7. CASE reloadMinerProfile(c)
  BY <1>1, <1>7 DEF reloadMinerProfile, Loading
<1>8. CASE purchaseMiner(c)
  BY <1>1, <1>8 DEF purchaseMiner, ReadModel
<1>9. CASE grantMinerInventoryToAllUsers(c)
  BY <1>1, <1>9 DEF grantMinerInventoryToAllUsers, ReadModel
<1> QED
  BY <1>2, <1>3, <1>4, <1>5, <1>6, <1>7, <1>8, <1>9

LEMMA TypesStep == KeptInv /\ TypesInv /\ [MachinesNext]_machinesVars => TypesInv'
<1> SUFFICES ASSUME KeptInv, TypesInv, [MachinesNext]_machinesVars PROVE TypesInv'
  OBVIOUS
<1>1. CASE UNCHANGED machinesVars
  BY <1>1 DEF machinesVars, machinesTables, machinesGhosts, TypesInv, RequestTypes, GhostTypes,
     Installed, Items, Models, Slots
<1>2. rack \subseteq Installed /\ inventory \subseteq Items
  BY DEF KeptInv, RowsAreKept
<1>3. ASSUME NEW S \in SUBSET Installed PROVE UnitsOf(S) \in SUBSET Units
  BY <1>3 DEF UnitsOf, Installed
<1>4. ASSUME NEW c \in Calls,
             \/ installInventoryItem(c) \/ moveMachine(c) \/ removeMachine(c) \/ toggleMachine(c)
             \/ purchaseMiner(c) \/ grantMinerInventoryToAllUsers(c) \/ deleteMiner(c)
             \/ reloadMinerProfile(c)
      PROVE  TypesInv'
  <2>1. PICK q : Begin(c, q) /\ q.seen = {} /\ (q.others = {} \/ \E i, s, u : q.others = Occupants(i, s, u))
    BY <1>4, BeginsWith
  <2>2. q.others \subseteq Installed
    BY <1>2, <2>1 DEF Occupants
  <2> QED
    BY <2>1, <2>2, BeginTypes
<1>5. ASSUME NEW c \in Calls, removeInventoryItem(c) \/ PulseArrives(c) \/ updateMiner(c)
      PROVE  TypesInv'
  <2>1. PICK q \in {NoCall, Loading}, U \in SUBSET Units : Enter(c, q, U)
    <3>1. CASE removeInventoryItem(c)
      <4>1. PICK i \in inventory : Enter(c, NoCall, {i.unit})
        BY <3>1 DEF removeInventoryItem
      <4>2. {i.unit} \in SUBSET Units
        BY <1>2 DEF Items
      <4> QED
        BY <4>1, <4>2
    <3>2. CASE PulseArrives(c)
      BY <3>2 DEF PulseArrives
    <3>3. CASE updateMiner(c)
      BY <3>3 DEF updateMiner
    <3> QED
      BY <1>5, <3>1, <3>2, <3>3
  <2>2. /\ RequestTypes' /\ engine' = engine /\ refused' = refused
        /\ raced' \in BOOLEAN /\ muddled' \in BOOLEAN
    BY <2>1, EnterTypes, PlainCalls
  <2>3. funds' = funds
    BY <1>5 DEF removeInventoryItem, PulseArrives, updateMiner
  <2>4. resized' \in BOOLEAN
    <3>1. CASE removeInventoryItem(c) \/ PulseArrives(c)
      BY <3>1 DEF removeInventoryItem, PulseArrives, TypesInv, GhostTypes
    <3>2. CASE updateMiner(c)
      BY <3>2 DEF updateMiner
    <3> QED
      BY <1>5, <3>1, <3>2
  <2> QED
    BY <2>2, <2>3, <2>4 DEF TypesInv, GhostTypes, Items, Models
<1>6. ASSUME NEW c \in Calls,
             \/ InstallCommits(c) \/ MoveCommits(c) \/ RemoveCommits(c) \/ ToggleCommits(c)
      PROVE  TypesInv'
  <2>1. call[c].pc = "read" /\ KnowsRows(c)
    BY <1>6 DEF InstallCommits, MoveCommits, RemoveCommits, ToggleCommits, Reads, KeptInv
  <2>2. call[c].others \subseteq Installed
    BY DEF TypesInv, RequestTypes
  <2>3. ASSUME NEW s, NEW t PROVE call[c].others \cup Previous(s, t) \subseteq Installed
    BY <1>2, <2>2 DEF Previous
  <2>4. CASE RollsBack(c)
    BY <2>4, RollsBackTypes
  <2>5. CASE InstallCommits(c) /\ ~RollsBack(c)
    <3>1. call[c].row \in Items
      BY <2>1, <2>5 DEF KnowsRows, InstallCommits, Reads
    <3> DEFINE out == call[c].others \cup Previous(call[c].slot, UnitsOf(call[c].others))
    <3>2. \E machines, items : Commits(c, machines, items, Loading, UnitsOf(out) \cup {call[c].row.unit})
      BY <2>5 DEF InstallCommits
    <3>3. UnitsOf(out) \cup {call[c].row.unit} \in SUBSET Units
      BY <1>3, <2>3, <3>1 DEF Items
    <3> QED
      BY <3>2, <3>3, CommitsTypes
  <2>6. CASE MoveCommits(c) /\ ~RollsBack(c)
    <3> DEFINE out == call[c].others \cup Previous(call[c].slot, UnitsOf(call[c].others) \cup {call[c].row.unit})
    <3>2. \E machines, items : Commits(c, machines, items, Loading, UnitsOf(out))
      BY <2>6 DEF MoveCommits
    <3>3. UnitsOf(out) \in SUBSET Units
      BY <1>3, <2>3
    <3> QED
      BY <3>2, <3>3, CommitsTypes
  <2>7. CASE (RemoveCommits(c) \/ ToggleCommits(c)) /\ ~RollsBack(c)
    <3>1. call[c].row \in Installed
      BY <2>1, <2>7 DEF KnowsRows, RemoveCommits, ToggleCommits, Reads
    <3>2. \E machines, items : Commits(c, machines, items, Loading, {call[c].row.unit})
                            \/ Commits(c, machines, items, Loading, {})
      BY <2>7 DEF RemoveCommits, ToggleCommits
    <3>3. {call[c].row.unit} \in SUBSET Units
      BY <3>1 DEF Installed
    <3> QED
      BY <3>2, <3>3, CommitsTypes
  <2> QED
    BY <1>6, <2>4, <2>5, <2>6, <2>7
<1>7. ASSUME NEW c \in Calls, PurchaseChecks(c) \/ PurchaseCommits(c) \/ GrantCommits(c) \/ DeleteCommits(c)
      PROVE  TypesInv'
  <2>1. CASE RollsBack(c)
    BY <2>1, RollsBackTypes
  <2>2. CASE ~RollsBack(c)
    <3>1. PICK q \in {NoCall, [call[c] EXCEPT !.op = "pay"]} : Step(c, q, {})
      BY <1>7, <2>2 DEF PurchaseChecks, PurchaseCommits, GrantCommits, Gives, DeleteCommits
    <3>2. /\ [call[c] EXCEPT !.op = "pay"].others = call[c].others
          /\ [call[c] EXCEPT !.op = "pay"].seen = call[c].seen
      BY DEF KeptInv, CallsAreCalls, Call
    <3>3. RequestTypes' /\ raced' = raced /\ resized' = resized
      BY <3>1, <3>2, StepTypes, PlainCalls DEF TypesInv, RequestTypes
    <3>4. engine' = engine /\ refused' = refused /\ muddled' = muddled
      BY <1>7, <2>2 DEF PurchaseChecks, PurchaseCommits, GrantCommits, Gives, DeleteCommits
    <3>5. funds' = funds \/ funds' = funds - Price \/ funds' = funds - 0
      BY <1>7, <2>2 DEF PurchaseChecks, PurchaseCommits, GrantCommits, Gives, DeleteCommits, machinesTables
    <3>6. funds' \in Int
      BY <3>5, MachinesAssumption DEF TypesInv, GhostTypes
    <3> QED
      BY <3>3, <3>4, <3>6 DEF TypesInv, GhostTypes, Items, Models
  <2> QED
    BY <2>1, <2>2
<1>8. ASSUME NEW c \in Calls, LoadProfile(c) \/ LoadFails(c) \/ ApplyProfile(c)
      PROVE  TypesInv'
  <2>1. Active \subseteq Items
    <3>1. ASSUME NEW m \in rack PROVE Stored(m) \in Items
      BY <1>2 DEF Installed, Items, Stored, Item
    <3> QED
      BY <3>1 DEF Active
  <2> DEFINE Took == Call("apply", "none", NoRow, 0, {}, Active)
  <2>2. Took.others = {} /\ Took.seen = Active
    BY DEF Call
  <2>3. \E q \in {NoCall, Took} : Step(c, q, {})
    BY <1>8 DEF LoadProfile, LoadFails, ApplyProfile
  <2> HIDE DEF Took
  <2>4. RequestTypes' /\ raced' = raced /\ resized' = resized
    BY <2>1, <2>2, <2>3, StepTypes, PlainCalls
  <2>5. funds' = funds /\ refused' = refused /\ (engine' = engine \/ engine' = call[c].seen)
    BY <1>8 DEF LoadProfile, LoadFails, ApplyProfile, machinesTables
  <2>6. muddled' \in BOOLEAN
    BY <1>8 DEF LoadProfile, LoadFails, ApplyProfile, TypesInv, GhostTypes
  <2>7. engine' \subseteq Items
    BY <2>5 DEF TypesInv, RequestTypes, GhostTypes
  <2> QED
    BY <2>4, <2>5, <2>6, <2>7 DEF TypesInv, GhostTypes, Items, Models
<1> QED
  BY <1>1, <1>4, <1>5, <1>6, <1>7, <1>8 DEF MachinesNext, listMachines

LEMMA MachinesTyped == KeptInv /\ TypesInv => MachinesTypeOK
<1> SUFFICES ASSUME KeptInv, TypesInv PROVE MachinesTypeOK
  OBVIOUS
<1>1. owned \subseteq Units
  BY DEF KeptInv, RowsAreKept, UnitsOf, Items, Installed
<1> QED
  BY <1>1 DEF KeptInv, RowsAreKept, TypesInv, RequestTypes, GhostTypes, MachinesTypeOK

-----------------------------------------------------------------------------
(* The price of overlapping purchases.                                      *)

Paying == {c \in Calls : Reads(c, "pay")}

\* Each purchase that has passed its check has a price still to take.
FundsInv == funds >= Price * (Cardinality(Paying) + 1 - Cardinality(Calls))

LEMMA FundsBegins == MachinesInit => FundsInv
<1> SUFFICES ASSUME MachinesInit PROVE FundsInv
  OBVIOUS
<1>1. Paying = {} /\ funds = Funds
  BY DEF MachinesInit, Paying, Reads, NoCall, Call
<1>2. Cardinality(Paying) = 0
  BY <1>1, FS_EmptySet
<1> DEFINE N == Cardinality(Calls)
<1>3. N \in Nat \ {0} /\ Price \in Nat /\ Funds \in Nat
  BY CallsAreCounted, MachinesAssumption
<1> HIDE DEF N
<1>4. Price * (0 + 1 - N) <= Price * 0
  <2>1. 0 + 1 - N \in Int /\ 0 + 1 - N <= 0
    BY <1>3
  <2> QED
    BY <1>3, <2>1, TimesGrowsInt
<1>5. Price * (0 + 1 - N) \in Int /\ Price * 0 = 0
  BY <1>3
<1>6. funds >= Price * (0 + 1 - N)
  BY <1>1, <1>3, <1>4, <1>5
<1> QED
  BY <1>2, <1>6 DEF FundsInv, N

\* A step that takes nothing and lets nobody pass.
LEMMA FundsStay ==
    ASSUME TypesInv, FundsInv, funds' = funds, Paying' \subseteq Paying
    PROVE  FundsInv'
<1> DEFINE N == Cardinality(Calls)
           P == Cardinality(Paying)
           Q == Cardinality(Paying')
<1>1. Paying \in SUBSET Calls /\ Paying' \in SUBSET Calls
  BY DEF Paying
<1>2. Q \in Nat /\ P \in Nat /\ Q <= P /\ N \in Nat
  BY <1>1, CallsAreCounted, FS_Subset
<1>3. funds \in Int /\ Price \in Nat /\ funds >= Price * (P + 1 - N)
  BY MachinesAssumption DEF TypesInv, GhostTypes, FundsInv
<1> HIDE DEF N, P, Q
<1>4. Q + 1 - N \in Int /\ P + 1 - N \in Int /\ Q + 1 - N <= P + 1 - N
  BY <1>2
<1>5. Price * (Q + 1 - N) <= Price * (P + 1 - N) /\ Price * (Q + 1 - N) \in Int /\ Price * (P + 1 - N) \in Int
  BY <1>3, <1>4, TimesGrowsInt
<1>6. funds >= Price * (Q + 1 - N)
  BY <1>3, <1>5
<1> QED
  BY <1>6 DEF FundsInv, N, Q

LEMMA OneGoesOn ==
    ASSUME DOMAIN call = Calls, NEW c \in Calls, NEW q, call' = [call EXCEPT ![c] = q]
    PROVE  /\ Paying' \subseteq Paying \cup {c}
           /\ ~(q.pc = "read" /\ q.op = "pay") => Paying' = Paying \ {c}
BY DEF Paying, Reads

LEMMA FundsStep == KeptInv /\ TypesInv /\ FundsInv /\ [MachinesNext]_machinesVars => FundsInv'
<1> SUFFICES ASSUME KeptInv, TypesInv, FundsInv, [MachinesNext]_machinesVars PROVE FundsInv'
  OBVIOUS
<1>1. CASE UNCHANGED machinesVars
  <2>1. Paying' \subseteq Paying /\ funds' = funds
    BY <1>1 DEF machinesVars, machinesTables, Paying, Reads
  <2> QED
    BY <2>1, FundsStay
<1>2. DOMAIN call = Calls
  BY DEF TypesInv, RequestTypes
<1>3. /\ ~(NoCall.pc = "read") /\ ~(Loading.pc = "read")
  BY DEF NoCall, Loading, Call
<1>4. ASSUME NEW c \in Calls, NEW q, call' = [call EXCEPT ![c] = q],
             ~(q.pc = "read" /\ q.op = "pay"), funds' = funds
      PROVE  FundsInv'
  <2>1. Paying' \subseteq Paying
    BY <1>2, <1>4, OneGoesOn
  <2> QED
    BY <1>4, <2>1, FundsStay
<1>5. ASSUME NEW c \in Calls,
             \/ installInventoryItem(c) \/ moveMachine(c) \/ removeMachine(c) \/ toggleMachine(c)
             \/ purchaseMiner(c) \/ grantMinerInventoryToAllUsers(c) \/ deleteMiner(c)
             \/ reloadMinerProfile(c)
      PROVE  FundsInv'
  <2>1. PICK q : Begin(c, q) /\ q.op # "pay"
    BY <1>5, BeginsWith
  <2>2. call' = [call EXCEPT ![c] = q] /\ funds' = funds
    BY <2>1 DEF Begin, Enter, machinesTables
  <2> QED
    BY <1>4, <2>1, <2>2
<1>6. ASSUME NEW c \in Calls, removeInventoryItem(c) \/ PulseArrives(c) \/ updateMiner(c)
      PROVE  FundsInv'
  <2>1. \E q \in {NoCall, Loading} : call' = [call EXCEPT ![c] = q]
    BY <1>6 DEF removeInventoryItem, PulseArrives, updateMiner, Enter
  <2>2. funds' = funds
    BY <1>6 DEF removeInventoryItem, PulseArrives, updateMiner
  <2> QED
    BY <1>3, <1>4, <2>1, <2>2
<1>7. ASSUME NEW c \in Calls, RollsBack(c) PROVE FundsInv'
  BY <1>3, <1>4, <1>7 DEF RollsBack, Step, machinesTables
<1>8. ASSUME NEW c \in Calls,
             \/ InstallCommits(c) \/ MoveCommits(c) \/ RemoveCommits(c) \/ ToggleCommits(c)
      PROVE  FundsInv'
  <2>1. RollsBack(c) \/ \E machines, items, U : Commits(c, machines, items, Loading, U)
    BY <1>8 DEF InstallCommits, MoveCommits, RemoveCommits, ToggleCommits
  <2>2. ASSUME NEW machines, NEW items, NEW U, Commits(c, machines, items, Loading, U)
        PROVE  call' = [call EXCEPT ![c] = Loading] /\ funds' = funds
    BY <2>2 DEF Commits, Step
  <2> QED
    BY <1>3, <1>4, <1>7, <2>1, <2>2
<1>9. ASSUME NEW c \in Calls, DeleteCommits(c) \/ LoadProfile(c) \/ LoadFails(c) \/ ApplyProfile(c)
      PROVE  FundsInv'
  <2> DEFINE Took == Call("apply", "none", NoRow, 0, {}, Active)
  <2>1. Took.pc # "read"
    BY DEF Call
  <2>2. CASE ~RollsBack(c)
    <3>1. \E q \in {NoCall, Took} : call' = [call EXCEPT ![c] = q]
      BY <1>9, <2>2 DEF DeleteCommits, LoadProfile, LoadFails, ApplyProfile, Step
    <3>2. funds' = funds
      BY <1>9, <2>2 DEF DeleteCommits, LoadProfile, LoadFails, ApplyProfile, machinesTables
    <3> HIDE DEF Took
    <3> QED
      BY <1>3, <1>4, <2>1, <3>1, <3>2
  <2> QED
    BY <1>7, <2>2
<1>10. ASSUME NEW c \in Calls, PurchaseChecks(c)
       PROVE  FundsInv'
  <2>1. funds' = funds
    BY <1>10 DEF PurchaseChecks, machinesTables
  <2>2. CASE ~HasFunds(c)
    BY <1>3, <1>4, <1>10, <2>1, <2>2 DEF PurchaseChecks, Step
  <2>3. CASE HasFunds(c)
    <3> DEFINE N == Cardinality(Calls)
               Q == Cardinality(Paying')
    <3>1. Paying' \in SUBSET Calls
      BY DEF Paying
    <3>2. Q \in Nat /\ Q <= N /\ N \in Nat
      BY <3>1, CallsAreCounted
    <3>3. funds \in Int /\ Price \in Nat /\ funds >= Price
      BY <2>3, MachinesAssumption DEF TypesInv, GhostTypes, HasFunds
    <3> HIDE DEF N, Q
    <3>4. Q + 1 - N \in Int /\ Q + 1 - N <= 1
      BY <3>2
    <3>5. Price * (Q + 1 - N) <= Price * 1 /\ Price * (Q + 1 - N) \in Int
      BY <3>3, <3>4, TimesGrowsInt
    <3>6. funds >= Price * (Q + 1 - N)
      BY <3>3, <3>5
    <3> QED
      BY <2>1, <3>6 DEF FundsInv, N, Q
  <2> QED
    BY <2>2, <2>3
<1>11. ASSUME NEW c \in Calls, PurchaseCommits(c) \/ GrantCommits(c) PROVE FundsInv'
  <2>1. CASE RollsBack(c)
    BY <1>7, <2>1
  <2>2. CASE ~RollsBack(c) /\ GrantCommits(c)
    <3>1. call' = [call EXCEPT ![c] = NoCall] /\ funds' = funds - 0
      BY <2>2 DEF GrantCommits, Gives, Step
    <3>2. funds' = funds
      BY <3>1 DEF TypesInv, GhostTypes
    <3> QED
      BY <1>3, <1>4, <3>1, <3>2
  <2>3. CASE ~RollsBack(c) /\ PurchaseCommits(c)
    <3>1. call' = [call EXCEPT ![c] = NoCall] /\ funds' = funds - Price /\ c \in Paying
      BY <2>3 DEF PurchaseCommits, Gives, Step, Paying
    <3>2. Paying' = Paying \ {c} /\ Paying \in SUBSET Calls
      BY <1>2, <1>3, <3>1, OneGoesOn DEF Paying
    <3> DEFINE N == Cardinality(Calls)
               P == Cardinality(Paying)
    <3>3. Cardinality(Paying') = P - 1 /\ P \in Nat /\ N \in Nat
      BY <3>1, <3>2, OneFewer, CallsAreCounted
    <3>4. funds \in Int /\ Price \in Nat /\ funds >= Price * (P + 1 - N)
      BY MachinesAssumption DEF TypesInv, GhostTypes, FundsInv
    <3> HIDE DEF N, P
    <3>5. (P + 1 - N) \in Int /\ P - 1 + 1 - N = (P + 1 - N) - 1
      BY <3>3
    <3>6. Price * ((P + 1 - N) - 1) = Price * (P + 1 - N) - Price /\ Price * (P + 1 - N) \in Int
      BY <3>4, <3>5, TimesOneLess
    <3>7. funds' >= Price * (P - 1 + 1 - N)
      BY <3>1, <3>4, <3>5, <3>6
    <3> QED
      BY <3>3, <3>7 DEF FundsInv, N, P
  <2> QED
    BY <1>11, <2>1, <2>2, <2>3
<1> QED
  BY <1>1, <1>5, <1>6, <1>8, <1>9, <1>10, <1>11 DEF MachinesNext, listMachines

\* Each purchase in flight but one can overdraw the account by a price.
LEMMA FundsBounded == TypesInv /\ FundsInv => DebtIsBounded
<1> SUFFICES ASSUME TypesInv, FundsInv PROVE DebtIsBounded
  OBVIOUS
<1> DEFINE N == Cardinality(Calls)
           P == Cardinality(Paying)
<1>1. P \in Nat /\ N \in Nat
  BY CallsAreCounted DEF Paying
<1>2. funds \in Int /\ Price \in Nat /\ funds >= Price * (P + 1 - N)
  BY MachinesAssumption DEF TypesInv, GhostTypes, FundsInv
<1> HIDE DEF N, P
<1>3. 1 - N \in Int /\ P + 1 - N \in Int /\ 1 - N <= P + 1 - N
  BY <1>1
<1>4. Price * (1 - N) <= Price * (P + 1 - N) /\ Price * (1 - N) \in Int /\ Price * (P + 1 - N) \in Int
  BY <1>2, <1>3, TimesGrowsInt
<1>5. funds >= Price * (1 - N)
  BY <1>2, <1>4
<1> QED
  BY <1>5 DEF DebtIsBounded, N

\* Overlapping purchases overdraw the account by less than a price for each
\* request but one: each has compared the balance with the price before any of
\* the others was decremented.
THEOREM PurchasesAreCovered == MachinesSpec => [](MachinesTypeOK /\ DebtIsBounded)
<1>1. MachinesInit => KeptInv /\ TypesInv /\ FundsInv
  BY KeptBegins, TypesBegin, FundsBegins
<1>2. KeptInv /\ TypesInv /\ FundsInv /\ [MachinesNext]_machinesVars => (KeptInv /\ TypesInv /\ FundsInv)'
  BY KeptStep, TypesStep, FundsStep
<1>3. KeptInv /\ TypesInv /\ FundsInv => MachinesTypeOK /\ DebtIsBounded
  BY MachinesTyped, FundsBounded
<1> QED
  BY <1>1, <1>2, <1>3, PTL DEF MachinesSpec
=============================================================================
