---------------------------- MODULE CatalogPage ----------------------------
(***************************************************************************)
(* The administrator's catalogue of miners: a list whose hash rates are      *)
(* turned from H/s, which are stored, to GH/s, which are typed; a form over    *)
(* one of its rows; images that are uploaded for the form; and saves, which    *)
(* send the whole form.  Each answer is applied to whatever is open by then.   *)
(***************************************************************************)
EXTENDS Requests

CONSTANTS
    Catalogued, \* miners
    GH,         \* H/s in a GH/s
    LastGh,     \* bound: what is typed
    MaxSaves    \* bound: saves and uploads

ASSUME CatalogPageAssumption ==
    /\ None \notin Catalogued \cup [of : Catalogued, hs : Nat, gh : Int, image : Catalogued]
    /\ GH \in Nat \ {0} /\ {LastGh, MaxSaves} \subseteq Nat

VARIABLES
    catalogRows, \* the rows: [hs, image]
    rowsShown,  \* the page's list: [hs, gh, image], or None
    editing,    \* editingMiner: [of, hs, gh, image], or None
    isSaving,
    kcall,      \* progress of each request
    rates,      \* ghost, by miner: the H/s it had at first, and those typed
    kcount,
    kluck       \* "unsettled": a form was closed, or saved, with a request due for it

catalogVars == <<catalogRows, rowsShown, editing, isSaving, kcall, rates, kcount, kluck>>

Invalid == -1   \* text that is no number
ListRow(hs, gh, image) == [hs |-> hs, gh |-> gh, image |-> image]
Editing(of, row) == [of |-> of, hs |-> row.hs, gh |-> row.gh, image |-> row.image]
KCall(op, of, hs, image) == [op |-> op, of |-> of, hs |-> hs, image |-> image]
KIdle == KCall("idle", None, 0, None)

CatalogInit ==
    /\ catalogRows = [m \in Catalogued |-> [hs |-> GH, image |-> m]]
    /\ rowsShown = None
    /\ editing = None
    /\ isSaving = FALSE
    /\ kcall = [c \in Calls |-> KIdle]
    /\ rates = [m \in Catalogued |-> {GH}]
    /\ kcount = 0
    /\ kluck = {}

\* The row as the page keeps it: divided once, when it is fetched.
normalizeMiner(row) == ListRow(row.hs, row.hs \div GH, row.image)

\* Slip: the form divides the row of the list again.
NormalizedAgain(row) == ListRow(row.hs, row.gh \div GH, row.image)

\* The form takes the row of the list as it is.
OfList(row) == row

\* What is sent: the number typed, or the rate last fetched if it is none.
buildUpdatePayload(e) == IF e.gh # Invalid THEN e.gh * GH ELSE e.hs

KSends(c, q) ==
    /\ kcall[c] = KIdle
    /\ kcall' = [kcall EXCEPT ![c] = q]

Waiting(ops) == \E c \in Calls : kcall[c].op \in ops
Uploads == {"upload", "uploaded"}
Saves == {"save", "saved"}
Unsettled(ops) == kluck' = kluck \cup (IF Waiting(ops) THEN {"unsettled"} ELSE {})

SaveEnds(c) == kcall' = [kcall EXCEPT ![c] = KIdle]

fetchMiners(c) ==
    /\ KSends(c, KCall("fetch", None, 0, None))
    /\ UNCHANGED <<catalogRows, rowsShown, editing, isSaving, rates, kcount, kluck>>

CatalogAnswered(c) ==
    /\ kcall[c].op = "fetch"
    /\ rowsShown' = [m \in Catalogued |-> normalizeMiner(catalogRows[m])]
    /\ SaveEnds(c)
    /\ UNCHANGED <<catalogRows, editing, isSaving, rates, kcount, kluck>>

openEdit ==
    /\ rowsShown # None /\ editing = None
    /\ \E m \in Catalogued : editing' = Editing(m, OfList(rowsShown[m]))
    /\ UNCHANGED <<catalogRows, rowsShown, isSaving, kcall, rates, kcount, kluck>>

TypesRate ==
    /\ editing # None
    /\ \E v \in {Invalid} \cup 1 .. LastGh :
          /\ editing' = [editing EXCEPT !.gh = v]
          /\ rates' = [rates EXCEPT ![editing.of] = @ \cup IF v = Invalid THEN {} ELSE {v * GH}]
    /\ UNCHANGED <<catalogRows, rowsShown, isSaving, kcall, kcount, kluck>>

\* The form is closed by its button, saved or not.
ClosesForm ==
    /\ editing # None
    /\ editing' = None
    /\ Unsettled(Uploads \cup Saves)
    /\ UNCHANGED <<catalogRows, rowsShown, isSaving, kcall, rates, kcount>>

\* handleFileUpload; and the server, which gives the file a name of its own.
handleFileUpload(c) ==
    /\ editing # None /\ kcount < MaxSaves
    /\ KSends(c, KCall("upload", editing.of, 0, editing.of))
    /\ Unsettled(Saves)
    /\ kcount' = kcount + 1
    /\ UNCHANGED <<catalogRows, rowsShown, editing, isSaving, rates>>

uploadMinerImage(c) ==
    /\ kcall[c].op = "upload"
    /\ kcall' = [kcall EXCEPT ![c].op = "uploaded"]
    /\ UNCHANGED <<catalogRows, rowsShown, editing, isSaving, rates, kcount, kluck>>

\* The image goes to the form that is open.
UploadAnswered(c) ==
    /\ kcall[c].op = "uploaded"
    /\ editing' = IF editing = None THEN None ELSE [editing EXCEPT !.image = kcall[c].image]
    /\ SaveEnds(c)
    /\ UNCHANGED <<catalogRows, rowsShown, isSaving, rates, kcount, kluck>>

\* handleSaveEditModal, whose button is disabled while it waits.
handleSaveEditModal(c) ==
    /\ editing # None /\ ~isSaving /\ kcount < MaxSaves
    /\ KSends(c, KCall("save", editing.of, buildUpdatePayload(editing), editing.image))
    /\ isSaving' = TRUE
    /\ Unsettled(Uploads)
    /\ kcount' = kcount + 1
    /\ UNCHANGED <<catalogRows, rowsShown, editing, rates>>

\* The row is written as it was sent.
updateCatalogRow(c) ==
    LET q == kcall[c] IN
    /\ q.op = "save"
    /\ catalogRows' = [catalogRows EXCEPT ![q.of] = [hs |-> q.hs, image |-> q.image]]
    /\ kcall' = [kcall EXCEPT ![c].op = "saved"]
    /\ UNCHANGED <<rowsShown, editing, isSaving, rates, kcount, kluck>>

\* handleUpdateMiner fetches the list; the form, whichever is open, is closed.
SaveAnswered(c) ==
    /\ kcall[c].op = "saved"
    /\ kcall' = [kcall EXCEPT ![c] = KCall("fetch", None, 0, None)]
    /\ editing' = None
    /\ isSaving' = FALSE
    /\ UNCHANGED <<catalogRows, rowsShown, rates, kcount, kluck>>

CatalogFails(c) ==
    /\ MayFail
    /\ kcall[c] # KIdle
    /\ SaveEnds(c)
    /\ isSaving' = IF kcall[c].op \in Saves THEN FALSE ELSE isSaving
    /\ UNCHANGED <<catalogRows, rowsShown, editing, rates, kcount, kluck>>

CatalogNext ==
    \/ openEdit \/ TypesRate \/ ClosesForm
    \/ \E c \in Calls :
          \/ fetchMiners(c) \/ CatalogAnswered(c) \/ handleFileUpload(c) \/ uploadMinerImage(c)
          \/ UploadAnswered(c) \/ handleSaveEditModal(c) \/ updateCatalogRow(c) \/ SaveAnswered(c)
          \/ CatalogFails(c)

CatalogSpec == CatalogInit /\ [][CatalogNext]_catalogVars
-----------------------------------------------------------------------------
(* Properties.                                                              *)

\* Type correctness of the catalogue, the list and the form.
CatalogTypeOK ==
    /\ catalogRows \in [Catalogued -> [hs : Nat, image : Catalogued]]
    /\ rowsShown = None \/ rowsShown \in [Catalogued -> [hs : Nat, gh : Nat, image : Catalogued]]
    /\ editing = None \/ editing \in [of : Catalogued, hs : Nat, gh : Nat \cup {Invalid}, image : Catalogued]
    /\ isSaving \in BOOLEAN /\ DOMAIN kcall = Calls
    /\ kcount \in 0 .. MaxSaves /\ kluck \subseteq {"unsettled"}

\* A miner's rate is one that was typed for it, or its first: opening and
\* saving it, in whatever order the list and the answers come, converts
\* nothing twice.
RatesAreTyped == \A m \in Catalogued : catalogRows[m].hs \in rates[m]

\* The image uploaded for a miner is shown and saved for no other, unless the
\* form was closed, or saved, while a request was due for it.
ImagesAreOwn ==
    kluck = {} =>
        /\ \A m \in Catalogued : catalogRows[m].image = m
        /\ editing = None \/ editing.image = editing.of

\* A save that is answered closes the form it was made from, and no other.
SavesOwnForm ==
    kluck = {} => \A c \in Calls :
        kcall[c].op \in Saves => editing # None /\ editing.of = kcall[c].of
=============================================================================
