----------------------------- MODULE Migration -----------------------------
(***************************************************************************)
(* scripts/migrateData.js: accounts and their rows are copied from the old   *)
(* database, user by user and then table by table, outside any transaction.  *)
(* A run breaks off wherever a statement throws and is started again, while  *)
(* people register and play on the new database.  A row of a table stands    *)
(* for all rows that its user has there.                                     *)
(***************************************************************************)
EXTENDS Requests, Sequences

CONSTANTS
    Mails, Usernames,
    OldUsers,       \* sequence of the old accounts: [mail, name, has], has: the tables with a row
    MaxMigrations,  \* bound: runs of the script
    MaxNewcomers    \* bound: registrations on the new database

CopiedTables == <<"machines", "inventory", "checkins", "transactions", "powers">>

\* One machine per slot, one check-in per day.
Keyed == {"machines", "checkins"}

TableNames == {CopiedTables[i] : i \in DOMAIN CopiedTables}
Olds == DOMAIN OldUsers

ASSUME MigrationAssumption ==
    /\ OldUsers \in Seq([mail : Mails, name : Usernames, has : SUBSET TableNames])
    /\ {MaxMigrations, MaxNewcomers} \subseteq Nat

VARIABLES
    members,    \* users of the new database: [mail, name, old], old: oldId or 0
    copies,     \* how often each row of the old database has been copied
    migrating,  \* the run: [stage, at], stage 0 the users, then a table; None
    ended,      \* how the last run ended
    out,        \* whose copied machine has been taken out of its slot
    migrations

migrationVars == <<members, copies, migrating, ended, out, migrations>>

Member(mail, name, old) == [mail |-> mail, name |-> name, old |-> old]
RunAt(stage, at) == [stage |-> stage, at |-> at]
NoMigration == RunAt(0, 0)

MigrationInit ==
    /\ members = {}
    /\ copies = [t \in TableNames |-> [i \in Olds |-> 0]]
    /\ migrating = NoMigration
    /\ ended = "none"
    /\ out = {}
    /\ migrations = 0

MailOfMember(mail) == \E m \in members : m.mail = mail
NameOfMember(name) == \E m \in members : m.name = name

\* user.findFirst({ where: { oldId } })
Migrated(i) == \E m \in members : m.old = i

-----------------------------------------------------------------------------
(* Meanwhile, on the new database.                                          *)

Newcomer ==
    \E mail \in Mails, name \in Usernames :
        /\ Cardinality({m \in members : m.old = 0}) < MaxNewcomers
        /\ ~MailOfMember(mail) /\ ~NameOfMember(name)
        /\ members' = members \cup {Member(mail, name, 0)}
        /\ UNCHANGED <<copies, migrating, ended, out, migrations>>

\* A player uninstalls a machine that was copied.
Uninstalls(i) ==
    /\ copies["machines"][i] > 0 /\ i \notin out
    /\ out' = out \cup {i}
    /\ UNCHANGED <<members, copies, migrating, ended, migrations>>

-----------------------------------------------------------------------------
(* The script.                                                              *)

MigrationStarts ==
    /\ migrating = NoMigration /\ migrations < MaxMigrations
    /\ migrating' = RunAt(0, 1)
    /\ ended' = "running"
    /\ migrations' = migrations + 1
    /\ UNCHANGED <<members, copies, out>>

EndsRun(how) == migrating' = NoMigration /\ ended' = how

GoesOnWith == migrating' = RunAt(migrating.stage, migrating.at + 1) /\ UNCHANGED ended

\* A known e-mail is passed over; a name that is taken breaks the run off.
CopiesUser ==
    LET i == migrating.at
        u == OldUsers[i]
    IN  /\ migrating.stage = 0 /\ i \in Olds
        /\ IF MailOfMember(u.mail)
           THEN GoesOnWith /\ UNCHANGED members
           ELSE IF NameOfMember(u.name)
           THEN EndsRun("broken") /\ UNCHANGED members
           ELSE GoesOnWith /\ members' = members \cup {Member(u.mail, u.name, i)}
        /\ UNCHANGED <<copies, out, migrations>>

\* The row's key is taken by its own copy, unless that was moved.
HoldsKey(t, i) == t \in Keyed /\ copies[t][i] > 0 /\ (t = "machines" => i \notin out)

\* Slip: machines that have been copied are passed over.
WantedOnce(t, i) ==
    t \in OldUsers[i].has /\ Migrated(i) /\ (t = "machines" => copies[t][i] = 0)

\* The row is there and its user was copied.
Wanted(t, i) == t \in OldUsers[i].has /\ Migrated(i)

CopiesRow ==
    LET i == migrating.at
        t == CopiedTables[migrating.stage]
    IN  /\ migrating.stage \in DOMAIN CopiedTables /\ i \in Olds
        /\ IF ~Wanted(t, i) THEN GoesOnWith /\ UNCHANGED <<copies, out>>
           ELSE IF HoldsKey(t, i) THEN EndsRun("broken") /\ UNCHANGED <<copies, out>>
           ELSE /\ GoesOnWith
                /\ copies' = [copies EXCEPT ![t][i] = @ + 1]
                /\ out' = IF t = "machines" THEN out \ {i} ELSE out
        /\ UNCHANGED <<members, migrations>>

TableEnds ==
    /\ migrating # NoMigration /\ migrating.at \notin Olds
    /\ IF migrating.stage = Len(CopiedTables)
       THEN EndsRun("completed")
       ELSE migrating' = RunAt(migrating.stage + 1, 1) /\ UNCHANGED ended
    /\ UNCHANGED <<members, copies, out, migrations>>

\* Whatever throws ends the run where it is; what it has written stays.
MigrationBreaks ==
    /\ MayFail
    /\ migrating # NoMigration
    /\ EndsRun("broken")
    /\ UNCHANGED <<members, copies, out, migrations>>

\* At the bound the script is not started any more.
MigrationIsOver ==
    /\ migrating = NoMigration /\ migrations = MaxMigrations
    /\ UNCHANGED migrationVars

MigrationNext ==
    \/ Newcomer \/ MigrationIsOver
    \/ \E i \in Olds : Uninstalls(i)
    \/ MigrationStarts \/ CopiesUser \/ CopiesRow \/ TableEnds \/ MigrationBreaks

MigrationSpec == MigrationInit /\ [][MigrationNext]_migrationVars

-----------------------------------------------------------------------------
(* Properties.                                                              *)

\* Type correctness of the accounts, the copies and the run.
MigrationTypeOK ==
    /\ members \subseteq [mail : Mails, name : Usernames, old : {0} \cup Olds]
    /\ copies \in [TableNames -> [Olds -> 0 .. MaxMigrations]]
    /\ migrating \in [stage : 0 .. Len(CopiedTables), at : 0 .. Len(OldUsers) + 1]
    /\ ended \in {"none", "running", "broken", "completed"}
    /\ out \subseteq Olds /\ migrations \in 0 .. MaxMigrations

\* Inventory, transactions and powers have no key, and nothing looks whether
\* they are there; yet however often the script is run again they are copied
\* once while there is a machine that was: a later run breaks off at the first
\* machine that is still in its slot, before it comes to the other tables.
LooseRowsOnce ==
    (\E i \in Olds : copies["machines"][i] = 1) =>
        \A t \in TableNames \ {"machines"}, i \in Olds : copies[t][i] <= 1

\* A run that says "Migration Completed" leaves no row of a copied account
\* behind, whichever runs broke off before it and whoever registered meanwhile.
CompletedIsWhole ==
    ended = "completed" =>
        \A i \in Olds : Migrated(i) => \A t \in OldUsers[i].has : copies[t][i] > 0
=============================================================================
