------------------------------ MODULE Backups ------------------------------
(***************************************************************************)
(* The backup pipelines: one per timer (the daily one, and one for the       *)
(* database and one for the site after each start), none of which waits for  *)
(* another, over one directory.  A dump is known by its kind, "sql" or, once  *)
(* compressed, "gz", and by the second it was begun in.  Left out are the     *)
(* site's archives, which are no dumps, and the copies that are sent          *)
(* elsewhere: one that fails does not stop a pipeline.                       *)
(***************************************************************************)
EXTENDS Requests

CONSTANTS
    Retention,      \* BACKUP_RETENTION_DAYS; 0 keeps everything
    LastStamp       \* bound: the clock

ASSUME BackupsAssumption == Retention \in Nat /\ LastStamp \in Nat

VARIABLES
    stamp,      \* the clock
    files,      \* the backup directory: [kind, begun, whole]
    timers,     \* pipelines still to begin: "cron", "db", "site"
    pipe,       \* progress of each pipeline
    hadDump,    \* whether a dump was ever complete
    mishap      \* "sameSecond", "site", "slow"

backupsVars == <<stamp, files, timers, pipe, hadDump, mishap>>

File(kind, begun, whole) == [kind |-> kind, begun |-> begun, whole |-> whole]
Pipe(pc, what, begun) == [pc |-> pc, what |-> what, begun |-> begun]
NoPipe == Pipe("idle", "none", 0)

Dumps == {"sql", "gz"}
Named(dir, kind, begun) == {f \in dir : f.kind = kind /\ f.begun = begun}
WholeDumps(dir) == {f \in dir : f.whole}
DumpsBegun ==
    {f.begun : f \in files} \cup {pipe[c].begun : c \in {d \in Calls : pipe[d].what \in Dumps}}

BackupsInit ==
    /\ stamp = 0
    /\ files = {}
    /\ timers = {"cron", "db", "site"}
    /\ pipe = [c \in Calls |-> NoPipe]
    /\ hadDump = FALSE
    /\ mishap = {}

-----------------------------------------------------------------------------
(* The pipelines.                                                           *)

\* A timer fires: pg_dump or tar opens its file, named for this second.
PipelineBegins(c) ==
    \E t \in timers :
        LET kind == IF t = "site" THEN "tar" ELSE "sql"
            same == Named(files, "sql", stamp) IN
        /\ pipe[c] = NoPipe
        /\ timers' = timers \ {t}
        /\ files' = IF t = "site" THEN files ELSE (files \ same) \cup {File(kind, stamp, FALSE)}
        /\ pipe' = [pipe EXCEPT ![c] = Pipe("writes", kind, stamp)]
        /\ mishap' = mishap \cup
              (IF kind = "sql" /\ stamp \in DumpsBegun THEN {"sameSecond"} ELSE {})
        /\ UNCHANGED <<stamp, hadDump>>

\* Its process ends, and the file is whole.
DumpEnds(c) ==
    LET p == pipe[c]
        mine == Named(files, p.what, p.begun) IN
    /\ p.pc = "writes"
    /\ files' = (files \ mine) \cup {File(f.kind, f.begun, TRUE) : f \in mine}
    /\ pipe' = [pipe EXCEPT ![c] = Pipe(IF p.what = "tar" THEN "uploads" ELSE "gzips", p.what, p.begun)]
    /\ UNCHANGED <<stamp, timers, hadDump, mishap>>

\* gzip replaces the dump by its compressed form, which keeps its date.
Gzips(c) ==
    LET p == pipe[c]
        mine == Named(files, "sql", p.begun)
        old == Named(files, "gz", p.begun)
        gz == {File("gz", f.begun, f.whole) : f \in mine} IN
    /\ p.pc = "gzips" /\ mine # {}
    /\ files' = (files \ (mine \cup old)) \cup gz
    /\ hadDump' = (hadDump \/ WholeDumps(gz) # {})
    /\ pipe' = [pipe EXCEPT ![c] = Pipe("copies", "gz", p.begun)]
    /\ UNCHANGED <<stamp, timers, mishap>>

\* replicateBackupToExternal; that it fails is a warning.
Copies(c) ==
    /\ pipe[c].pc = "copies"
    /\ pipe' = [pipe EXCEPT ![c] = Pipe("uploads", @.what, @.begun)]
    /\ UNCHANGED <<stamp, files, timers, hadDump, mishap>>

\* runCloudBackupCommand answers once: the command has closed, could not be
\* started, or has had its time.
CloudAnswers(c) ==
    /\ pipe[c].pc = "uploads"
    /\ pipe' = [pipe EXCEPT ![c] = Pipe("prunes", @.what, @.begun)]
    /\ UNCHANGED <<stamp, files, timers, hadDump, mishap>>

\* Of the files, all of which match the prefix.
IsOld(begun) == Retention > 0 /\ begun < stamp - Retention

\* pruneBackups.  (A file that cannot be unlinked is passed over: not here.)
Prunes(c) ==
    LET p == pipe[c]
        old == {f \in files : IsOld(f.begun)} IN
    /\ p.pc = "prunes"
    /\ files' = files \ old
    /\ mishap' = mishap \cup (IF p.what = "tar" /\ WholeDumps(old) # {} THEN {"site"} ELSE {})
                             \cup (IF p.what = "gz" /\ IsOld(p.begun) THEN {"slow"} ELSE {})
    /\ pipe' = [pipe EXCEPT ![c] = NoPipe]
    /\ UNCHANGED <<stamp, timers, hadDump>>

\* Slip: a pipeline that has failed prunes all the same.
PrunesThen(p) == IF p.what = "sql" THEN Pipe("prunes", "gz", p.begun) ELSE NoPipe

\* The error is logged, and the pipeline ends there.
PipelineGivesUp(p) == NoPipe

\* pg_dump, tar or gzip fails; what it has written stays.
PipelineFails(c) ==
    LET p == pipe[c] IN
    /\ \/ MayFail /\ p.pc \in {"writes", "gzips"}
       \/ p.pc = "gzips" /\ Named(files, "sql", p.begun) = {}
    /\ pipe' = [pipe EXCEPT ![c] = PipelineGivesUp(p)]
    /\ UNCHANGED <<stamp, files, timers, hadDump, mishap>>

\* The server stops amid its pipelines and starts: the timers are set anew.
ServerRestarts ==
    /\ MayFail
    /\ \E c \in Calls : pipe[c] # NoPipe
    /\ pipe' = [c \in Calls |-> NoPipe]
    /\ timers' = {"cron", "db", "site"}
    /\ UNCHANGED <<stamp, files, hadDump, mishap>>

\* Time passes; the daily timer is due again.
StampPasses ==
    /\ stamp < LastStamp
    /\ stamp' = stamp + 1
    /\ timers' = timers \cup {"cron"}
    /\ UNCHANGED <<files, pipe, hadDump, mishap>>

\* The administrator's page deletes any file it lists: those ending in .sql.
\* (What its button writes matches no pattern here, and is left out.)
PageUnlinks ==
    \E f \in files :
        /\ f.kind = "sql"
        /\ files' = files \ {f}
        /\ UNCHANGED <<stamp, timers, pipe, hadDump, mishap>>

BackupsNext ==
    \/ ServerRestarts \/ StampPasses \/ PageUnlinks
    \/ \E c \in Calls :
          \/ PipelineBegins(c) \/ DumpEnds(c) \/ Gzips(c) \/ Copies(c) \/ CloudAnswers(c)
          \/ Prunes(c) \/ PipelineFails(c)
    \/ UNCHANGED backupsVars

BackupsSpec == BackupsInit /\ [][BackupsNext]_backupsVars

-----------------------------------------------------------------------------
(* Properties.                                                              *)

\* Type correctness of the directory and the pipelines.
BackupsTypeOK ==
    /\ stamp \in 0 .. LastStamp
    /\ files \subseteq [kind : Dumps, begun : 0 .. stamp, whole : BOOLEAN]
    /\ timers \subseteq {"cron", "db", "site"}
    /\ pipe \in [Calls -> [pc : {"idle", "writes", "gzips", "copies", "uploads", "prunes"},
                           what : {"none", "tar"} \cup Dumps, begun : 0 .. stamp]]
    /\ hadDump \in BOOLEAN
    /\ mishap \subseteq {"sameSecond", "site", "slow"}

\* Once a dump was complete there always is a complete one, however long the
\* dumps have been failing: only a pipeline that has a new one prunes.  Not so
\* when the site's pipeline pruned the dumps, whose prefix its archives share,
\* when two dumps were begun in one second and shared their file, or when a
\* pipeline took longer than dumps are kept.
HistoryIsKept ==
    (hadDump /\ mishap \cap {"sameSecond", "site", "slow"} = {}) => WholeDumps(files) # {}
=============================================================================
