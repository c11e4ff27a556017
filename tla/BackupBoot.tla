----------------------------- MODULE BackupBoot -----------------------------
(***************************************************************************)
(* The boot of the server and its snapshots: pg_dump before pending        *)
(* migrations, retention, the migrations one by one, a process that exits  *)
(* or is killed anywhere and is started again (compose restarts it), a     *)
(* release exchanged in between; and while it serves, the nightly          *)
(* scheduler, the backup requests and the deletions of the user.           *)
(*                                                                         *)
(* Release v carries the migrations 1..v.  A dump is two steps, so a       *)
(* half-written file may stay.  The clock counts seconds, the resolution   *)
(* of a file name; a dump that succeeds takes at least one.                *)
(***************************************************************************)
EXTENDS Integers, FiniteSets

CONSTANTS Releases,     \* the releases that are installed
          Requests,     \* the backup requests of the user
          Keeps,        \* the values of nightly_keep that are asked for
          PreKeep,      \* PREMIGRATION_BACKUP_KEEP
          Day,          \* the seconds in 24 hours
          MaxManual,    \* bound on the manual dumps on disk
          MaxTime       \* bound on the clock

Boot == "boot"          \* the dumper of preMigrationBackup
Night == "night"        \* the dumper of Scheduler.tick
Dumpers == {Boot, Night} \cup Requests

ASSUME BackupAssumption ==
    /\ Releases \subseteq Nat \ {0}
    /\ Boot \notin Requests /\ Night \notin Requests
    /\ Keeps \subseteq Nat
    /\ PreKeep \in Nat \ {0}
    /\ Day \in Nat /\ MaxManual \in Nat /\ MaxTime \in Nat

NoTracker == -1         \* a database without goose_db_version
NoTime == 0             \* a zero time.Time
NoKeep == 0             \* no tick is under way
Schemas == {NoTracker} \cup Nat

VARIABLES
    env,        \* what main finds: the snapshotter, the skip flag
    now,        \* the clock
    binary,     \* the release in the container
    schema,     \* the version in goose_db_version
    pc,         \* where the process is
    files,      \* the dumps in BACKUP_DIR
    dump,       \* dumper -> when the dump it is writing began
    config,     \* the row of backup_config
    keep,       \* the nightly_keep that the tick under way has read
    victims,    \* the dumps that the nightly Prune has still to remove
    lastAt,     \* Scheduler.lastAt
    from,       \* history: the schema that this boot found
    left,       \* history: the schema that the last server served
    attempts,   \* history: the dumps that boots began since
    clash,      \* history: the seconds in which two requests began a dump
    saved       \* history: the backups reported to the user

disk == <<files, dump>>
night == <<keep, victims, lastAt>>
history == <<from, left, attempts>>
manual == <<clash, saved>>
vars == <<env, now, binary, schema, pc, disk, config, night, history, manual>>

Reason(d) == IF d = Boot THEN "pre-migration"
             ELSE IF d = Night THEN "nightly" ELSE "manual"

FileType == [reason : {"pre-migration", "nightly", "manual"}, at : Nat,
             mtime : Nat, schema : Schemas, whole : BOOLEAN]

\* Every variable has its type; a dump under way is one of this process.
TypeOK ==
    /\ env \in [snap : {"none", "readonly", "full"}, skip : BOOLEAN]
    /\ now \in Nat /\ lastAt \in Nat
    /\ binary \in Releases
    /\ schema \in Schemas /\ from \in Schemas /\ left \in Schemas
    /\ pc \in {"off", "dump", "prune", "migrate", "serve"}
    /\ files \subseteq FileType
    /\ dump \in [Dumpers -> Nat]
    /\ config \in [enabled : BOOLEAN, keep : Nat \ {0}]
    /\ keep \in Nat
    /\ victims \subseteq FileType
    /\ attempts \subseteq Nat /\ clash \subseteq Nat /\ saved \subseteq Nat
    /\ dump[Boot] # NoTime <=> pc = "dump"
    /\ \A d \in Dumpers \ {Boot} : dump[d] # NoTime => pc = "serve"

Init ==
    /\ env \in [snap : {"none", "readonly", "full"}, skip : BOOLEAN]
    /\ now = 1 /\ lastAt = NoTime
    /\ binary \in Releases
    /\ schema = NoTracker /\ from = NoTracker /\ left = NoTracker
    /\ pc = "off"
    /\ files = {} /\ dump = [d \in Dumpers |-> NoTime]
    /\ \E k \in Keeps \ {0} : config = [enabled |-> FALSE, keep |-> k]
    /\ keep = NoKeep /\ victims = {}
    /\ attempts = {} /\ clash = {} /\ saved = {}

(***************************************************************************)
(* Snapshot, List and Prune.                                               *)
(***************************************************************************)
File(d, t) == {f \in files : f.reason = Reason(d) /\ f.at = t}
BeingWritten == {f \in files : \E d \in Dumpers : f.reason = Reason(d) /\ f.at = dump[d]}
Written(r, t, m, s, w) == [reason |-> r, at |-> t, mtime |-> m, schema |-> s, whole |-> w]

\* pg_dump opens its file, and sees the database of this moment.
StartDump(d) ==
    /\ files' = (files \ File(d, now)) \cup
                {Written(Reason(d), now, now, schema, FALSE)}
    /\ dump' = [dump EXCEPT ![d] = now]

\* It ends well, and its file is still there.
EndDump(d) ==
    /\ dump[d] # NoTime
    /\ now < MaxTime /\ now' = now + 1
    /\ \E f \in File(d, dump[d]), w \in BOOLEAN :
         /\ w \/ (d \in Requests /\ dump[d] \in clash)
         /\ files' = (files \ {f}) \cup {Written(f.reason, f.at, now', f.schema, w)}
    /\ dump' = [dump EXCEPT ![d] = NoTime]

\* It fails, and Snapshot removes its file; or the file is gone.
FailDump(d) ==
    /\ dump[d] # NoTime
    /\ files' = files \ File(d, dump[d])
    /\ dump' = [dump EXCEPT ![d] = NoTime]

\* Faulty variant: the oldest are kept.
ExcessOldestFirst(r, k) ==
    {f \in files : f.reason = r /\
        Cardinality({g \in files : g.reason = r /\ g.mtime < f.mtime}) >= k}

\* Faulty variant: dumps of any reason count and go.
ExcessOfAny(r, k) ==
    {f \in files : Cardinality({g \in files : g.mtime > f.mtime}) >= k}

\* The dumps of reason r beyond the k newest.
Excess(r, k) ==
    {f \in files : f.reason = r /\
        Cardinality({g \in files : g.reason = r /\ g.mtime > f.mtime}) >= k}

(***************************************************************************)
(* main, up to the server.                                                 *)
(***************************************************************************)
\* PendingMigrations; none are reported without a tracker.
Pending == schema # NoTracker /\ schema < binary

\* Nothing is pending, or there is no snapshotter, or a read-only one and the
\* flag to go on without.
BootPlain ==
    /\ pc = "off"
    /\ Pending => env.snap = "none" \/ (env.snap = "readonly" /\ env.skip)
    /\ pc' = "migrate" /\ from' = schema
    /\ UNCHANGED <<env, now, binary, schema, disk, config, night, left, attempts, manual>>

BootDump ==
    /\ pc = "off"
    /\ Pending /\ env.snap = "full"
    /\ StartDump(Boot)
    /\ pc' = "dump" /\ from' = schema
    /\ attempts' = attempts \cup {now}
    /\ UNCHANGED <<env, now, binary, schema, config, night, left, manual>>

BootDumped ==
    /\ pc = "dump"
    /\ EndDump(Boot)
    /\ pc' = "prune"
    /\ UNCHANGED <<env, binary, schema, config, night, history, manual>>

\* Faulty variant: a failed dump is logged and the boot goes on.
BootDumpFailedGoOn ==
    /\ pc = "dump"
    /\ FailDump(Boot)
    /\ pc' = "migrate"
    /\ UNCHANGED <<env, now, binary, schema, config, night, history, manual>>

\* "refusing to migrate": the process exits, but for the flag.
BootDumpFailed ==
    /\ pc = "dump"
    /\ FailDump(Boot)
    /\ pc' = IF env.skip THEN "migrate" ELSE "off"
    /\ UNCHANGED <<env, now, binary, schema, config, night, history, manual>>

\* Prune is best-effort: an error of List or Remove is logged, and the boot
\* goes on with the newest of the excess removed, or none.
BootPrune ==
    /\ pc = "prune"
    /\ \E V \in SUBSET Excess("pre-migration", PreKeep) :
         /\ \A f \in V, g \in Excess("pre-migration", PreKeep) \ V : g.mtime <= f.mtime
         /\ files' = files \ V
    /\ pc' = "migrate"
    /\ UNCHANGED <<env, now, binary, schema, dump, config, night, history, manual>>

\* goose applies one migration, in a transaction of its own; without a
\* tracker it creates the table first.
MigrateOne ==
    /\ pc = "migrate" /\ schema < binary
    /\ schema' = schema + 1
    /\ UNCHANGED <<env, now, binary, pc, disk, config, night, history, manual>>

\* A migration fails, or something else before the server starts.
MigrateFailed ==
    /\ pc = "migrate"
    /\ pc' = "off" /\ from' = NoTracker
    /\ UNCHANGED <<env, now, binary, schema, disk, config, night, left, attempts, manual>>

Serve ==
    /\ pc = "migrate" /\ schema >= binary
    /\ pc' = "serve"
    /\ left' = schema /\ from' = NoTracker /\ attempts' = {}
    /\ UNCHANGED <<env, now, binary, schema, disk, config, night, manual>>

\* The process stops, and what it was writing stays as it is.  (A process that
\* is asked to stop may have the time to remove it: FailDump comes first.)
Stop ==
    /\ pc # "off"
    /\ now < MaxTime /\ now' = now + 1
    /\ files' = (files \ BeingWritten) \cup
                {Written(f.reason, f.at, now', f.schema, f.whole) : f \in BeingWritten}
    /\ dump' = [d \in Dumpers |-> NoTime]
    /\ pc' = "off" /\ keep' = NoKeep /\ victims' = {} /\ lastAt' = NoTime
    /\ from' = NoTracker
    /\ UNCHANGED <<env, binary, schema, config, left, attempts, manual>>

\* Another release is put into the container, newer or older.
Install(v) ==
    /\ pc = "off" /\ binary' = v
    /\ UNCHANGED <<env, now, schema, pc, disk, config, night, history, manual>>

(***************************************************************************)
(* Scheduler.tick, once a minute, one at a time.                           *)
(***************************************************************************)
Nightlies == {f \in files : f.reason = "nightly"}

\* Faulty variant: a cold start knows of no dump before it.
LastInMemory == {lastAt}

\* The time of the last nightly dump: a cold start takes it from the newest
\* on disk.
Last == IF lastAt # NoTime \/ Nightlies = {} THEN {lastAt}
        ELSE {t \in {f.mtime : f \in Nightlies} : \A f \in Nightlies : f.mtime <= t}

TickRuns ==
    /\ pc = "serve" /\ env.snap = "full" /\ config.enabled
    /\ keep = NoKeep /\ victims = {}

NotDue ==
    /\ TickRuns
    /\ \E t \in Last : t # NoTime /\ now - t < Day /\ lastAt' = t
    /\ UNCHANGED <<env, now, binary, schema, pc, disk, config, keep, victims, history, manual>>

NightDump ==
    /\ TickRuns
    /\ \E t \in Last : (t # NoTime => now - t >= Day) /\ lastAt' = t
    /\ StartDump(Night)
    /\ keep' = config.keep
    /\ UNCHANGED <<env, now, binary, schema, pc, config, victims, history, manual>>

NightDumped ==
    /\ EndDump(Night)
    /\ lastAt' = now'
    /\ UNCHANGED <<env, binary, schema, pc, config, keep, victims, history, manual>>

NightFailed ==
    /\ FailDump(Night)
    /\ keep' = NoKeep
    /\ UNCHANGED <<env, now, binary, schema, pc, config, victims, lastAt, history, manual>>

\* Prune lists first.
NightList ==
    /\ keep # NoKeep /\ dump[Night] = NoTime
    /\ victims' = Excess("nightly", keep) /\ keep' = NoKeep
    /\ UNCHANGED <<env, now, binary, schema, pc, disk, config, lastAt, history, manual>>

\* And removes one dump after the other, newest first.  It gives up at one
\* that cannot be removed: the user may have been faster.
NightRemove ==
    /\ \E f \in victims :
         /\ \A g \in victims : g.mtime <= f.mtime
         /\ files' = files \ {f}
         /\ victims' = IF f \in files THEN victims \ {f} ELSE {}
    /\ UNCHANGED <<env, now, binary, schema, pc, dump, config, keep, lastAt, history, manual>>

(***************************************************************************)
(* The user's requests.                                                    *)
(***************************************************************************)
CreateBackup(r) ==
    /\ pc = "serve" /\ env.snap = "full"
    /\ dump[r] = NoTime
    /\ File(r, now) # {} \/ Cardinality({f \in files : f.reason = "manual"}) < MaxManual
    /\ StartDump(r)
    /\ clash' = IF \E q \in Requests : dump[q] = now THEN clash \cup {now} ELSE clash
    /\ UNCHANGED <<env, now, binary, schema, pc, config, night, history, saved>>

BackupSaved(r) ==
    /\ EndDump(r)
    /\ saved' = saved \cup {dump[r]}
    /\ UNCHANGED <<env, binary, schema, pc, config, night, history, clash>>

BackupFailed(r) ==
    /\ FailDump(r)
    /\ UNCHANGED <<env, now, binary, schema, pc, config, night, history, manual>>

DeleteBackup(f) ==
    /\ pc = "serve" /\ env.snap # "none"
    /\ files' = files \ {f}
    /\ saved' = IF f.reason = "manual" THEN saved \ {f.at} ELSE saved
    /\ UNCHANGED <<env, now, binary, schema, pc, dump, config, night, history, clash>>

\* Faulty variant: the handler takes any number of dumps to keep.
PatchConfigUnchecked(e, k) ==
    /\ pc = "serve"
    /\ e => env.snap = "full"
    /\ config' = [enabled |-> e, keep |-> k]
    /\ UNCHANGED <<env, now, binary, schema, pc, disk, night, history, manual>>

PatchConfig(e, k) ==
    /\ pc = "serve"
    /\ e => env.snap = "full"
    /\ k > 0
    /\ config' = [enabled |-> e, keep |-> k]
    /\ UNCHANGED <<env, now, binary, schema, pc, disk, night, history, manual>>

Wait ==
    /\ now < MaxTime /\ now' = now + 1
    /\ UNCHANGED <<env, binary, schema, pc, disk, config, night, history, manual>>

Next ==
    \/ BootPlain \/ BootDump \/ BootDumped \/ BootDumpFailed \/ BootPrune
    \/ MigrateOne \/ MigrateFailed \/ Serve
    \/ Stop \/ \E v \in Releases : Install(v)
    \/ NotDue \/ NightDump \/ NightDumped \/ NightFailed \/ NightList \/ NightRemove
    \/ \E r \in Requests : CreateBackup(r) \/ BackupSaved(r) \/ BackupFailed(r)
    \/ \E f \in files : DeleteBackup(f)
    \/ \E e \in BOOLEAN, k \in Keeps : PatchConfig(e, k)
    \/ Wait

Spec == Init /\ [][Next]_vars

(***************************************************************************)
(* Properties.                                                             *)
(***************************************************************************)
Saves(f, r, s) == f.reason = r /\ f.schema = s /\ f.whole

\* A database is never migrated without a whole dump of what this boot found
\* on disk, whatever was killed or pruned before (main.go preMigrationBackup,
\* "Refuses to migrate on dump failure").
MigratesOverDump ==
    pc = "migrate" /\ schema # from /\ from # NoTracker
      /\ env.snap # "none" /\ ~env.skip
      => \E f \in files : Saves(f, "pre-migration", from)

\* While an upgrade has not come up, there is a whole dump of the database
\* as the server before it left it.
PreviousVersionKept ==
    pc # "serve" /\ schema # left /\ left # NoTracker
      /\ env.snap # "none" /\ ~env.skip
      => \E f \in files : Saves(f, "pre-migration", left)

\* "there's always a snapshot from the previous version next to it"
\* (docs/backups.md).  It is so while no more boots tried to migrate than
\* dumps are kept, whichever of them died, dumping or migrating.
\* (Without this bound it is not so: see the run upgrade_loop.)
UpgradeUndoable == Cardinality(attempts) <= PreKeep => PreviousVersionKept

\* No two nightly dumps are less than a day apart, across restarts, killed
\* dumps and the user's deletions (scheduler.go, "so we don't double-up after
\* a restart").
NightliesSpaced ==
    \A f, g \in files : f.reason = "nightly" /\ g.reason = "nightly" /\ f.mtime < g.mtime
                          => g.mtime - f.mtime >= Day

\* A backup that was reported to the user stays on disk, whole, until the user
\* deletes it, whatever is pruned, fails or stops (snapshot.go Prune, "Other
\* reasons are left untouched"); but for two requests in one second, which
\* write the same file.
SavedBackupStays ==
    \A t \in saved \ clash :
      \E f \in files : f.reason = "manual" /\ f.at = t /\ f.whole
=============================================================================
