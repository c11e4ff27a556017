---------------------------- MODULE ServerProofs ----------------------------
(***************************************************************************)
(* Proofs about the server's process and its updates.                      *)
(*                                                                         *)
(* BackupBoot, for any releases, requests, retentions and any bound on the *)
(* clock: its types, that no database is migrated without a dump of what   *)
(* the boot found, that an upgrade can be undone while the boots are no    *)
(* more than the dumps kept, that nightly dumps are a day apart, and that  *)
(* a backup reported to the user stays.                                    *)
(*                                                                         *)
(* Updates, for any releases, clicks and number of checks: its types; that *)
(* a dismissed release stays so while the checks come one after the other; *)
(* and that no click on the update button is reported as a success twice   *)
(* or after its failure.  And that both hold as the run has them, beside   *)
(* each other and from the states of an installation that has served.      *)
(***************************************************************************)
EXTENDS MCServer, FiniteSetTheorems, TLAPS

USE BackupAssumption
USE DEF NoTracker, NoTime, NoKeep, Schemas, Boot, Night

(***************************************************************************)
(* What a dump does to the files.                                          *)
(***************************************************************************)
\* The types of the files and dumps.
DiskTypes ==
    /\ now \in Nat
    /\ files \subseteq FileType
    /\ dump \in [Dumpers -> Nat]

\* A file's name is its own, its times are in the past and in order, and a
\* dump that a boot or a tick is writing is not whole.
DiskFacts ==
    /\ now >= 1
    /\ \A f \in files : /\ 1 <= f.at /\ f.at <= f.mtime /\ f.mtime <= now
                        /\ f.whole => f.at < f.mtime
    /\ \A f, g \in files : f.reason = g.reason /\ f.at = g.at => f = g
    /\ \A d \in Dumpers : dump[d] <= now
    /\ \A d \in {Boot, Night} : dump[d] # NoTime =>
         \A f \in File(d, dump[d]) : ~f.whole /\ f.mtime = f.at

\* A new dump.
LEMMA StartDumpDisk ==
    ASSUME DiskTypes, DiskFacts, schema \in Schemas, now' = now,
           NEW d \in Dumpers, StartDump(d)
    PROVE  /\ DiskTypes' /\ DiskFacts'
           /\ dump' = [dump EXCEPT ![d] = now]
<1> DEFINE n == Written(Reason(d), now, now, schema, FALSE)
<1>1. n \in FileType /\ n.reason = Reason(d) /\ n.at = now /\ n.mtime = now /\ n.whole = FALSE
  BY DEF DiskTypes, Written, FileType, Reason
<1>2. files' = (files \ File(d, now)) \cup {n}
  BY DEF StartDump
<1>3. dump' = [dump EXCEPT ![d] = now]
  BY DEF StartDump
<1> HIDE DEF n
<1>4. DiskTypes'
  BY <1>1, <1>2, <1>3 DEF DiskTypes
<1>5. DiskFacts'
  BY <1>1, <1>2, <1>3 DEF DiskTypes, DiskFacts, File, FileType, Reason, Dumpers
<1> QED  BY <1>3, <1>4, <1>5

\* A dump that ends well: its file is newer than every other.
LEMMA EndDumpDisk ==
    ASSUME DiskTypes, DiskFacts, NEW d \in Dumpers, EndDump(d)
    PROVE  /\ DiskTypes' /\ DiskFacts'
           /\ now' = now + 1
           /\ dump' = [dump EXCEPT ![d] = NoTime]
           /\ \E f \in File(d, dump[d]), n \in FileType :
                /\ n.reason = f.reason /\ n.at = f.at /\ n.schema = f.schema
                /\ n.mtime = now + 1
                /\ n.whole \/ (d \in Requests /\ dump[d] \in clash)
                /\ files' = (files \ {f}) \cup {n}
<1>1. PICK f \in File(d, dump[d]), w \in BOOLEAN :
         /\ w \/ (d \in Requests /\ dump[d] \in clash)
         /\ files' = (files \ {f}) \cup {Written(f.reason, f.at, now', f.schema, w)}
  BY DEF EndDump
<1>2. now' = now + 1 /\ dump' = [dump EXCEPT ![d] = NoTime]
  BY DEF EndDump
<1> DEFINE n == Written(f.reason, f.at, now', f.schema, w)
<1>3. f \in files /\ f \in FileType
  BY DEF DiskTypes, File
<1>4. /\ n \in FileType /\ n.reason = f.reason /\ n.at = f.at /\ n.schema = f.schema
      /\ n.mtime = now + 1 /\ n.whole = w
  BY <1>2, <1>3 DEF DiskTypes, Written, FileType
<1>5. files' = (files \ {f}) \cup {n}
  BY <1>1
<1> HIDE DEF n
<1>6. DiskTypes'
  BY <1>2, <1>4, <1>5 DEF DiskTypes
<1>7. DiskFacts'
  BY <1>2, <1>3, <1>4, <1>5 DEF DiskTypes, DiskFacts, File, FileType, Reason, Dumpers
<1> QED  BY <1>1, <1>2, <1>4, <1>5, <1>6, <1>7

\* A dump that fails.
LEMMA FailDumpDisk ==
    ASSUME DiskTypes, DiskFacts, now' = now, NEW d \in Dumpers, FailDump(d)
    PROVE  DiskTypes' /\ DiskFacts'
BY DEF DiskTypes, DiskFacts, FailDump, File, Dumpers

\* Files that are removed, while dumps go on.
LEMMA RemoveDisk ==
    ASSUME DiskTypes, DiskFacts, now' \in Nat, now' >= now, UNCHANGED dump,
           files' \subseteq files
    PROVE  DiskTypes' /\ DiskFacts'
<1>1. DiskTypes'
  BY DEF DiskTypes
<1>2. \A f \in files' : f \in files /\ f.at \in Nat /\ f.mtime \in Nat
  BY DEF DiskTypes, FileType
<1>3. \A d \in Dumpers : dump[d] \in Nat
  BY DEF DiskTypes
<1>4. \A d \in {Boot, Night} : File(d, dump[d])' \subseteq File(d, dump[d])
  BY <1>2 DEF File, Reason
<1>5. DiskFacts'
  BY <1>2, <1>3, <1>4 DEF DiskTypes, DiskFacts
<1> QED  BY <1>1, <1>5

\* A process that stops.
LEMMA StopDisk ==
    ASSUME DiskTypes, DiskFacts, Stop
    PROVE  DiskTypes' /\ DiskFacts'
<1>1. \A f \in files : f \in FileType
  BY DEF DiskTypes
<1>2. now' = now + 1 /\ dump' = [d \in Dumpers |-> NoTime]
  BY DEF Stop
<1>3. \A f \in files' : \/ f \in files /\ f \notin BeingWritten
                        \/ \E g \in BeingWritten : f = Written(g.reason, g.at, now', g.schema, g.whole)
  BY DEF Stop
<1>4. BeingWritten \subseteq files
  BY DEF BeingWritten
<1>5. \A g \in BeingWritten :
        LET f == Written(g.reason, g.at, now', g.schema, g.whole)
        IN f \in FileType /\ f.reason = g.reason /\ f.at = g.at /\ f.mtime = now'
             /\ f.schema = g.schema /\ f.whole = g.whole
  BY <1>1, <1>2, <1>4 DEF Written, FileType, DiskTypes
<1>6. DiskTypes'
  BY <1>1, <1>2, <1>3, <1>5 DEF DiskTypes
<1>7. \A f \in files' : \E g \in files :
        /\ f.reason = g.reason /\ f.at = g.at /\ f.whole = g.whole
        /\ g.mtime <= f.mtime /\ f.mtime <= now'
        /\ (f = g /\ g \notin BeingWritten) \/ (g \in BeingWritten /\ f = Written(g.reason, g.at, now', g.schema, g.whole))
  BY <1>1, <1>2, <1>3, <1>4, <1>5 DEF DiskTypes, DiskFacts, FileType
<1>8. \A f, g \in files' : f.reason = g.reason /\ f.at = g.at => f = g
  BY <1>7, <1>3 DEF DiskFacts
<1>9. \A f \in files' : /\ 1 <= f.at /\ f.at <= f.mtime /\ f.mtime <= now'
                        /\ f.whole => f.at < f.mtime
  BY <1>1, <1>2, <1>6, <1>7 DEF DiskTypes, DiskFacts, FileType
<1> QED  BY <1>2, <1>6, <1>8, <1>9 DEF DiskTypes, DiskFacts, Dumpers
(***************************************************************************)
(* Types.                                                                  *)
(***************************************************************************)
\* The scheduler's prune is that of a server and of nightly dumps only, and its
\* dump is that of a tick.
NightFacts ==
    /\ \A v \in victims : v.reason = "nightly"
    /\ pc # "serve" => keep = NoKeep /\ victims = {}
    /\ dump[Night] # NoTime => keep # NoKeep


\* The types that are not the disk's.
RestTypes ==
    /\ env \in [snap : {"none", "readonly", "full"}, skip : BOOLEAN]
    /\ lastAt \in Nat
    /\ binary \in Releases
    /\ schema \in Schemas /\ from \in Schemas /\ left \in Schemas
    /\ pc \in {"off", "dump", "prune", "migrate", "serve"}
    /\ config \in [enabled : BOOLEAN, keep : Nat \ {0}]
    /\ keep \in Nat /\ victims \subseteq FileType
    /\ attempts \subseteq Nat /\ clash \subseteq Nat /\ saved \subseteq Nat
    /\ dump[Boot] # NoTime <=> pc = "dump"
    /\ \A d \in Dumpers \ {Boot} : dump[d] # NoTime => pc = "serve"

FInv == DiskTypes /\ RestTypes /\ DiskFacts /\ NightFacts

LEMMA InitFInv == Init => FInv
<1> SUFFICES ASSUME Init PROVE FInv
  OBVIOUS
<1>1. DiskTypes /\ DiskFacts
  BY DEF Init, DiskTypes, DiskFacts, File
<1>2. RestTypes
  BY DEF Init, RestTypes, Dumpers
<1>3. NightFacts
  BY DEF Init, NightFacts, Dumpers
<1> QED  BY <1>1, <1>2, <1>3 DEF FInv

\* A step of main before the server starts.
LEMMA BootFInv ==
    ASSUME FInv, BootPlain \/ BootDump \/ BootDumped \/ BootDumpFailed \/ BootPrune
                   \/ MigrateOne \/ MigrateFailed \/ Serve
    PROVE  FInv'
<1> USE DEF vars, disk, night, history, manual
<1>0. DiskTypes /\ RestTypes /\ DiskFacts /\ NightFacts /\ Boot \in Dumpers
  BY DEF FInv, Dumpers
<1>1. CASE BootPlain
  <2>1. DiskTypes' /\ DiskFacts'
    BY <1>0, <1>1, RemoveDisk DEF BootPlain, DiskTypes
  <2>2. RestTypes' /\ NightFacts'
    BY <1>0, <1>1 DEF BootPlain, RestTypes, NightFacts
  <2> QED  BY <2>1, <2>2 DEF FInv
<1>2. CASE BootDump
  <2>1. DiskTypes' /\ DiskFacts' /\ dump' = [dump EXCEPT ![Boot] = now]
    BY <1>0, <1>2, StartDumpDisk DEF BootDump, RestTypes
  <2>2. RestTypes' /\ NightFacts'
    BY <1>0, <1>2, <2>1 DEF BootDump, RestTypes, NightFacts, DiskTypes, DiskFacts, Dumpers
  <2> QED  BY <2>1, <2>2 DEF FInv
<1>3. CASE BootDumped
  <2>1. DiskTypes' /\ DiskFacts' /\ dump' = [dump EXCEPT ![Boot] = NoTime]
    BY <1>0, <1>3, EndDumpDisk DEF BootDumped
  <2>2. RestTypes' /\ NightFacts'
    BY <1>0, <1>3, <2>1 DEF BootDumped, RestTypes, NightFacts, DiskTypes, Dumpers
  <2> QED  BY <2>1, <2>2 DEF FInv
<1>4. CASE BootDumpFailed
  <2>1. DiskTypes' /\ DiskFacts' /\ dump' = [dump EXCEPT ![Boot] = NoTime]
    BY <1>0, <1>4, FailDumpDisk DEF BootDumpFailed, FailDump
  <2>2. RestTypes' /\ NightFacts'
    BY <1>0, <1>4, <2>1 DEF BootDumpFailed, RestTypes, NightFacts, DiskTypes, Dumpers
  <2> QED  BY <2>1, <2>2 DEF FInv
<1>5. CASE BootPrune
  <2>1. DiskTypes' /\ DiskFacts'
    BY <1>0, <1>5, RemoveDisk DEF BootPrune, DiskTypes
  <2>2. RestTypes' /\ NightFacts'
    BY <1>0, <1>5 DEF BootPrune, RestTypes, NightFacts
  <2> QED  BY <2>1, <2>2 DEF FInv
<1>6. CASE MigrateOne
  <2>1. DiskTypes' /\ DiskFacts'
    BY <1>0, <1>6, RemoveDisk DEF MigrateOne, DiskTypes
  <2>2. RestTypes' /\ NightFacts'
    BY <1>0, <1>6 DEF MigrateOne, RestTypes, NightFacts
  <2> QED  BY <2>1, <2>2 DEF FInv
<1>7. CASE MigrateFailed
  <2>1. DiskTypes' /\ DiskFacts'
    BY <1>0, <1>7, RemoveDisk DEF MigrateFailed, DiskTypes
  <2>2. RestTypes' /\ NightFacts'
    BY <1>0, <1>7 DEF MigrateFailed, RestTypes, NightFacts
  <2> QED  BY <2>1, <2>2 DEF FInv
<1>8. CASE Serve
  <2>1. DiskTypes' /\ DiskFacts'
    BY <1>0, <1>8, RemoveDisk DEF Serve, DiskTypes
  <2>2. RestTypes' /\ NightFacts'
    BY <1>0, <1>8 DEF Serve, RestTypes, NightFacts
  <2> QED  BY <2>1, <2>2 DEF FInv
<1> QED  BY <1>1, <1>2, <1>3, <1>4, <1>5, <1>6, <1>7, <1>8

\* A process that stops, a release that is installed, time.
LEMMA AroundFInv ==
    ASSUME FInv, Stop \/ (\E v \in Releases : Install(v)) \/ Wait
    PROVE  FInv'
<1> USE DEF vars, disk, night, history, manual
<1>0. DiskTypes /\ RestTypes /\ DiskFacts /\ NightFacts
  BY DEF FInv
<1>1. CASE Stop
  <2>1. DiskTypes' /\ DiskFacts'
    BY <1>0, <1>1, StopDisk
  <2>2. RestTypes' /\ NightFacts'
    BY <1>0, <1>1 DEF Stop, RestTypes, NightFacts, Dumpers
  <2> QED  BY <2>1, <2>2 DEF FInv
<1>2. CASE \E v \in Releases : Install(v)
  <2>1. DiskTypes' /\ DiskFacts'
    BY <1>0, <1>2, RemoveDisk DEF Install, DiskTypes
  <2>2. RestTypes' /\ NightFacts'
    BY <1>0, <1>2 DEF Install, RestTypes, NightFacts
  <2> QED  BY <2>1, <2>2 DEF FInv
<1>3. CASE Wait
  <2>1. DiskTypes' /\ DiskFacts'
    BY <1>0, <1>3, RemoveDisk DEF Wait, DiskTypes
  <2>2. RestTypes' /\ NightFacts'
    BY <1>0, <1>3 DEF Wait, RestTypes, NightFacts
  <2> QED  BY <2>1, <2>2 DEF FInv
<1> QED  BY <1>1, <1>2, <1>3

\* A step of the scheduler.
LEMMA NightFInv ==
    ASSUME FInv, NotDue \/ NightDump \/ NightDumped \/ NightFailed \/ NightList \/ NightRemove
    PROVE  FInv' /\ pc = "serve" /\ pc' = pc
<1> USE DEF vars, disk, night, history, manual
<1>0. DiskTypes /\ RestTypes /\ DiskFacts /\ NightFacts /\ Night \in Dumpers /\ Night # Boot
  BY DEF FInv, Dumpers
<1>1. CASE NotDue
  <2>1. DiskTypes' /\ DiskFacts'
    BY <1>0, <1>1, RemoveDisk DEF NotDue, DiskTypes
  <2>2. \A t \in Last : t \in Nat
    BY <1>0 DEF RestTypes, DiskTypes, FileType, Last, Nightlies
  <2>3. RestTypes' /\ NightFacts'
    BY <1>0, <1>1, <2>2 DEF NotDue, TickRuns, RestTypes, NightFacts
  <2> QED  BY <1>1, <2>1, <2>3 DEF FInv, NotDue, TickRuns
<1>2. CASE NightDump
  <2>1. DiskTypes' /\ DiskFacts' /\ dump' = [dump EXCEPT ![Night] = now]
    BY <1>0, <1>2, StartDumpDisk DEF NightDump, RestTypes
  <2>2. \A t \in Last : t \in Nat
    BY <1>0 DEF RestTypes, DiskTypes, FileType, Last, Nightlies
  <2>3. RestTypes' /\ NightFacts'
    BY <1>0, <1>2, <2>1, <2>2 DEF NightDump, TickRuns, RestTypes, NightFacts, DiskTypes, Dumpers
  <2> QED  BY <1>2, <2>1, <2>3 DEF FInv, NightDump, TickRuns
<1>3. CASE NightDumped
  <2>1. DiskTypes' /\ DiskFacts' /\ dump' = [dump EXCEPT ![Night] = NoTime] /\ now' \in Nat
    BY <1>0, <1>3, EndDumpDisk DEF NightDumped, DiskTypes
  <2>2. pc = "serve"
    BY <1>0, <1>3 DEF NightDumped, EndDump, RestTypes
  <2>3. RestTypes' /\ NightFacts'
    BY <1>0, <1>3, <2>1, <2>2 DEF NightDumped, RestTypes, NightFacts, DiskTypes, Dumpers
  <2> QED  BY <1>3, <2>1, <2>2, <2>3 DEF FInv, NightDumped
<1>4. CASE NightFailed
  <2>1. DiskTypes' /\ DiskFacts' /\ dump' = [dump EXCEPT ![Night] = NoTime]
    BY <1>0, <1>4, FailDumpDisk DEF NightFailed, FailDump
  <2>2. pc = "serve"
    BY <1>0, <1>4 DEF NightFailed, FailDump, RestTypes
  <2>3. RestTypes' /\ NightFacts'
    BY <1>0, <1>4, <2>1, <2>2 DEF NightFailed, RestTypes, NightFacts, DiskTypes, Dumpers
  <2> QED  BY <1>4, <2>1, <2>2, <2>3 DEF FInv, NightFailed
<1>5. CASE NightList
  <2>1. DiskTypes' /\ DiskFacts'
    BY <1>0, <1>5, RemoveDisk DEF NightList, DiskTypes
  <2>2. pc = "serve" /\ pc' = pc
    BY <1>0, <1>5 DEF NightList, NightFacts
  <2>3. RestTypes' /\ NightFacts'
    BY <1>0, <1>5, <2>2 DEF NightList, Excess, RestTypes, NightFacts, DiskTypes
  <2> QED  BY <2>1, <2>2, <2>3 DEF FInv
<1>6. CASE NightRemove
  <2>1. DiskTypes' /\ DiskFacts'
    BY <1>0, <1>6, RemoveDisk DEF NightRemove, DiskTypes
  <2>2. pc = "serve" /\ pc' = pc
    BY <1>0, <1>6 DEF NightRemove, NightFacts
  <2>3. RestTypes' /\ NightFacts'
    BY <1>0, <1>6, <2>2 DEF NightRemove, RestTypes, NightFacts
  <2> QED  BY <2>1, <2>2, <2>3 DEF FInv
<1> QED  BY <1>1, <1>2, <1>3, <1>4, <1>5, <1>6

\* A step of a request of the user.
LEMMA UserFInv ==
    ASSUME FInv,
           \/ \E r \in Requests : CreateBackup(r) \/ BackupSaved(r) \/ BackupFailed(r)
           \/ \E f \in files : DeleteBackup(f)
           \/ \E e \in BOOLEAN, k \in Keeps : PatchConfig(e, k)
    PROVE  FInv' /\ pc = "serve" /\ pc' = pc
<1> USE DEF vars, disk, night, history, manual
<1>0. /\ DiskTypes /\ RestTypes /\ DiskFacts /\ NightFacts
      /\ \A r \in Requests : r \in Dumpers /\ r # Boot
  BY DEF FInv, Dumpers
<1>1. CASE \E r \in Requests : CreateBackup(r)
  <2>1. PICK r \in Requests : CreateBackup(r)
    BY <1>1
  <2>2. DiskTypes' /\ DiskFacts' /\ dump' = [dump EXCEPT ![r] = now]
    BY <1>0, <2>1, StartDumpDisk DEF CreateBackup, RestTypes
  <2>3. RestTypes' /\ NightFacts'
    BY <1>0, <2>1, <2>2 DEF CreateBackup, RestTypes, NightFacts, DiskTypes, Dumpers
  <2> QED  BY <2>1, <2>2, <2>3 DEF FInv, CreateBackup
<1>2. CASE \E r \in Requests : BackupSaved(r)
  <2>1. PICK r \in Requests : BackupSaved(r)
    BY <1>2
  <2>2. DiskTypes' /\ DiskFacts' /\ dump' = [dump EXCEPT ![r] = NoTime] /\ dump[r] \in Nat
    BY <1>0, <2>1, EndDumpDisk DEF BackupSaved, DiskTypes
  <2>3. pc = "serve"
    BY <1>0, <2>1 DEF BackupSaved, EndDump, RestTypes
  <2>4. RestTypes' /\ NightFacts'
    BY <1>0, <2>1, <2>2, <2>3 DEF BackupSaved, RestTypes, NightFacts, DiskTypes, Dumpers
  <2> QED  BY <2>1, <2>2, <2>3, <2>4 DEF FInv, BackupSaved
<1>3. CASE \E r \in Requests : BackupFailed(r)
  <2>1. PICK r \in Requests : BackupFailed(r)
    BY <1>3
  <2>2. DiskTypes' /\ DiskFacts' /\ dump' = [dump EXCEPT ![r] = NoTime]
    BY <1>0, <2>1, FailDumpDisk DEF BackupFailed, FailDump
  <2>3. pc = "serve"
    BY <1>0, <2>1 DEF BackupFailed, FailDump, RestTypes
  <2>4. RestTypes' /\ NightFacts'
    BY <1>0, <2>1, <2>2, <2>3 DEF BackupFailed, RestTypes, NightFacts, DiskTypes, Dumpers
  <2> QED  BY <2>1, <2>2, <2>3, <2>4 DEF FInv, BackupFailed
<1>4. CASE \E f \in files : DeleteBackup(f)
  <2>1. DiskTypes' /\ DiskFacts'
    BY <1>0, <1>4, RemoveDisk DEF DeleteBackup, DiskTypes
  <2>2. RestTypes' /\ NightFacts'
    BY <1>0, <1>4 DEF DeleteBackup, RestTypes, NightFacts
  <2> QED  BY <1>4, <2>1, <2>2 DEF FInv, DeleteBackup
<1>5. CASE \E e \in BOOLEAN, k \in Keeps : PatchConfig(e, k)
  <2>1. DiskTypes' /\ DiskFacts'
    BY <1>0, <1>5, RemoveDisk DEF PatchConfig, DiskTypes
  <2>2. RestTypes' /\ NightFacts'
    BY <1>0, <1>5 DEF PatchConfig, RestTypes, NightFacts
  <2> QED  BY <1>5, <2>1, <2>2 DEF FInv, PatchConfig
<1> QED  BY <1>1, <1>2, <1>3, <1>4, <1>5

\* The steps, by who takes them.
BootStep == BootPlain \/ BootDump \/ BootDumped \/ BootDumpFailed \/ BootPrune
              \/ MigrateOne \/ MigrateFailed \/ Serve
AroundStep == Stop \/ (\E v \in Releases : Install(v)) \/ Wait
NightStep == NotDue \/ NightDump \/ NightDumped \/ NightFailed \/ NightList \/ NightRemove
UserStep == \/ \E r \in Requests : CreateBackup(r) \/ BackupSaved(r) \/ BackupFailed(r)
            \/ \E f \in files : DeleteBackup(f)
            \/ \E e \in BOOLEAN, k \in Keeps : PatchConfig(e, k)

LEMMA NextByWho == Next <=> BootStep \/ AroundStep \/ NightStep \/ UserStep
BY DEF Next, BootStep, AroundStep, NightStep, UserStep

LEMMA StutterFInv == FInv /\ UNCHANGED vars => FInv'
BY DEF FInv, DiskTypes, RestTypes, DiskFacts, NightFacts, File, vars, disk, night, history,
       manual

LEMMA StepFInv == FInv /\ [Next]_vars => FInv'
BY NextByWho, BootFInv, AroundFInv, NightFInv, UserFInv, StutterFInv
   DEF BootStep, AroundStep, NightStep, UserStep

THEOREM BackupInductive == Spec => []FInv
BY InitFInv, StepFInv, PTL DEF Spec

\* Every variable has its type in every reachable state (BackupBoot TypeOK):
\* with it, that a dump in progress is one of the running process and that the
\* configuration never keeps zero nightly dumps (backups.go, "nightly_keep must
\* be > 0").
THEOREM BackupTypes == Spec => []TypeOK
<1>1. FInv => TypeOK
  BY DEF FInv, DiskTypes, RestTypes, TypeOK
<1> QED  BY <1>1, BackupInductive, PTL

(***************************************************************************)
(* Migrations and their dumps.                                             *)
(***************************************************************************)
PreFiles == {f \in files : f.reason = "pre-migration"}

\* There is a whole dump of version s, begun by one of the boots since the
\* last server.
Dumped(s) == \E f \in PreFiles : f.whole /\ f.schema = s /\ f.at \in attempts

\* What a boot has found, dumped and kept at each of its places.
BootPlaces ==
    /\ left <= schema
    /\ pc \in {"dump", "prune", "migrate"} => left <= from /\ from <= schema
    /\ pc \in {"dump", "prune"} => schema = from
    /\ pc = "dump" => /\ dump[Boot] \in attempts
                      /\ \A f \in File(Boot, dump[Boot]) : f.schema = schema
    /\ pc = "prune" =>
         \E f \in PreFiles : /\ f.whole /\ f.schema = from /\ f.at \in attempts
                             /\ \A g \in PreFiles : g.mtime <= f.mtime
    /\ pc = "migrate" /\ from # NoTracker /\ from >= binary => schema = from
    /\ pc = "migrate" /\ from # NoTracker /\ from < binary
         /\ env.snap # "none" /\ ~env.skip => Dumped(from)
    /\ pc = "serve" => schema = left /\ attempts = {}

\* The dumps of earlier upgrades are older than those of this one.
OlderFiles ==
    /\ IsFiniteSet(attempts)
    /\ \A a \in attempts : a <= now
    /\ \A a \in attempts, g \in PreFiles : g.at \in attempts \/ g.mtime <= a

\* What the last server left is dumped once it is changed.
LeftDumped ==
    pc # "serve" /\ schema # left /\ left # NoTracker /\ env.snap # "none" /\ ~env.skip
      /\ Cardinality(attempts) <= PreKeep => Dumped(left)

BInv == BootPlaces /\ OlderFiles /\ LeftDumped

\* A dump of this upgrade is not among the excess while they are few.
LEMMA KeptByPrune ==
    ASSUME FInv, OlderFiles, Cardinality(attempts) <= PreKeep,
           NEW f \in PreFiles, f.at \in attempts
    PROVE  f \notin Excess("pre-migration", PreKeep)
<1> DEFINE N == {g \in files : g.reason = "pre-migration" /\ g.mtime > f.mtime}
<1> DEFINE A == attempts \ {f.at}
<1> DEFINE h == [g \in N |-> g.at]
<1>0. /\ attempts \subseteq Nat /\ f \in files /\ f \in FileType
      /\ \A g \in files : g \in FileType
  BY DEF FInv, RestTypes, DiskTypes, PreFiles
<1>1. \A g \in N : g.at \in A
  BY <1>0 DEF FInv, DiskFacts, OlderFiles, PreFiles, FileType
<1>2. h \in Injection(N, A)
  BY <1>1 DEF FInv, DiskFacts, Injection, IsInjective
<1>3. IsFiniteSet(A) /\ Cardinality(A) = Cardinality(attempts) - 1
  BY FS_RemoveElement DEF OlderFiles
<1>4. Cardinality(attempts) \in Nat
  BY FS_CardinalityType DEF OlderFiles
<1>5. IsFiniteSet(N) /\ Cardinality(N) <= Cardinality(A)
  <2> HIDE DEF N, A, h
  <2> QED  BY <1>2, <1>3, FS_Injection
<1>6. Cardinality(N) \in Nat
  BY <1>5, FS_CardinalityType
<1>7. ~(Cardinality(N) >= PreKeep)
  <2> HIDE DEF N, A
  <2> QED  BY <1>3, <1>4, <1>5, <1>6
<1> QED  BY <1>7 DEF Excess

\* Nor is the newest, ever.
LEMMA NewestKept ==
    ASSUME FInv, NEW f \in PreFiles, \A g \in PreFiles : g.mtime <= f.mtime
    PROVE  f \notin Excess("pre-migration", PreKeep)
<1>1. {g \in files : g.reason = "pre-migration" /\ g.mtime > f.mtime} = {}
  BY DEF FInv, DiskTypes, FileType, PreFiles
<1>2. Cardinality({g \in files : g.reason = "pre-migration" /\ g.mtime > f.mtime}) = 0
  BY <1>1, FS_EmptySet
<1> QED  BY <1>2 DEF Excess

LEMMA InitBInv == Init => BInv
BY FS_EmptySet DEF Init, BInv, BootPlaces, OlderFiles, LeftDumped, PreFiles

\* While a server runs nothing is asked of the dumps.
LEMMA ServeBInv ==
    ASSUME BInv, pc = "serve", pc' = pc, UNCHANGED <<schema, left, attempts>>
    PROVE  BInv'
BY DEF BInv, BootPlaces, OlderFiles, LeftDumped

\* No pre-migration dump changes.
LEMMA FrameBInv ==
    ASSUME FInv, BInv, UNCHANGED <<env, binary, schema, pc, left, from, attempts, files, dump>>,
           now' \in Nat, now' >= now
    PROVE  BInv'
BY DEF FInv, DiskTypes, RestTypes, BInv, BootPlaces, OlderFiles, LeftDumped, PreFiles, Dumped,
       File

LEMMA BootPlainBInv == FInv /\ BInv /\ BootPlain => BInv'
<1> SUFFICES ASSUME FInv, BInv, BootPlain PROVE BInv'
  OBVIOUS
<1> USE DEF disk, night, manual
<1>1. BootPlaces'
  BY DEF BootPlain, Pending, FInv, DiskTypes, RestTypes, BInv, BootPlaces, PreFiles, Dumped, File
<1>2. OlderFiles'
  BY DEF BootPlain, BInv, OlderFiles, PreFiles
<1>3. LeftDumped'
  BY DEF BootPlain, BInv, LeftDumped, Dumped, PreFiles
<1> QED  BY <1>1, <1>2, <1>3 DEF BInv

LEMMA BootDumpBInv == FInv /\ BInv /\ BootDump => BInv'
<1> SUFFICES ASSUME FInv, BInv, BootDump PROVE BInv'
  OBVIOUS
<1> USE DEF night, manual
<1> DEFINE n == Written("pre-migration", now, now, schema, FALSE)
<1>0. /\ now \in Nat /\ schema \in Schemas /\ attempts \subseteq Nat
      /\ \A f \in files : f \in FileType
      /\ Boot \in Dumpers /\ dump \in [Dumpers -> Nat]
  BY DEF FInv, DiskTypes, RestTypes, Dumpers
<1>1. /\ n.reason = "pre-migration" /\ n.at = now /\ n.mtime = now
      /\ n.whole = FALSE /\ n.schema = schema
  BY DEF Written
<1>2. /\ files' = (files \ File(Boot, now)) \cup {n}
      /\ dump' = [dump EXCEPT ![Boot] = now]
  BY DEF BootDump, StartDump, Reason
<1> HIDE DEF n
<1>3. PreFiles' = (PreFiles \ File(Boot, now)) \cup {n}
  BY <1>1, <1>2 DEF PreFiles
<1>4. \A f \in PreFiles : f.whole => f \notin File(Boot, now)
  BY <1>0 DEF FInv, DiskFacts, PreFiles, File, FileType
<1>5. \A s : Dumped(s) => Dumped(s)'
  BY <1>3, <1>4 DEF Dumped, BootDump
<1>6. BootPlaces'
  <2>1. \A f \in File(Boot, dump[Boot])' : f.schema = schema
    BY <1>0, <1>1, <1>2 DEF File, Reason
  <2> QED  BY <1>0, <1>2, <2>1 DEF BootDump, BInv, BootPlaces, FInv, RestTypes
<1>7. OlderFiles'
  <2>1. IsFiniteSet(attempts')
    BY FS_AddElement DEF BootDump, BInv, OlderFiles
  <2>2. \A g \in PreFiles' : g.at \in attempts' \/ (g \in PreFiles /\ g.mtime <= now)
    BY <1>1, <1>3 DEF BootDump, FInv, DiskFacts, PreFiles
  <2> QED  BY <1>0, <2>1, <2>2 DEF BootDump, BInv, OlderFiles
<1>8. LeftDumped'
  <2>0. IsFiniteSet(attempts) /\ Cardinality(attempts) \in Nat
    BY FS_CardinalityType DEF BInv, OlderFiles
  <2>1. attempts' = attempts \cup {now}
    BY DEF BootDump
  <2>2. Cardinality(attempts') = IF now \in attempts THEN Cardinality(attempts)
                                 ELSE Cardinality(attempts) + 1
    BY <2>0, <2>1, FS_AddElement
  <2>3. Cardinality(attempts') <= PreKeep => Cardinality(attempts) <= PreKeep
    BY <2>0, <2>2
  <2> QED  BY <1>5, <2>3 DEF BootDump, BInv, LeftDumped
<1> QED  BY <1>6, <1>7, <1>8 DEF BInv

LEMMA BootDumpedBInv == FInv /\ BInv /\ BootDumped => BInv'
<1> SUFFICES ASSUME FInv, BInv, BootDumped PROVE BInv'
  OBVIOUS
<1> USE DEF night, manual, history
<1>0. /\ DiskTypes /\ DiskFacts /\ Boot \in Dumpers /\ Boot \notin Requests
      /\ \A f \in files : f \in FileType
      /\ dump[Boot] # NoTime /\ dump[Boot] \in attempts
  BY DEF FInv, DiskTypes, RestTypes, Dumpers, BInv, BootPlaces, BootDumped
<1>1. now' = now + 1 /\ dump' = [dump EXCEPT ![Boot] = NoTime]
  BY <1>0, EndDumpDisk DEF BootDumped
<1>2. PICK f \in File(Boot, dump[Boot]), n \in FileType :
        /\ n.reason = f.reason /\ n.at = f.at /\ n.schema = f.schema
        /\ n.mtime = now + 1 /\ n.whole
        /\ files' = (files \ {f}) \cup {n}
  BY <1>0, EndDumpDisk DEF BootDumped
<1>3. f \in PreFiles /\ ~f.whole /\ f.at = dump[Boot] /\ f.schema = schema
  BY <1>0, <1>2 DEF DiskFacts, BInv, BootPlaces, BootDumped, File, PreFiles, Reason
<1>4. PreFiles' = (PreFiles \ {f}) \cup {n}
  BY <1>2, <1>3 DEF PreFiles
<1>5. \A s : Dumped(s) => Dumped(s)'
  BY <1>3, <1>4 DEF Dumped, BootDumped
<1>6. BootPlaces'
  <2>1. \A g \in PreFiles : g.mtime <= now /\ g.mtime \in Nat /\ now \in Nat
    BY <1>0 DEF DiskTypes, DiskFacts, PreFiles, FileType
  <2>2. \A g \in PreFiles' : g.mtime <= n.mtime
    <3>1. now \in Nat
      BY <1>0 DEF DiskTypes
    <3>2. \A g \in PreFiles : g.mtime <= n.mtime
      BY <1>2, <2>1, <3>1
    <3>3. n.mtime <= n.mtime
      BY <1>2, <3>1
    <3> QED  BY <1>4, <3>2, <3>3
  <2> QED  BY <1>0, <1>2, <1>3, <1>4, <2>2 DEF BootDumped, BInv, BootPlaces
<1>7. OlderFiles'
  BY <1>0, <1>1, <1>2, <1>3, <1>4 DEF BootDumped, BInv, OlderFiles, DiskTypes, FInv, RestTypes
<1>8. LeftDumped'
  BY <1>5 DEF BootDumped, BInv, LeftDumped
<1> QED  BY <1>6, <1>7, <1>8 DEF BInv

LEMMA BootDumpFailedBInv == FInv /\ BInv /\ BootDumpFailed => BInv'
<1> SUFFICES ASSUME FInv, BInv, BootDumpFailed PROVE BInv'
  OBVIOUS
<1> USE DEF night, manual, history
<1>0. files' = files \ File(Boot, dump[Boot]) /\ dump[Boot] # NoTime
  BY DEF BootDumpFailed, FailDump
<1>1. \A f \in File(Boot, dump[Boot]) : ~f.whole
  BY <1>0 DEF FInv, DiskFacts
<1>2. PreFiles' \subseteq PreFiles
  BY <1>0 DEF PreFiles
<1>3. \A s : Dumped(s) => Dumped(s)'
  BY <1>0, <1>1 DEF Dumped, PreFiles, BootDumpFailed
<1>4. BootPlaces'
  BY DEF BootDumpFailed, BInv, BootPlaces
<1>5. OlderFiles'
  BY <1>2 DEF BootDumpFailed, BInv, OlderFiles
<1>6. LeftDumped'
  BY <1>3 DEF BootDumpFailed, BInv, LeftDumped
<1> QED  BY <1>4, <1>5, <1>6 DEF BInv

LEMMA BootPruneBInv == FInv /\ BInv /\ BootPrune => BInv'
<1> SUFFICES ASSUME FInv, BInv, BootPrune PROVE BInv'
  OBVIOUS
<1> USE DEF night, manual, history
<1>0. PICK V \in SUBSET Excess("pre-migration", PreKeep) : files' = files \ V
  BY DEF BootPrune
<1>1. PreFiles' = PreFiles \ V
  BY <1>0 DEF PreFiles
<1>2. PICK f \in PreFiles : /\ f.whole /\ f.schema = from /\ f.at \in attempts
                            /\ \A g \in PreFiles : g.mtime <= f.mtime
  BY DEF BootPrune, BInv, BootPlaces
<1>3. f \in PreFiles'
  BY <1>0, <1>1, <1>2, NewestKept
<1>4. Dumped(from)'
  BY <1>2, <1>3 DEF Dumped, BootPrune
<1>5. BootPlaces'
  BY <1>4 DEF BootPrune, BInv, BootPlaces
<1>6. OlderFiles'
  BY <1>1 DEF BootPrune, BInv, OlderFiles
<1>7. LeftDumped'
  <2>1. Cardinality(attempts) <= PreKeep => \A g \in PreFiles : g.at \in attempts => g \notin V
    BY <1>0, KeptByPrune DEF BInv
  <2>2. \A s : Cardinality(attempts) <= PreKeep /\ Dumped(s) => Dumped(s)'
    BY <1>1, <2>1 DEF Dumped, BootPrune
  <2> QED  BY <2>2 DEF BootPrune, BInv, LeftDumped
<1> QED  BY <1>5, <1>6, <1>7 DEF BInv

LEMMA MigrateOneBInv == FInv /\ BInv /\ MigrateOne => BInv'
<1> SUFFICES ASSUME FInv, BInv, MigrateOne PROVE BInv'
  OBVIOUS
<1> USE DEF disk, night, manual, history
<1>0. /\ schema \in Schemas /\ from \in Schemas /\ left \in Schemas /\ binary \in Nat
      /\ schema < binary /\ schema' = schema + 1 /\ pc = "migrate"
  BY DEF FInv, RestTypes, MigrateOne
<1>1. \A s : Dumped(s)' <=> Dumped(s)
  BY DEF MigrateOne, Dumped, PreFiles
<1>2. BootPlaces'
  BY <1>0, <1>1 DEF MigrateOne, BInv, BootPlaces
<1>3. OlderFiles'
  BY DEF MigrateOne, BInv, OlderFiles, PreFiles
<1>4. LeftDumped'
  <2>1. CASE schema # left
    BY <1>0, <1>1, <2>1 DEF MigrateOne, BInv, LeftDumped
  <2>2. CASE schema = left /\ left # NoTracker /\ env.snap # "none" /\ ~env.skip
    <3>1. from = left /\ from < binary
      BY <1>0, <2>2 DEF BInv, BootPlaces
    <3>2. Dumped(left)
      BY <1>0, <2>2, <3>1 DEF BInv, BootPlaces
    <3> QED  BY <1>1, <3>2 DEF MigrateOne, LeftDumped
  <2> QED  BY <1>0, <2>1, <2>2 DEF MigrateOne, LeftDumped
<1> QED  BY <1>2, <1>3, <1>4 DEF BInv

LEMMA MigrateFailedBInv == FInv /\ BInv /\ MigrateFailed => BInv'
BY DEF disk, night, manual, MigrateFailed, BInv, BootPlaces, OlderFiles, LeftDumped, Dumped,
       PreFiles

LEMMA ServeStartsBInv == FInv /\ BInv /\ Serve => BInv'
BY FS_EmptySet DEF disk, night, manual, Serve, FInv, RestTypes, BInv, BootPlaces, OlderFiles, LeftDumped

LEMMA StopBInv == FInv /\ BInv /\ Stop => BInv'
<1> SUFFICES ASSUME FInv, BInv, Stop PROVE BInv'
  OBVIOUS
<1> USE DEF manual
<1>0. /\ \A f \in files : f \in FileType
      /\ now \in Nat /\ now' = now + 1 /\ attempts \subseteq Nat
      /\ BeingWritten \subseteq files
  BY DEF FInv, DiskTypes, RestTypes, Stop, BeingWritten
<1>1. \A f \in files \ BeingWritten : f \in files'
  BY DEF Stop
<1>2. \A g \in BeingWritten : g.reason = "pre-migration" =>
        g.at = dump[Boot] /\ dump[Boot] # NoTime /\ ~g.whole
  BY <1>0 DEF BeingWritten, FInv, DiskFacts, File, Reason, Dumpers
<1>3. \A s : Dumped(s) => Dumped(s)'
  BY <1>1, <1>2 DEF Dumped, PreFiles, Stop
<1>4. \A g \in PreFiles' : g \in PreFiles \/ (g.at = dump[Boot] /\ dump[Boot] # NoTime)
  <2>1. \A g \in files' : \/ g \in files
                           \/ \E f \in BeingWritten : g.reason = f.reason /\ g.at = f.at
    BY <1>0 DEF Stop, Written
  <2> QED  BY <1>2, <2>1 DEF PreFiles
<1>5. OlderFiles'
  <2>1. dump[Boot] # NoTime => dump[Boot] \in attempts
    BY DEF FInv, RestTypes, BInv, BootPlaces
  <2> QED  BY <1>0, <1>4, <2>1 DEF Stop, BInv, OlderFiles
<1>6. BootPlaces'
  BY DEF Stop, BInv, BootPlaces
<1>7. LeftDumped'
  BY <1>3 DEF Stop, BInv, BootPlaces, LeftDumped
<1> QED  BY <1>5, <1>6, <1>7 DEF BInv

LEMMA InstallBInv == FInv /\ BInv /\ (\E v \in Releases : Install(v)) => BInv'
BY DEF disk, night, manual, history, Install, BInv, BootPlaces, OlderFiles, LeftDumped, Dumped,
       PreFiles

LEMMA StepBInv == FInv /\ BInv /\ [Next]_vars => BInv'
<1> SUFFICES ASSUME FInv, BInv, [Next]_vars PROVE BInv'
  OBVIOUS
<1>1. CASE BootStep
  BY <1>1, BootPlainBInv, BootDumpBInv, BootDumpedBInv, BootDumpFailedBInv, BootPruneBInv,
     MigrateOneBInv, MigrateFailedBInv, ServeStartsBInv DEF BootStep
<1>2. CASE AroundStep
  <2>1. CASE Wait
    <3>1. now \in Nat /\ now' = now + 1
      BY <2>1 DEF Wait, FInv, DiskTypes
    <3> QED  BY <2>1, <3>1, FrameBInv DEF Wait, disk, history
  <2> QED  BY <1>2, <2>1, StopBInv, InstallBInv DEF AroundStep
<1>3. CASE NightStep
  <2>1. pc = "serve" /\ pc' = pc
    BY <1>3, NightFInv DEF NightStep
  <2>2. UNCHANGED <<schema, left, attempts>>
    BY <1>3 DEF NightStep, NotDue, NightDump, NightDumped, NightFailed, NightList, NightRemove,
                history
  <2> QED  BY <2>1, <2>2, ServeBInv
<1>4. CASE UserStep
  <2>1. pc = "serve" /\ pc' = pc
    BY <1>4, UserFInv DEF UserStep
  <2>2. UNCHANGED <<schema, left, attempts>>
    BY <1>4 DEF UserStep, CreateBackup, BackupSaved, BackupFailed, DeleteBackup, PatchConfig,
                history
  <2> QED  BY <2>1, <2>2, ServeBInv
<1>5. CASE UNCHANGED vars
  <2>1. now \in Nat
    BY DEF FInv, DiskTypes
  <2> QED  BY <1>5, <2>1, FrameBInv DEF vars, disk, history
<1> QED  BY <1>1, <1>2, <1>3, <1>4, <1>5, NextByWho

LEMMA BackupDumped == Spec => [](FInv /\ BInv)
<1>1. Init => FInv /\ BInv
  BY InitFInv, InitBInv
<1>2. FInv /\ BInv /\ [Next]_vars => (FInv /\ BInv)'
  BY StepFInv, StepBInv
<1> QED  BY <1>1, <1>2, PTL DEF Spec

\* No boot changes the schema without a whole dump of what it found, whichever
\* process was killed before and whatever is pruned (main.go
\* preMigrationBackup; BackupBoot MigratesOverDump).
THEOREM NoMigrationWithoutDump == Spec => []MigratesOverDump
<1>1. FInv /\ BInv => MigratesOverDump
  BY DEF FInv, RestTypes, BInv, BootPlaces, MigratesOverDump, Dumped, PreFiles, Saves
<1> QED  BY <1>1, BackupDumped, PTL

\* What the previous version left can be restored until the upgrade is up,
\* when no more boots dumped than dumps are kept (main.go
\* PREMIGRATION_BACKUP_KEEP; BackupBoot UpgradeUndoable).
THEOREM UpgradesUndoable == Spec => []UpgradeUndoable
<1>1. FInv /\ BInv => UpgradeUndoable
  BY DEF BInv, LeftDumped, UpgradeUndoable, PreviousVersionKept, Dumped, PreFiles, Saves
<1> QED  BY <1>1, BackupDumped, PTL

(***************************************************************************)
(* Nightly dumps.                                                          *)
(***************************************************************************)
\* The scheduler remembers a time no earlier than any nightly dump but the one
\* it is writing, and that one began a day after all the others.
NInv ==
    /\ NightliesSpaced
    /\ lastAt # NoTime => \A f \in Nightlies :
         f.mtime <= lastAt \/ (dump[Night] # NoTime /\ f.at = dump[Night])
    /\ dump[Night] # NoTime => \A f \in Nightlies :
         f.at = dump[Night] \/ dump[Night] - f.mtime >= Day

LEMMA InitNInv == Init => NInv
BY DEF Init, NInv, NightliesSpaced, Nightlies

\* Whatever else happens, and dumps that go.
LEMMA FrameNInv ==
    ASSUME NInv, Nightlies' \subseteq Nightlies, UNCHANGED <<lastAt, dump[Night]>>
    PROVE  NInv'
BY DEF NInv, NightliesSpaced, Nightlies

\* A dump of another reason begins, ends or fails.
LEMMA OtherDump ==
    ASSUME DiskTypes, NEW d \in Dumpers, d # Night, StartDump(d) \/ EndDump(d) \/ FailDump(d)
    PROVE  Nightlies' \subseteq Nightlies /\ UNCHANGED dump[Night]
<1>1. Reason(d) # "nightly" /\ Night \in Dumpers
  BY DEF Reason, Dumpers
<1>2. UNCHANGED dump[Night]
  BY <1>1 DEF StartDump, EndDump, FailDump, DiskTypes
<1>3. CASE StartDump(d)
  BY <1>1, <1>3 DEF StartDump, Written, Nightlies
<1>4. CASE EndDump(d)
  BY <1>1, <1>4 DEF EndDump, File, Written, Nightlies
<1>5. CASE FailDump(d)
  BY <1>1, <1>5 DEF FailDump, Nightlies
<1> QED  BY <1>2, <1>3, <1>4, <1>5

LEMMA NotDueNInv == FInv /\ NInv /\ NotDue => NInv'
<1> SUFFICES ASSUME FInv, NInv, NotDue PROVE NInv'
  OBVIOUS
<1> USE DEF disk
<1>1. \A f \in Nightlies : f.mtime \in Nat /\ f.mtime >= 1
  BY DEF FInv, DiskTypes, DiskFacts, Nightlies, FileType
<1>2. PICK t \in Last : t # NoTime /\ lastAt' = t
  BY DEF NotDue
<1>3. Nightlies' = Nightlies /\ dump' = dump
  BY DEF NotDue, Nightlies
<1>4. CASE lastAt # NoTime \/ Nightlies = {}
  BY <1>2, <1>3, <1>4, FrameNInv DEF Last, NInv
<1>5. CASE lastAt = NoTime /\ Nightlies # {}
  <2>1. \A f \in Nightlies : f.mtime <= lastAt'
    BY <1>2, <1>5 DEF Last
  <2> QED  BY <1>3, <2>1 DEF NInv, NightliesSpaced, Nightlies, NotDue
<1> QED  BY <1>4, <1>5

LEMMA NightDumpNInv == FInv /\ NInv /\ NightDump => NInv'
<1> SUFFICES ASSUME FInv, NInv, NightDump PROVE NInv'
  OBVIOUS
<1> DEFINE n == Written("nightly", now, now, schema, FALSE)
<1>0. /\ now \in Nat /\ now >= 1 /\ lastAt \in Nat
      /\ \A f \in files : f \in FileType
      /\ Night \in Dumpers /\ dump \in [Dumpers -> Nat] /\ Day \in Nat
      /\ dump[Night] = NoTime
  BY DEF FInv, NightFacts, DiskTypes, DiskFacts, RestTypes, Dumpers, NightDump, TickRuns, NInv, StartDump
<1>1. /\ n.reason = "nightly" /\ n.at = now /\ n.mtime = now
  BY DEF Written
<1>2. Nightlies' \subseteq Nightlies \cup {n}
  BY DEF NightDump, StartDump, Nightlies, Reason
<1> HIDE DEF n
<1>3. dump'[Night] = now
  BY <1>0 DEF NightDump, StartDump
<1>4. PICK t \in Last : (t # NoTime => now - t >= Day) /\ lastAt' = t
  BY DEF NightDump
<1>5. \A f \in Nightlies : f.mtime \in Nat /\ f.mtime >= 1
  BY DEF FInv, DiskTypes, DiskFacts, Nightlies, FileType
<1>6. Nightlies # {} => t # NoTime /\ \A f \in Nightlies : f.mtime <= t
  <2>1. CASE lastAt # NoTime
    BY <1>0, <1>4, <2>1 DEF Last, NInv
  <2>2. CASE lastAt = NoTime /\ Nightlies # {}
    BY <1>4, <1>5, <2>2 DEF Last
  <2> QED  BY <2>1, <2>2
<1>7. t \in Nat
  BY <1>0, <1>4, <1>5 DEF Last
<1>8. \A f \in Nightlies : now - f.mtime >= Day
  BY <1>0, <1>4, <1>5, <1>6, <1>7
<1>9. NightliesSpaced'
  BY <1>0, <1>1, <1>2, <1>5, <1>8 DEF NInv, NightliesSpaced, Nightlies
<1>10. lastAt' # NoTime => \A f \in Nightlies' : f.mtime <= lastAt' \/ f.at = now
  BY <1>1, <1>2, <1>4, <1>6
<1>11. \A f \in Nightlies' : f.at = now \/ now - f.mtime >= Day
  BY <1>1, <1>2, <1>8
<1> QED  BY <1>0, <1>3, <1>9, <1>10, <1>11 DEF NInv

LEMMA NightDumpedNInv == FInv /\ NInv /\ NightDumped => NInv'
<1> SUFFICES ASSUME FInv, NInv, NightDumped PROVE NInv'
  OBVIOUS
<1>0. /\ now \in Nat /\ Night \in Dumpers /\ dump[Night] \in Nat /\ dump[Night] # NoTime
      /\ dump[Night] <= now /\ Day \in Nat
      /\ \A f \in files : f \in FileType /\ f.mtime \in Nat /\ f.mtime <= now
  BY DEF FInv, DiskTypes, DiskFacts, Dumpers, NightDumped, EndDump, FileType
<1>1. /\ now' = now + 1 /\ dump' = [dump EXCEPT ![Night] = NoTime]
  BY <1>0, EndDumpDisk DEF FInv, NightDumped
<1>2. PICK f \in File(Night, dump[Night]), n \in FileType :
        n.at = f.at /\ n.mtime = now + 1 /\ files' = (files \ {f}) \cup {n}
  BY <1>0, EndDumpDisk DEF FInv, NightDumped
<1>3. \A g \in Nightlies' : g = n \/ (g \in Nightlies /\ g.at # dump[Night])
  BY <1>0, <1>2 DEF Nightlies, FInv, DiskFacts, File, Reason
<1>4. dump'[Night] = NoTime /\ lastAt' = now + 1
  BY <1>0, <1>1 DEF NightDumped, FInv, DiskTypes
<1>5. \A g \in Nightlies : g \in files
  BY DEF Nightlies
<1>6. \A g \in Nightlies' : g = n \/ (g \in Nightlies /\ (now + 1) - g.mtime >= Day)
  BY <1>0, <1>3, <1>5 DEF NInv
<1>7. \A g \in Nightlies' : g.mtime \in Nat /\ g.mtime <= now + 1
  BY <1>0, <1>2, <1>3, <1>5
<1>8. NightliesSpaced'
  <2>1. \A g, h \in Nightlies' : g.mtime < h.mtime => h.mtime - g.mtime >= Day
    BY <1>0, <1>2, <1>6, <1>7 DEF NInv, NightliesSpaced, Nightlies
  <2> QED  BY <2>1 DEF NightliesSpaced, Nightlies
<1> QED  BY <1>4, <1>7, <1>8 DEF NInv

LEMMA NightFailedNInv == FInv /\ NInv /\ NightFailed => NInv'
<1> SUFFICES ASSUME FInv, NInv, NightFailed PROVE NInv'
  OBVIOUS
<1>1. \A f \in Nightlies' : f \in Nightlies /\ f.at # dump[Night]
  BY DEF NightFailed, FailDump, File, Nightlies, Reason
<1>2. dump'[Night] = NoTime /\ lastAt' = lastAt
  BY DEF NightFailed, FailDump, FInv, DiskTypes, Dumpers
<1> QED  BY <1>1, <1>2 DEF NInv, NightliesSpaced, Nightlies

\* The dump that a process leaves behind is a day younger than the others.
LEMMA StopNInv == FInv /\ NInv /\ Stop => NInv'
<1> SUFFICES ASSUME FInv, NInv, Stop PROVE NInv'
  OBVIOUS
<1> USE DEF night
<1>0. /\ now \in Nat /\ now' = now + 1 /\ dump[Night] \in Nat /\ dump[Night] <= now
      /\ Day \in Nat /\ Night \in Dumpers
      /\ \A f \in files : f \in FileType /\ f.mtime \in Nat /\ f.mtime <= now
                          /\ f.at \in Nat /\ f.at >= 1
  BY DEF FInv, DiskTypes, DiskFacts, Stop, Dumpers, FileType
<1>1. \A g \in Nightlies' :
        \/ g \in Nightlies /\ g.at # dump[Night]
        \/ g.mtime = now + 1 /\ g.at = dump[Night] /\ dump[Night] # NoTime
  <2>1. \A f \in BeingWritten : f.reason = "nightly" => f.at = dump[Night]
    BY DEF BeingWritten, Reason, Dumpers
  <2>2. \A f \in BeingWritten : f \in files
    BY DEF BeingWritten
  <2>3. \A f \in files : f.reason = "nightly" /\ f.at = dump[Night] => f \in BeingWritten
    BY <1>0 DEF BeingWritten, Reason
  <2> QED  BY <1>0, <2>1, <2>2, <2>3 DEF Stop, Nightlies, Written
<1>2. \A g \in Nightlies : g \in files
  BY DEF Nightlies
<1>3. \A g \in Nightlies' : g.mtime \in Nat
  BY <1>0, <1>1, <1>2
<1>4. \A g, h \in Nightlies' : g.mtime < h.mtime => h.mtime - g.mtime >= Day
  BY <1>0, <1>1, <1>2, <1>3 DEF NInv, NightliesSpaced, Nightlies
<1>5. dump'[Night] = NoTime /\ lastAt' = NoTime
  BY <1>0 DEF Stop
<1> QED  BY <1>4, <1>5 DEF NInv, NightliesSpaced, Nightlies

LEMMA StepNInv == FInv /\ NInv /\ [Next]_vars => NInv'
<1> SUFFICES ASSUME FInv, NInv, [Next]_vars PROVE NInv'
  OBVIOUS
<1> USE DEF vars, disk, night
<1>0. DiskTypes /\ Boot \in Dumpers /\ Boot # Night
      /\ \A r \in Requests : r \in Dumpers /\ r # Night
  BY DEF FInv, Dumpers
<1>1. CASE BootStep
  <2>1. CASE BootDump
    BY <1>0, <2>1, OtherDump, FrameNInv DEF BootDump
  <2>2. CASE BootDumped
    BY <1>0, <2>2, OtherDump, FrameNInv DEF BootDumped
  <2>3. CASE BootDumpFailed
    BY <1>0, <2>3, OtherDump, FrameNInv DEF BootDumpFailed
  <2>4. CASE BootPlain \/ BootPrune \/ MigrateOne \/ MigrateFailed \/ Serve
    <3>1. Nightlies' \subseteq Nightlies /\ UNCHANGED <<lastAt, dump>>
      BY <2>4 DEF BootPlain, BootPrune, MigrateOne, MigrateFailed, Serve, Nightlies
    <3> QED  BY <3>1, FrameNInv
  <2> QED  BY <1>1, <2>1, <2>2, <2>3, <2>4 DEF BootStep
<1>2. CASE AroundStep
  <2>1. CASE Wait \/ \E v \in Releases : Install(v)
    <3>1. Nightlies' \subseteq Nightlies /\ UNCHANGED <<lastAt, dump>>
      BY <2>1 DEF Wait, Install, Nightlies
    <3> QED  BY <3>1, FrameNInv
  <2> QED  BY <1>2, <2>1, StopNInv DEF AroundStep
<1>3. CASE NightStep
  <2>1. CASE NightList \/ NightRemove
    <3>1. Nightlies' \subseteq Nightlies /\ UNCHANGED <<lastAt, dump>>
      BY <2>1 DEF NightList, NightRemove, Nightlies
    <3> QED  BY <3>1, FrameNInv
  <2> QED  BY <1>3, <2>1, NotDueNInv, NightDumpNInv, NightDumpedNInv, NightFailedNInv
           DEF NightStep
<1>4. CASE UserStep
  <2>1. CASE \E r \in Requests : CreateBackup(r) \/ BackupSaved(r) \/ BackupFailed(r)
    <3>1. PICK r \in Requests : CreateBackup(r) \/ BackupSaved(r) \/ BackupFailed(r)
      BY <2>1
    <3>2. Nightlies' \subseteq Nightlies /\ UNCHANGED dump[Night]
      BY <1>0, <3>1, OtherDump DEF CreateBackup, BackupSaved, BackupFailed
    <3>3. UNCHANGED lastAt
      BY <3>1 DEF CreateBackup, BackupSaved, BackupFailed
    <3> QED  BY <3>2, <3>3, FrameNInv
  <2>2. CASE (\E f \in files : DeleteBackup(f)) \/ \E e \in BOOLEAN, k \in Keeps : PatchConfig(e, k)
    <3>1. Nightlies' \subseteq Nightlies /\ UNCHANGED <<lastAt, dump>>
      BY <2>2 DEF DeleteBackup, PatchConfig, Nightlies
    <3> QED  BY <3>1, FrameNInv
  <2> QED  BY <1>4, <2>1, <2>2 DEF UserStep
<1>5. CASE UNCHANGED vars
  BY <1>5, FrameNInv DEF Nightlies
<1> QED  BY <1>1, <1>2, <1>3, <1>4, <1>5, NextByWho

\* Nightly dumps are a day apart across restarts, failures, killed dumps and
\* deletions (scheduler.go tick, "so we don't double-up after a restart";
\* BackupBoot NightliesSpaced).
THEOREM NightliesADayApart == Spec => []NightliesSpaced
<1>1. Init => FInv /\ NInv
  BY InitFInv, InitNInv
<1>2. FInv /\ NInv /\ [Next]_vars => (FInv /\ NInv)'
  BY StepFInv, StepNInv
<1>3. FInv /\ NInv => NightliesSpaced
  BY DEF NInv
<1> QED  BY <1>1, <1>2, <1>3, PTL DEF Spec

(***************************************************************************)
(* The user's backups.                                                     *)
(***************************************************************************)
Manuals == {f \in files : f.reason = "manual"}

\* Two requests that write the same file clash, and so does a request that
\* writes a file already reported.
MInv ==
    /\ \A t \in saved : 1 <= t /\ t < now
    /\ \A q, r \in Requests : q # r /\ dump[q] = dump[r] /\ dump[q] # NoTime => dump[q] \in clash
    /\ \A t \in saved, r \in Requests : dump[r] = t => t \in clash
    /\ SavedBackupStays

LEMMA InitMInv == Init => MInv
BY DEF Init, MInv, SavedBackupStays, Dumpers

\* Steps that leave the user's dumps alone.
LEMMA FrameMInv ==
    ASSUME FInv, MInv, Manuals \subseteq Manuals', now' \in Nat, now' >= now,
           UNCHANGED manual, \A r \in Requests : dump'[r] = dump[r]
    PROVE  MInv'
<1> USE DEF manual
<1>1. now \in Nat /\ saved \subseteq Nat
  BY DEF FInv, DiskTypes, RestTypes
<1>2. SavedBackupStays'
  BY DEF MInv, SavedBackupStays, Manuals
<1> QED  BY <1>1, <1>2 DEF MInv

\* The dump of a boot or of the scheduler begins, ends or fails.
LEMMA OwnDump ==
    ASSUME FInv, NEW d \in {Boot, Night},
           (StartDump(d) /\ now' = now) \/ EndDump(d) \/ (FailDump(d) /\ now' = now)
    PROVE  /\ Manuals \subseteq Manuals' /\ now' \in Nat /\ now' >= now
           /\ \A r \in Requests : dump'[r] = dump[r]
<1>1. d \in Dumpers /\ d \notin Requests /\ Reason(d) # "manual" /\ DiskTypes /\ now \in Nat
  BY DEF Dumpers, Reason, FInv, DiskTypes
<1>2. \A f \in Manuals : f \notin File(d, now) /\ f \notin File(d, dump[d])
  BY <1>1 DEF Manuals, File
<1>3. Manuals \subseteq Manuals'
  BY <1>2 DEF StartDump, EndDump, FailDump, Manuals
<1>4. now' \in Nat /\ now' >= now
  BY <1>1 DEF EndDump
<1>5. \A r \in Requests : dump'[r] = dump[r]
  BY <1>1 DEF StartDump, EndDump, FailDump, DiskTypes, Dumpers
<1> QED  BY <1>3, <1>4, <1>5

LEMMA BootMInv == FInv /\ MInv /\ BootStep => MInv'
<1> SUFFICES ASSUME FInv, MInv, BootStep PROVE MInv'
  OBVIOUS
<1> USE DEF disk
<1>0. now \in Nat
  BY DEF FInv, DiskTypes
<1>1. CASE BootDump \/ BootDumped \/ BootDumpFailed
  BY <1>1, OwnDump, FrameMInv DEF BootDump, BootDumped, BootDumpFailed, history
<1>2. CASE BootPlain \/ BootPrune \/ MigrateOne \/ MigrateFailed \/ Serve
  <2>1. Manuals \subseteq Manuals'
    BY <1>2 DEF BootPlain, BootPrune, MigrateOne, MigrateFailed, Serve, Manuals, Excess
  <2>2. UNCHANGED <<now, dump, manual>>
    BY <1>2 DEF BootPlain, BootPrune, MigrateOne, MigrateFailed, Serve
  <2> QED  BY <1>0, <2>1, <2>2, FrameMInv
<1> QED  BY <1>1, <1>2 DEF BootStep

LEMMA NightMInv == FInv /\ MInv /\ NightStep => MInv'
<1> SUFFICES ASSUME FInv, MInv, NightStep PROVE MInv'
  OBVIOUS
<1> USE DEF disk
<1>0. now \in Nat
  BY DEF FInv, DiskTypes
<1>1. CASE NightDump \/ NightDumped \/ NightFailed
  BY <1>1, OwnDump, FrameMInv DEF NightDump, NightDumped, NightFailed
<1>2. CASE NotDue \/ NightList \/ NightRemove
  <2>1. Manuals \subseteq Manuals'
    BY <1>2 DEF NotDue, NightList, NightRemove, Manuals, FInv, NightFacts
  <2>2. UNCHANGED <<now, dump, manual>>
    BY <1>2 DEF NotDue, NightList, NightRemove
  <2> QED  BY <1>0, <2>1, <2>2, FrameMInv
<1> QED  BY <1>1, <1>2 DEF NightStep

\* What a process that stops was writing stays, as whole as it was.
LEMMA StopMInv == FInv /\ MInv /\ Stop => MInv'
<1> SUFFICES ASSUME FInv, MInv, Stop PROVE MInv'
  OBVIOUS
<1> USE DEF manual
<1>1. \A f \in files : \E g \in files' : g.reason = f.reason /\ g.at = f.at /\ g.whole = f.whole
  <2> SUFFICES ASSUME NEW f \in files
               PROVE  \E g \in files' : g.reason = f.reason /\ g.at = f.at /\ g.whole = f.whole
    OBVIOUS
  <2> DEFINE n == Written(f.reason, f.at, now', f.schema, f.whole)
  <2>1. n.reason = f.reason /\ n.at = f.at /\ n.whole = f.whole
    BY DEF Written
  <2>2. CASE f \in BeingWritten
    <3>1. n \in files'
      BY <2>2 DEF Stop
    <3> QED  BY <2>1, <3>1
  <2>3. CASE f \notin BeingWritten
    <3>1. f \in files'
      BY <2>3 DEF Stop
    <3> QED  BY <3>1
  <2> QED  BY <2>2, <2>3
<1>2. SavedBackupStays'
  BY <1>1 DEF Stop, MInv, SavedBackupStays
<1>3. now \in Nat /\ now' = now + 1 /\ saved \subseteq Nat /\ saved' = saved
  BY DEF FInv, DiskTypes, RestTypes, Stop
<1>4. \A r \in Requests : dump'[r] = NoTime
  BY DEF Stop, Dumpers
<1> QED  BY <1>2, <1>3, <1>4 DEF MInv

LEMMA CreateBackupMInv ==
    ASSUME FInv, MInv, NEW r \in Requests, CreateBackup(r)
    PROVE  MInv'
<1>1. /\ r \in Dumpers /\ Reason(r) = "manual" /\ now \in Nat /\ saved \subseteq Nat
      /\ Requests \subseteq Dumpers /\ dump \in [Dumpers -> Nat]
  BY DEF Dumpers, Reason, FInv, DiskTypes, RestTypes
<1>2. /\ dump' = [dump EXCEPT ![r] = now] /\ now' = now /\ saved' = saved
      /\ clash \subseteq clash'
      /\ (\E q \in Requests : dump[q] = now) => now \in clash'
  BY DEF CreateBackup, StartDump
<1>3. \A f \in Manuals : f.at # now => f \in Manuals'
  BY DEF CreateBackup, StartDump, File, Manuals
<1>4. SavedBackupStays'
  BY <1>1, <1>2, <1>3 DEF MInv, SavedBackupStays, Manuals
<1> QED  BY <1>1, <1>2, <1>4 DEF MInv

LEMMA BackupSavedMInv ==
    ASSUME FInv, MInv, NEW r \in Requests, BackupSaved(r)
    PROVE  MInv'
<1>1. /\ r \in Dumpers /\ Reason(r) = "manual" /\ now \in Nat /\ saved \subseteq Nat
      /\ Requests \subseteq Dumpers /\ dump \in [Dumpers -> Nat]
      /\ dump[r] # NoTime /\ dump[r] <= now
  BY DEF Dumpers, Reason, FInv, DiskTypes, DiskFacts, RestTypes, BackupSaved, EndDump
<1>2. PICK f \in File(r, dump[r]), n \in FileType :
        /\ n.reason = f.reason /\ n.at = f.at
        /\ n.whole \/ dump[r] \in clash
        /\ files' = (files \ {f}) \cup {n}
  BY <1>1, EndDumpDisk DEF FInv, BackupSaved
<1>3. /\ dump' = [dump EXCEPT ![r] = NoTime] /\ now' = now + 1
      /\ saved' = saved \cup {dump[r]} /\ clash' = clash
  BY DEF BackupSaved, EndDump
<1>4. f.reason = "manual" /\ f.at = dump[r]
  BY <1>1 DEF File
<1>5. SavedBackupStays'
  <2> SUFFICES ASSUME NEW t \in saved' \ clash'
               PROVE  \E g \in files' : g.reason = "manual" /\ g.at = t /\ g.whole
    BY DEF SavedBackupStays
  <2>1. CASE t = dump[r]
    BY <1>2, <1>3, <1>4, <2>1
  <2>2. CASE t # dump[r]
    BY <1>2, <1>3, <1>4, <2>2 DEF MInv, SavedBackupStays
  <2> QED  BY <2>1, <2>2
<1>6. \A t \in saved' : 1 <= t /\ t < now'
  BY <1>1, <1>3 DEF MInv
<1>7. \A q \in Requests : q # r => dump'[q] = dump[q]
  BY <1>1, <1>3
<1>8. dump'[r] = NoTime
  BY <1>1, <1>3
<1>9. \A t \in saved', q \in Requests : dump'[q] = t => t \in clash'
  BY <1>1, <1>3, <1>6, <1>7, <1>8 DEF MInv
<1>10. \A p, q \in Requests : p # q /\ dump'[p] = dump'[q] /\ dump'[p] # NoTime => dump'[p] \in clash'
  BY <1>3, <1>7, <1>8 DEF MInv
<1> QED  BY <1>5, <1>6, <1>9, <1>10 DEF MInv

LEMMA BackupFailedMInv ==
    ASSUME FInv, MInv, NEW r \in Requests, BackupFailed(r)
    PROVE  MInv'
<1>1. /\ r \in Dumpers /\ Reason(r) = "manual" /\ dump \in [Dumpers -> Nat]
      /\ Requests \subseteq Dumpers
  BY DEF Dumpers, Reason, FInv, DiskTypes
<1>2. dump' = [dump EXCEPT ![r] = NoTime] /\ now' = now /\ UNCHANGED <<saved, clash>>
  BY DEF BackupFailed, FailDump, manual
<1>3. \A f \in Manuals : f.at # dump[r] => f \in Manuals'
  BY DEF BackupFailed, FailDump, File, Manuals
<1>4. SavedBackupStays'
  BY <1>2, <1>3 DEF MInv, SavedBackupStays, Manuals
<1> QED  BY <1>1, <1>2, <1>4 DEF MInv

LEMMA DeleteBackupMInv ==
    ASSUME FInv, MInv, NEW f \in files, DeleteBackup(f)
    PROVE  MInv'
<1>1. dump' = dump /\ now' = now /\ clash' = clash /\ saved' \subseteq saved
  BY DEF DeleteBackup
<1>2. SavedBackupStays'
  BY DEF DeleteBackup, MInv, SavedBackupStays
<1> QED  BY <1>1, <1>2 DEF MInv

LEMMA StepMInv == FInv /\ MInv /\ [Next]_vars => MInv'
<1> SUFFICES ASSUME FInv, MInv, [Next]_vars PROVE MInv'
  OBVIOUS
<1> USE DEF vars, disk
<1>0. now \in Nat
  BY DEF FInv, DiskTypes
<1>1. CASE AroundStep
  <2>1. CASE Wait \/ \E v \in Releases : Install(v)
    <3>1. Manuals \subseteq Manuals' /\ UNCHANGED <<dump, manual>> /\ now' \in Nat /\ now' >= now
      BY <1>0, <2>1 DEF Wait, Install, Manuals
    <3> QED  BY <3>1, FrameMInv
  <2> QED  BY <1>1, <2>1, StopMInv DEF AroundStep
<1>2. CASE UserStep
  <2>1. CASE \E e \in BOOLEAN, k \in Keeps : PatchConfig(e, k)
    <3>1. Manuals \subseteq Manuals' /\ UNCHANGED <<now, dump, manual>>
      BY <2>1 DEF PatchConfig, Manuals
    <3> QED  BY <1>0, <3>1, FrameMInv
  <2> QED  BY <1>2, <2>1, CreateBackupMInv, BackupSavedMInv, BackupFailedMInv, DeleteBackupMInv
           DEF UserStep
<1>3. CASE UNCHANGED vars
  BY <1>0, <1>3, FrameMInv DEF Manuals
<1> QED  BY <1>1, <1>2, <1>3, NextByWho, BootMInv, NightMInv

\* A backup that the user was told of stays on disk, whole, until the user
\* deletes it, whatever is pruned, killed or restarted (snapshot.go Prune,
\* "Other reasons are left untouched"; BackupBoot SavedBackupStays).
THEOREM SavedBackupsStay == Spec => []SavedBackupStays
<1>1. Init => FInv /\ MInv
  BY InitFInv, InitMInv
<1>2. FInv /\ MInv /\ [Next]_vars => (FInv /\ MInv)'
  BY StepFInv, StepMInv
<1>3. FInv /\ MInv => SavedBackupStays
  BY DEF MInv
<1> QED  BY <1>1, <1>2, <1>3, PTL DEF Spec

HIDE BackupAssumption
HIDE DEF NoTracker, NoTime, NoKeep, Schemas, Boot, Night

USE UpdatesAssumption
USE DEF Versions, AskIds

(***************************************************************************)
(* Types.                                                                  *)
(***************************************************************************)
\* A call that begins asks upstream, or has the answer that is cached.
LEMMA StatusIs ==
    ASSUME UpdatesTypeOK, NEW what \in {"get", "check", "auto"}
    PROVE  /\ Status(what) \in AskType /\ Status(what) # NoAsk
           /\ \/ Status(what).st = "fetch" /\ Status(what).latest = 0
              \/ Status(what).st = "answer" /\ Status(what).latest = cached
<1>1. released \in Nat /\ version \in 0..released /\ cached \in 0..released /\ 0 \in 0..released
  BY DEF UpdatesTypeOK
<1>2. [what |-> what, st |-> "answer", latest |-> cached, current |-> version] \in AskType
  BY <1>1 DEF AskType
<1>4. [what |-> what, st |-> "fetch", latest |-> 0, current |-> 0] \in AskType
  BY <1>1 DEF AskType
<1> QED  BY <1>2, <1>4 DEF Status, NoAsk

LEMMA NoAskIs == UpdatesTypeOK => NoAsk \in AskType /\ NoAsk.st = "none" /\ NoAsk.latest = 0
BY DEF UpdatesTypeOK, NoAsk, AskType

LEMMA InitTypes == UpdatesInit => UpdatesTypeOK
<1> SUFFICES ASSUME UpdatesInit PROVE UpdatesTypeOK
  OBVIOUS
<1>1. released \in Nat /\ released >= 1 /\ released <= MaxRelease /\ version \in 1..released
  BY DEF UpdatesInit
<1>2. Status("get") = [what |-> "get", st |-> "fetch", latest |-> 0, current |-> 0]
  BY DEF UpdatesInit, Status, NoAsk
<1>3. NoAsk \in AskType /\ Status("get") \in AskType
  BY <1>1, <1>2 DEF NoAsk, AskType
<1>4. asks \in [AskIds -> AskType]
  BY <1>3 DEF UpdatesInit
<1>5. offer \in [current : 0..released, latest : 0..released]
  BY <1>1 DEF UpdatesInit, NoOffer
<1>6. cached \in 0..released /\ since \in 0..Spacing
      /\ {dismissed, marker, target, landed} \subseteq 0..released
  BY <1>1 DEF UpdatesInit
<1>7. /\ hushed \subseteq Versions /\ clicks \in 0..MaxClicks
      /\ applyState \in {"idle", "applying", "waiting", "failed"}
  BY DEF UpdatesInit
<1>9. fresh \in BOOLEAN /\ pulling \in BOOLEAN /\ orderly \in BOOLEAN
  BY Zenon DEF UpdatesInit
<1>8. released \in Versions /\ version \in 1..released
  BY DEF UpdatesInit
<1> QED  BY <1>4, <1>5, <1>6, <1>7, <1>8, <1>9 DEF UpdatesTypeOK

\* A step that changes one call.
LEMMA OneAskTypes ==
    ASSUME UpdatesTypeOK, NEW k \in AskIds, NEW q \in AskType, asks' = [asks EXCEPT ![k] = q],
           UNCHANGED <<serverVars, offer, tabVars, orderly>>
    PROVE  UpdatesTypeOK'
<1>1. asks' \in [AskIds -> AskType] /\ released' = released
  BY DEF UpdatesTypeOK, AskType, serverVars
<1> QED  BY <1>1 DEF UpdatesTypeOK, AskType, serverVars, tabVars

\* A call keeps its type when it moves on.
LEMMA AskFetched ==
    ASSUME NEW a \in AskType, NEW latest \in 0..released
    PROVE  LET q == [a EXCEPT !.st = "fetched", !.latest = latest]
           IN  q \in AskType /\ q.st = "fetched" /\ q.latest = latest
BY DEF AskType

LEMMA AskAnswered ==
    ASSUME NEW a \in AskType, NEW latest \in 0..released, NEW running \in 0..released
    PROVE  LET q == [a EXCEPT !.st = "answer", !.current = running, !.latest = latest]
           IN  q \in AskType /\ q.st = "answer" /\ q.latest = latest
BY DEF AskType

LEMMA AskFires ==
    ASSUME NEW a \in AskType
    PROVE  LET q == [a EXCEPT !.st = "fire"]
           IN  q \in AskType /\ q.st = "fire" /\ q.latest = a.latest
BY DEF AskType

LEMMA AskGone ==
    ASSUME NEW a \in AskType
    PROVE  LET q == [a EXCEPT !.what = "gone"]
           IN  q \in AskType /\ q.st = a.st /\ q.latest = a.latest
BY DEF AskType

\* The steps that only move one call.
AskStep(k) ==
    \/ Fetched(k) \/ Decide(k) \/ CheckAnswered(k) \/ AskLost(k)
    \/ /\ Tick \/ Check
       /\ IsFree(k, asks)
       /\ \E what \in {"auto", "check"} : asks' = [asks EXCEPT ![k] = Status(what)]

\* What such a step makes of the call.
Moved(k, q) ==
    /\ q \in AskType /\ asks' = [asks EXCEPT ![k] = q]
    /\ UNCHANGED <<serverVars, offer, tabVars, orderly>>
    /\ asks[k] # NoAsk \/ InTurn
    /\ \/ q = NoAsk
       \/ q.st = "fetched" /\ q.latest \in {0, released}
       \/ q.latest = asks[k].latest /\ (q.st = asks[k].st \/ (asks[k].st = "answer" /\ q.st = "fire"))
       \/ q.st = "fetch" /\ q.latest = 0
       \/ q.st = "answer" /\ q.latest = cached

LEMMA AskStepMoves ==
    ASSUME UpdatesTypeOK, NEW k \in AskIds, AskStep(k)
    PROVE  \E q : Moved(k, q)
<1>0. asks[k] \in AskType /\ asks \in [AskIds -> AskType] /\ released \in 0..released
      /\ 0 \in 0..released
  BY DEF UpdatesTypeOK
<1>1. CASE Fetched(k)
  <2>1. PICK latest \in {0, released} :
           asks' = [asks EXCEPT ![k].st = "fetched", ![k].latest = latest]
    BY <1>1 DEF Fetched
  <2> DEFINE q == [asks[k] EXCEPT !.st = "fetched", !.latest = latest]
  <2>2. asks' = [asks EXCEPT ![k] = q]
    BY <2>1
  <2>3. q \in AskType /\ q.st = "fetched" /\ q.latest = latest
    <3>1. latest \in 0..released
      BY <1>0
    <3> HIDE DEF q
    <3> QED  BY <1>0, <3>1, AskFetched DEF q
  <2>4. asks[k] # NoAsk
    BY <1>1 DEF Fetched, NoAsk
  <2>5. Moved(k, q)
    BY <1>1, <2>2, <2>3, <2>4 DEF Moved, Fetched
  <2> QED  BY <2>5
<1>2. CASE Decide(k)
  <2> DEFINE fires == [asks[k] EXCEPT !.st = "fire"]
             q == IF asks[k].latest > asks[k].current THEN fires ELSE NoAsk
  <2>1. asks' = [asks EXCEPT ![k] = q]
    BY <1>2 DEF Decide
  <2>2. asks[k].st = "answer" /\ asks[k] # NoAsk
    BY <1>2 DEF Decide, NoAsk
  <2>3. q \in AskType /\ (q = NoAsk \/ (q.st = "fire" /\ q.latest = asks[k].latest))
    <3>1. fires \in AskType /\ fires.st = "fire" /\ fires.latest = asks[k].latest
      BY <1>0, AskFires
    <3> HIDE DEF fires
    <3> QED  BY <3>1, NoAskIs
  <2>4. Moved(k, q)
    BY <1>2, <2>1, <2>2, <2>3 DEF Moved, Decide
  <2> QED  BY <2>4
<1>3. CASE CheckAnswered(k)
  <2>1. asks' = [asks EXCEPT ![k] = Status("get")] /\ asks[k] # NoAsk
    BY <1>3 DEF CheckAnswered, NoAsk
  <2>2. Moved(k, Status("get"))
    BY <1>3, <2>1, StatusIs DEF Moved, CheckAnswered
  <2> QED  BY <2>2
<1>4. CASE AskLost(k)
  <2> DEFINE gone == [asks[k] EXCEPT !.what = "gone"]
             q == IF asks[k].st = "answer" THEN NoAsk ELSE gone
  <2>1. asks' = [asks EXCEPT ![k] = q] /\ asks[k] # NoAsk
    BY <1>4 DEF AskLost, NoAsk
  <2>2. q \in AskType /\ (q = NoAsk \/ (q.st = asks[k].st /\ q.latest = asks[k].latest))
    <3>1. gone \in AskType /\ gone.st = asks[k].st /\ gone.latest = asks[k].latest
      BY <1>0, AskGone
    <3> HIDE DEF gone
    <3> QED  BY <3>1, NoAskIs
  <2>3. Moved(k, q)
    <3>1. UNCHANGED <<serverVars, offer, tabVars, orderly>>
      BY <1>4 DEF AskLost
    <3> HIDE DEF q
    <3> QED  BY <2>1, <2>2, <3>1 DEF Moved
  <2> QED  BY <2>3
<1>5. CASE /\ Tick \/ Check
           /\ IsFree(k, asks)
           /\ \E what \in {"auto", "check"} : asks' = [asks EXCEPT ![k] = Status(what)]
  <2>1. PICK what \in {"auto", "check"} : asks' = [asks EXCEPT ![k] = Status(what)]
    BY <1>5
  <2>2. InTurn /\ UNCHANGED <<serverVars, offer, tabVars, orderly>>
    BY <1>5 DEF Tick, Check
  <2>3. Moved(k, Status(what))
    BY <2>1, <2>2, StatusIs DEF Moved
  <2> QED  BY <2>3
<1> QED  BY <1>1, <1>2, <1>3, <1>4, <1>5 DEF AskStep

\* Tick and Check begin a call in a free place.
LEMMA BegunIsAskStep ==
    ASSUME Tick \/ Check
    PROVE  \E k \in AskIds : AskStep(k)
<1>1. \E k \in AskIds : IsFree(k, asks) /\ \E what \in {"auto", "check"} :
         asks' = [asks EXCEPT ![k] = Status(what)]
  BY DEF Tick, Check
<1> QED  BY <1>1 DEF AskStep

LEMMA AskStepTypes ==
    ASSUME UpdatesTypeOK, NEW k \in AskIds, AskStep(k)
    PROVE  UpdatesTypeOK'
<1> PICK q : Moved(k, q)
  BY AskStepMoves
<1> QED  BY OneAskTypes DEF Moved

\* A newer release changes no type.
LEMMA TypesGrow ==
    ASSUME released \in Nat, released' \in Nat, released <= released'
    PROVE  AskType \subseteq AskType' /\ 0..released \subseteq 0..released'
BY DEF AskType

LEMMA HourTypes == UpdatesTypeOK /\ Hour => UpdatesTypeOK'
<1> SUFFICES ASSUME UpdatesTypeOK, Hour PROVE UpdatesTypeOK'
  OBVIOUS
<1>1. since' \in 0..Spacing
  BY DEF UpdatesTypeOK, Hour
<1>2. /\ fresh' \in BOOLEAN
      /\ UNCHANGED <<released, version, cached, pulling, asks, offer, tabVars, orderly>>
  BY DEF Hour
<1> QED  BY <1>1, <1>2 DEF UpdatesTypeOK, AskType, tabVars

LEMMA ReleaseTypes == UpdatesTypeOK /\ Release => UpdatesTypeOK'
<1> SUFFICES ASSUME UpdatesTypeOK, Release PROVE UpdatesTypeOK'
  OBVIOUS
<1>1. /\ released \in Nat /\ released' \in Versions /\ released <= released'
      /\ version \in 1..released /\ version' \in 1..released'
  BY DEF UpdatesTypeOK, Release
<1>2. AskType \subseteq AskType' /\ 0..released \subseteq 0..released'
  BY <1>1, TypesGrow
<1>3. /\ cached' \in 0..released' /\ asks' \in [AskIds -> AskType']
      /\ {dismissed', marker', target', landed'} \subseteq 0..released'
  BY <1>2 DEF UpdatesTypeOK, Release, tabVars
<1>4. offer' \in [current : 0..released', latest : 0..released']
  BY <1>2 DEF UpdatesTypeOK, Release
<1>5. /\ since' \in 0..Spacing /\ hushed' \subseteq Versions /\ clicks' \in 0..MaxClicks
      /\ applyState' \in {"idle", "applying", "waiting", "failed"}
  BY DEF UpdatesTypeOK, Release, tabVars
<1>6. fresh' \in BOOLEAN /\ pulling' \in BOOLEAN /\ orderly' \in BOOLEAN
  BY Zenon DEF UpdatesTypeOK, Release
<1> QED  BY <1>1, <1>3, <1>4, <1>5, <1>6 DEF UpdatesTypeOK

LEMMA CacheTypes ==
    ASSUME UpdatesTypeOK, NEW k \in AskIds, Cache(k)
    PROVE  UpdatesTypeOK'
<1> DEFINE q == [asks[k] EXCEPT !.st = "answer", !.current = version, !.latest = cached']
<1>1. /\ asks[k] \in AskType /\ asks[k].latest \in 0..released
      /\ version \in 0..released /\ cached \in 0..released
  BY DEF UpdatesTypeOK, AskType
<1>2. cached' \in 0..released
  BY <1>1 DEF Cache
<1>3. q \in AskType
  BY <1>1, <1>2, AskAnswered
<1>4. asks' = [asks EXCEPT ![k] = q]
  BY DEF Cache
<1>5. asks' \in [AskIds -> AskType]
  <2> HIDE DEF q
  <2> QED  BY <1>3, <1>4 DEF UpdatesTypeOK
<1>6. fresh' \in BOOLEAN
  BY DEF Cache, UpdatesTypeOK
<1>7. UNCHANGED <<released, version, since, pulling, offer, tabVars, orderly>>
  BY DEF Cache
<1>8. AskType' = AskType
  BY <1>7 DEF AskType
<1> QED  BY <1>2, <1>5, <1>6, <1>7, <1>8 DEF UpdatesTypeOK, tabVars

LEMMA AutoFireTypes ==
    ASSUME UpdatesTypeOK, NEW k \in AskIds, AutoFire(k)
    PROVE  UpdatesTypeOK'
<1>1. asks' \in [AskIds -> AskType]
  BY NoAskIs DEF AutoFire, UpdatesTypeOK
<1>2. pulling' \in BOOLEAN /\ since' \in 0..Spacing
  <2>1. pulling' \in BOOLEAN
    BY DEF AutoFire, Fire, UpdatesTypeOK
  <2>2. since' \in {since, 0}
    BY DEF AutoFire
  <2> QED  BY <2>1, <2>2 DEF UpdatesTypeOK
<1>3. UNCHANGED <<released, version, cached, fresh, offer, tabVars, orderly>>
  BY DEF AutoFire
<1>4. AskType' = AskType
  BY <1>3 DEF AskType
<1> QED  BY <1>1, <1>2, <1>3, <1>4 DEF UpdatesTypeOK, tabVars

LEMMA ReplaceTypes == UpdatesTypeOK /\ Replace => UpdatesTypeOK'
<1> SUFFICES ASSUME UpdatesTypeOK, Replace PROVE UpdatesTypeOK'
  OBVIOUS
<1>1. asks' \in [AskIds -> AskType]
  BY NoAskIs DEF Replace, UpdatesTypeOK
<1>2. version' \in 1..released /\ cached' \in 0..released /\ since' \in 0..Spacing
  BY DEF Replace, UpdatesTypeOK
<1>3. fresh' \in BOOLEAN /\ pulling' \in BOOLEAN
  BY DEF Replace
<1>4. UNCHANGED <<released, offer, tabVars, orderly>>
  BY DEF Replace
<1>5. AskType' = AskType
  BY <1>4 DEF AskType
<1> QED  BY <1>1, <1>2, <1>3, <1>4, <1>5 DEF UpdatesTypeOK, tabVars

\* What is left of the calls when a page goes.
Left == [k \in AskIds |->
            IF asks[k].what \notin {"get", "check"} THEN asks[k]
            ELSE IF asks[k].st = "answer" THEN NoAsk
            ELSE [asks[k] EXCEPT !.what = "gone"]]

LEMMA LeftIs ==
    ASSUME UpdatesTypeOK
    PROVE  /\ Left \in [AskIds -> AskType]
           /\ \A k \in AskIds : asks[k] = NoAsk => Left[k] = NoAsk
<1>1. ASSUME NEW k \in AskIds PROVE Left[k] \in AskType
  <2> DEFINE gone == [asks[k] EXCEPT !.what = "gone"]
  <2>1. asks[k] \in AskType /\ gone \in AskType
    BY AskGone DEF UpdatesTypeOK
  <2>2. Left[k] \in {asks[k], NoAsk, gone}
    BY DEF Left
  <2> HIDE DEF gone
  <2> QED  BY <2>1, <2>2, NoAskIs
<1>2. Left = [k \in AskIds |-> Left[k]]
  BY DEF Left
<1>3. Left \in [AskIds -> AskType]
  BY <1>1, <1>2
<1>4. ASSUME NEW k \in AskIds, asks[k] = NoAsk PROVE Left[k] = NoAsk
  BY <1>4 DEF Left, NoAsk
<1> QED  BY <1>3, <1>4

LEMMA PageIs ==
    ASSUME LoadPage
    PROVE  \E k \in AskIds : asks' = [Left EXCEPT ![k] = Status("get")]
BY DEF LoadPage, Left

LEMMA PageTypes ==
    ASSUME UpdatesTypeOK, LoadPage, pulling' \in BOOLEAN
    PROVE  UpdatesTypeOK'
<1>1. PICK k \in AskIds : asks' = [Left EXCEPT ![k] = Status("get")]
  BY PageIs
<1>2. asks' \in [AskIds -> AskType]
  BY <1>1, LeftIs, StatusIs
<1>3. /\ offer' = NoOffer /\ applyState' = "idle" /\ target' = 0 /\ landed' = marker
      /\ UNCHANGED <<released, version, cached, fresh, since, dismissed, marker, hushed, clicks,
                     owed, orderly>>
  BY DEF LoadPage
<1>4. AskType' = AskType
  BY <1>3 DEF AskType
<1>5. /\ offer' \in [current : 0..released, latest : 0..released]
      /\ {dismissed', marker', target', landed'} \subseteq 0..released
  BY <1>3 DEF UpdatesTypeOK, NoOffer
<1> QED  BY <1>2, <1>3, <1>4, <1>5 DEF UpdatesTypeOK

LEMMA GetAnsweredTypes ==
    ASSUME UpdatesTypeOK, NEW k \in AskIds, GetAnswered(k)
    PROVE  UpdatesTypeOK'
<1>1. asks' \in [AskIds -> AskType]
  BY NoAskIs DEF GetAnswered, UpdatesTypeOK
<1>2. asks[k].latest \in 0..released /\ asks[k].current \in 0..released
  BY DEF UpdatesTypeOK, AskType
<1>3. offer' \in [current : 0..released, latest : 0..released]
  BY <1>2 DEF GetAnswered, Response
<1>4. dismissed' \in 0..released
  BY DEF GetAnswered, AllowNewer, UpdatesTypeOK
<1>5. UNCHANGED <<serverVars, marker, applyState, target, landed, hushed, clicks, owed, orderly>>
  BY DEF GetAnswered
<1>6. AskType' = AskType
  BY <1>5 DEF AskType, serverVars
<1> QED  BY <1>1, <1>3, <1>4, <1>5, <1>6 DEF UpdatesTypeOK, serverVars

\* The steps that change only what the tab has.
LEMMA TabTypes ==
    ASSUME UpdatesTypeOK,
           DismissOffer \/ Apply \/ Applied \/ ApplyFailed \/ GiveUp \/ Landed \/ LandedFails
    PROVE  UpdatesTypeOK'
<1>1. UNCHANGED <<released, version, cached, fresh, since, asks, offer, orderly>>
  BY DEF DismissOffer, Apply, Applied, ApplyFailed, GiveUp, Landed, LandedFails, serverVars
<1>2. AskType' = AskType
  BY <1>1 DEF AskType
<1>3. offer.latest \in 0..released /\ offer.current \in 0..released /\ 0 \in 0..released
      /\ released \in Versions
  BY DEF UpdatesTypeOK
<1>4. pulling' \in BOOLEAN
  BY DEF DismissOffer, Apply, Applied, ApplyFailed, GiveUp, Landed, LandedFails, serverVars,
         Fire, UpdatesTypeOK
<1>5. {dismissed', marker', target', landed'} \subseteq 0..released
  BY <1>3 DEF DismissOffer, Apply, Applied, ApplyFailed, GiveUp, Landed, LandedFails, UpdatesTypeOK
<1>6. clicks' \in 0..MaxClicks /\ applyState' \in {"idle", "applying", "waiting", "failed"}
  BY DEF DismissOffer, Apply, Applied, ApplyFailed, GiveUp, Landed, LandedFails, UpdatesTypeOK
<1>7. hushed' \subseteq Versions
  <2>1. CASE DismissOffer
    <3>1. offer.latest > offer.current
      BY <2>1 DEF DismissOffer, Offered
    <3>2. offer.latest \in Versions
      BY <1>3, <3>1
    <3> QED  BY <2>1, <3>2 DEF DismissOffer, UpdatesTypeOK
  <2>2. CASE Apply \/ Applied \/ ApplyFailed \/ GiveUp \/ Landed \/ LandedFails
    BY <2>2 DEF Apply, Applied, ApplyFailed, GiveUp, Landed, LandedFails, UpdatesTypeOK
  <2> QED  BY <2>1, <2>2
<1> QED  BY <1>1, <1>2, <1>4, <1>5, <1>6, <1>7 DEF UpdatesTypeOK

\* Every step is one of the lemmas'.
LEMMA Steps ==
    ASSUME UpdatesNext
    PROVE  \/ Hour \/ Release \/ Replace \/ PullFails
           \/ \E k \in AskIds : AskStep(k) \/ Cache(k) \/ AutoFire(k) \/ GetAnswered(k)
           \/ LoadPage /\ (Reload \/ Poll)
           \/ DismissOffer \/ Apply \/ Applied \/ ApplyFailed \/ GiveUp \/ Landed \/ LandedFails
<1>1. CASE Tick \/ Check
  BY <1>1, BegunIsAskStep
<1>2. ASSUME NEW k \in AskIds, Fetched(k) \/ Decide(k) \/ CheckAnswered(k) \/ AskLost(k)
      PROVE  AskStep(k)
  BY <1>2 DEF AskStep
<1>3. CASE Reload \/ Poll
  BY <1>3 DEF Reload, Poll
<1> QED  BY <1>1, <1>2, <1>3 DEF UpdatesNext

LEMMA NextTypes == UpdatesTypeOK /\ [UpdatesNext]_updatesVars => UpdatesTypeOK'
<1> SUFFICES ASSUME UpdatesTypeOK, [UpdatesNext]_updatesVars PROVE UpdatesTypeOK'
  OBVIOUS
<1>1. CASE UNCHANGED updatesVars
  BY <1>1 DEF updatesVars, serverVars, tabVars, UpdatesTypeOK, AskType
<1>2. CASE PullFails
  BY <1>2 DEF PullFails, tabVars, UpdatesTypeOK, AskType
<1>3. CASE LoadPage /\ (Reload \/ Poll)
  <2>1. pulling' \in BOOLEAN
    BY <1>3 DEF Reload, Poll, UpdatesTypeOK
  <2> QED  BY <1>3, <2>1, PageTypes
<1> QED  BY <1>1, <1>2, <1>3, Steps, HourTypes, ReleaseTypes, ReplaceTypes, AskStepTypes,
            CacheTypes, AutoFireTypes, GetAnsweredTypes, TabTypes

\* Every variable has its type in every behaviour; what runs, what is cached and
\* what the tab shows was released (updates.go, UpdateBanner.tsx).
THEOREM UpdatesTypes == UpdatesSpec => []UpdatesTypeOK
BY InitTypes, NextTypes, PTL DEF UpdatesSpec

(***************************************************************************)
(* A dismissed release stays dismissed.                                    *)
(***************************************************************************)
\* A version that is known is not below h, and there is none below it to come:
\* not in the cache, in a call, or released.
NotBelow(h, v) == v = 0 \/ h <= v
Least(h) ==
    /\ h <= released /\ NotBelow(h, cached) /\ NotBelow(h, offer.latest)
    /\ \A k \in AskIds : NotBelow(h, asks[k].latest)

Alone == \A i, j \in AskIds : asks[i] # NoAsk /\ asks[j] # NoAsk => i = j

\* The answers come in order: each is no older than the cache until it is
\* cached, and then the cache is no older, and all are no older than what the
\* banner shows.
InOrder ==
    /\ \A k \in AskIds :
         /\ asks[k].st = "fetched" => NotBelow(cached, asks[k].latest)
         /\ asks[k].st \in {"answer", "fire"} => NotBelow(asks[k].latest, cached)
         /\ asks[k].st \in {"none", "fetch"} => asks[k].latest = 0
    /\ Least(offer.latest)

\* Of the versions that were dismissed one may still be offered, the others are
\* older than all that is known.
Hushed ==
    /\ \A h \in hushed : Least(h) /\ (dismissed = h \/ Least(h + 1))
    /\ dismissed # 0 => dismissed \in hushed
    /\ offer.latest # 0 => dismissed \in {0, offer.latest}

OrderInv == orderly => Alone /\ InOrder /\ Hushed

LEMMA InitOrder == UpdatesInit => OrderInv
<1> SUFFICES ASSUME UpdatesInit PROVE OrderInv
  OBVIOUS
<1>1. /\ released \in Nat /\ cached = 0 /\ fresh = FALSE /\ offer.latest = 0
      /\ dismissed = 0 /\ hushed = {}
  BY DEF UpdatesInit, NoOffer
<1>2. /\ asks = [k \in AskIds |-> IF k = 1 THEN Status("get") ELSE NoAsk]
      /\ Status("get").st = "fetch" /\ Status("get").latest = 0
      /\ NoAsk.st = "none" /\ NoAsk.latest = 0
  BY <1>1 DEF UpdatesInit, Status, NoAsk
<1>3. Alone
  BY <1>2 DEF Alone
<1>4. \A k \in AskIds : asks[k].st \in {"none", "fetch"} /\ asks[k].latest = 0
  BY <1>2
<1>5. InOrder
  BY <1>1, <1>4 DEF InOrder, Least, NotBelow
<1> QED  BY <1>1, <1>3, <1>5 DEF OrderInv, Hushed

\* What is known in numbers.
LEMMA Numbers ==
    ASSUME UpdatesTypeOK
    PROVE  /\ released \in Nat /\ cached \in 0..released /\ offer.latest \in 0..released
           /\ dismissed \in 0..released /\ hushed \subseteq Nat \ {0}
           /\ asks \in [AskIds -> AskType]
           /\ \A k \in AskIds : asks[k].latest \in 0..released
BY DEF UpdatesTypeOK, AskType

\* A step that moves one call, or begins one when there is none.
LEMMA AskStepOrder ==
    ASSUME UpdatesTypeOK, OrderInv, NEW k \in AskIds, AskStep(k)
    PROVE  OrderInv'
<1> SUFFICES ASSUME orderly' PROVE Alone' /\ InOrder' /\ Hushed'
  BY DEF OrderInv
<1> PICK q : Moved(k, q)
  BY AskStepMoves
<1>1. /\ UNCHANGED <<released, cached, offer, dismissed, hushed, orderly>>
      /\ asks' = [asks EXCEPT ![k] = q] /\ q \in AskType
      /\ asks[k] # NoAsk \/ InTurn
  BY DEF Moved, serverVars, tabVars
<1>2. Alone /\ InOrder /\ Hushed
  BY <1>1 DEF OrderInv
<1>3. /\ asks'[k] = q /\ \A i \in AskIds : i # k => asks'[i] = asks[i]
  BY <1>1, Numbers
<1>4. \A i \in AskIds : i # k => asks[i] = NoAsk
  <2>1. CASE asks[k] # NoAsk
    BY <1>2, <2>1 DEF Alone
  <2>2. CASE InTurn
    BY <1>1, <2>2 DEF InTurn, NoneUnderWay
  <2> QED  BY <1>1, <2>1, <2>2
<1>5. Alone'
  BY <1>3, <1>4 DEF Alone
<1>6. NoAsk.st = "none" /\ NoAsk.latest = 0
  BY NoAskIs
<1>7. q.latest \in {0, released, cached, asks[k].latest}
  BY <1>6 DEF Moved
<1>8. ASSUME NEW h \in Nat, Least(h) PROVE Least(h)'
  <2>1. NotBelow(h, q.latest)
    BY <1>7, <1>8, Numbers DEF Least, NotBelow
  <2> QED  BY <1>1, <1>3, <1>8, <2>1 DEF Least
<1>9. offer.latest \in Nat /\ \A h \in hushed : h \in Nat /\ h + 1 \in Nat
  BY Numbers
<1>10. Hushed'
  BY <1>1, <1>2, <1>8, <1>9 DEF Hushed
<1>11. /\ q.st = "fetched" => NotBelow(cached, q.latest)
       /\ q.st \in {"answer", "fire"} => NotBelow(q.latest, cached)
       /\ q.st \in {"none", "fetch"} => q.latest = 0
  BY <1>2, <1>6, Numbers DEF Moved, InOrder, NotBelow
<1>12. InOrder'
  BY <1>1, <1>2, <1>3, <1>8, <1>9, <1>11 DEF InOrder
<1> QED  BY <1>5, <1>10, <1>12

\* The steps that neither move a call nor change what is known or dismissed.
LEMMA RestOrder ==
    ASSUME OrderInv, UNCHANGED <<released, cached, asks, offer, dismissed, hushed, orderly>>
    PROVE  OrderInv'
BY DEF OrderInv, Alone, InOrder, Hushed, Least, NotBelow

LEMMA ReleaseOrder == UpdatesTypeOK /\ OrderInv /\ Release => OrderInv'
<1> SUFFICES ASSUME UpdatesTypeOK, OrderInv, Release, orderly'
             PROVE  Alone' /\ InOrder' /\ Hushed'
  BY DEF OrderInv
<1>1. released' = released + 1 /\ UNCHANGED <<cached, asks, offer, dismissed, hushed, orderly>>
  BY DEF Release, tabVars
<1>2. Alone /\ InOrder /\ Hushed
  BY <1>1 DEF OrderInv
<1>3. ASSUME NEW h \in Nat, Least(h) PROVE Least(h)'
  BY <1>1, <1>3, Numbers DEF Least, NotBelow
<1>4. offer.latest \in Nat /\ \A h \in hushed : h \in Nat /\ h + 1 \in Nat
  BY Numbers
<1>5. Alone' /\ InOrder'
  BY <1>1, <1>2, <1>3, <1>4 DEF Alone, InOrder, NotBelow
<1>6. Hushed'
  BY <1>1, <1>2, <1>3, <1>4 DEF Hushed
<1> QED  BY <1>5, <1>6

LEMMA CacheOrder ==
    ASSUME UpdatesTypeOK, OrderInv, NEW k \in AskIds, Cache(k)
    PROVE  OrderInv'
<1> SUFFICES ASSUME orderly' PROVE Alone' /\ InOrder' /\ Hushed'
  BY DEF OrderInv
<1> DEFINE q == [asks[k] EXCEPT !.st = "answer", !.current = version, !.latest = cached']
<1>1. UNCHANGED <<released, offer, dismissed, hushed, orderly>>
  BY DEF Cache, tabVars
<1>2. Alone /\ InOrder /\ Hushed
  BY <1>1 DEF OrderInv
<1>3. cached' \in {cached, asks[k].latest} /\ asks[k].st = "fetched"
  BY DEF Cache
<1>4. q \in AskType /\ q.st = "answer" /\ q.latest = cached'
  <2>1. asks[k] \in AskType /\ version \in 0..released /\ cached' \in 0..released
    BY <1>3, Numbers DEF UpdatesTypeOK
  <2> QED  BY <2>1, AskAnswered
<1>5. asks'[k] = q /\ \A i \in AskIds : i # k => asks'[i] = asks[i]
  <2>1. asks' = [asks EXCEPT ![k] = q]
    BY DEF Cache
  <2> HIDE DEF q
  <2> QED  BY <2>1, Numbers
<1> HIDE DEF q
<1>6. \A i \in AskIds : i # k => asks[i] = NoAsk
  BY <1>2, <1>3 DEF Alone, NoAsk
<1>7. Alone'
  BY <1>5, <1>6 DEF Alone
<1>8. ASSUME NEW h \in Nat, Least(h) PROVE Least(h)'
  <2>1. NotBelow(h, cached')
    BY <1>3, <1>8, Numbers DEF Least, NotBelow
  <2> QED  BY <1>1, <1>4, <1>5, <1>8, <2>1 DEF Least
<1>9. offer.latest \in Nat /\ \A h \in hushed : h \in Nat /\ h + 1 \in Nat
  BY Numbers
<1>10. Hushed'
  BY <1>1, <1>2, <1>8, <1>9 DEF Hushed
<1>11. cached' \in Nat
  BY <1>3, Numbers
<1>12. InOrder'
  <2>1. NotBelow(q.latest, cached')
    BY <1>4, <1>11 DEF NotBelow
  <2>2. NoAsk.st = "none" /\ NoAsk.latest = 0
    BY NoAskIs
  <2> QED  BY <1>1, <1>2, <1>4, <1>5, <1>6, <1>8, <1>9, <2>1, <2>2 DEF InOrder
<1> QED  BY <1>7, <1>10, <1>12

LEMMA AutoFireOrder ==
    ASSUME UpdatesTypeOK, OrderInv, NEW k \in AskIds, AutoFire(k)
    PROVE  OrderInv'
<1> SUFFICES ASSUME orderly' PROVE Alone' /\ InOrder' /\ Hushed'
  BY DEF OrderInv
<1>1. UNCHANGED <<released, cached, offer, dismissed, hushed, orderly>>
  BY DEF AutoFire, tabVars
<1>2. Alone /\ InOrder /\ Hushed
  BY <1>1 DEF OrderInv
<1>3. asks'[k] = NoAsk /\ \A i \in AskIds : i # k => asks'[i] = asks[i]
  BY Numbers DEF AutoFire
<1>4. NoAsk.st = "none" /\ NoAsk.latest = 0
  BY NoAskIs
<1>5. Alone'
  BY <1>2, <1>3 DEF Alone
<1>6. ASSUME NEW h \in Nat, Least(h) PROVE Least(h)'
  BY <1>1, <1>3, <1>4, <1>6 DEF Least, NotBelow
<1>7. offer.latest \in Nat /\ \A h \in hushed : h \in Nat /\ h + 1 \in Nat
  BY Numbers
<1>8. Hushed'
  BY <1>1, <1>2, <1>6, <1>7 DEF Hushed
<1>9. InOrder'
  BY <1>1, <1>2, <1>3, <1>4, <1>6, <1>7 DEF InOrder
<1> QED  BY <1>5, <1>8, <1>9

\* A process that is replaced caches nothing, and only its answers are left.
LEMMA ReplaceOrder == UpdatesTypeOK /\ OrderInv /\ Replace => OrderInv'
<1> SUFFICES ASSUME UpdatesTypeOK, OrderInv, Replace, orderly'
             PROVE  Alone' /\ InOrder' /\ Hushed'
  BY DEF OrderInv
<1>1. cached' = 0 /\ UNCHANGED <<released, offer, dismissed, hushed, orderly>>
  BY DEF Replace, tabVars
<1>2. Alone /\ InOrder /\ Hushed
  BY <1>1 DEF OrderInv
<1>3. \A i \in AskIds : asks'[i] = NoAsk \/ (asks[i].st = "answer" /\ asks'[i] = asks[i])
  BY DEF Replace
<1>4. NoAsk.st = "none" /\ NoAsk.latest = 0
  BY NoAskIs
<1>5. Alone'
  BY <1>2, <1>3 DEF Alone
<1>6. ASSUME NEW h \in Nat, Least(h) PROVE Least(h)'
  BY <1>1, <1>3, <1>4, <1>6 DEF Least, NotBelow
<1>7. offer.latest \in Nat /\ \A h \in hushed : h \in Nat /\ h + 1 \in Nat
  BY Numbers
<1>8. Hushed'
  BY <1>1, <1>2, <1>6, <1>7 DEF Hushed
<1>9. \A v : NotBelow(v, 0)
  BY DEF NotBelow
<1>10. Least(offer.latest)'
  BY <1>1, <1>2, <1>6, <1>7 DEF InOrder
<1>11. \A i \in AskIds : /\ asks'[i].st # "fetched"
                         /\ asks'[i].st \in {"none", "fetch"} => asks'[i].latest = 0
  BY <1>3, <1>4
<1>12. InOrder'
  BY <1>1, <1>9, <1>10, <1>11 DEF InOrder
<1> QED  BY <1>5, <1>8, <1>12

\* A page shows nothing and begins the only call.
LEMMA PageOrder == UpdatesTypeOK /\ OrderInv /\ LoadPage => OrderInv'
<1> SUFFICES ASSUME UpdatesTypeOK, OrderInv, LoadPage, orderly'
             PROVE  Alone' /\ InOrder' /\ Hushed'
  BY DEF OrderInv
<1>1. offer'.latest = 0 /\ UNCHANGED <<released, cached, dismissed, hushed, orderly>>
  BY DEF LoadPage, NoOffer
<1>2. InOrder /\ Hushed /\ \A i \in AskIds : asks[i] = NoAsk
  BY <1>1 DEF OrderInv, LoadPage, InTurn, NoneUnderWay
<1> PICK k \in AskIds : asks' = [Left EXCEPT ![k] = Status("get")]
  BY PageIs
<1>3. asks'[k] = Status("get") /\ \A i \in AskIds : i # k => asks'[i] = NoAsk
  BY <1>2, LeftIs
<1>4. /\ NoAsk.st = "none" /\ NoAsk.latest = 0
      /\ \/ Status("get").st = "fetch" /\ Status("get").latest = 0
         \/ Status("get").st = "answer" /\ Status("get").latest = cached
  BY NoAskIs, StatusIs
<1>5. Alone'
  BY <1>3 DEF Alone
<1>6. ASSUME NEW h \in Nat, Least(h) PROVE Least(h)'
  BY <1>1, <1>3, <1>4, <1>6 DEF Least, NotBelow
<1>7. \A h \in hushed : h \in Nat /\ h + 1 \in Nat
  BY Numbers
<1>8. Hushed'
  BY <1>1, <1>2, <1>6, <1>7 DEF Hushed
<1>9. Least(0)
  BY Numbers DEF Least, NotBelow
<1>10. NotBelow(cached, cached) /\ NotBelow(0, cached)
  BY Numbers DEF NotBelow
<1>11. InOrder'
  BY <1>1, <1>3, <1>4, <1>6, <1>9, <1>10 DEF InOrder
<1> QED  BY <1>5, <1>8, <1>11

\* The answer is no older than what was shown, and lifts the dismissal of
\* another release only.
LEMMA GetAnsweredOrder ==
    ASSUME UpdatesTypeOK, OrderInv, NEW k \in AskIds, GetAnswered(k)
    PROVE  OrderInv'
<1> SUFFICES ASSUME orderly' PROVE Alone' /\ InOrder' /\ Hushed'
  BY DEF OrderInv
<1> PICK v : v = asks[k].latest
  OBVIOUS
<1>1. /\ UNCHANGED <<released, cached, hushed, orderly>> /\ asks[k].st = "answer"
      /\ dismissed' = AllowNewer(v) /\ offer'.latest = v
  BY DEF GetAnswered, serverVars, Response
<1>2. Alone /\ InOrder /\ Hushed
  BY <1>1 DEF OrderInv
<1>3. asks'[k] = NoAsk /\ \A i \in AskIds : i # k => asks'[i] = asks[i]
  BY Numbers DEF GetAnswered
<1>4. NoAsk.st = "none" /\ NoAsk.latest = 0 /\ asks[k] # NoAsk
  BY <1>1, NoAskIs
<1>5. \A i \in AskIds : asks'[i] = NoAsk
  BY <1>2, <1>3, <1>4 DEF Alone
<1>6. v \in 0..released /\ NotBelow(v, cached)
  BY <1>1, <1>2, Numbers DEF InOrder
<1>7. ASSUME NEW h \in Nat, h <= v, v # 0 PROVE Least(h)'
  <2>1. h <= released /\ NotBelow(h, cached) /\ NotBelow(h, v) /\ NotBelow(h, 0)
    BY <1>6, <1>7, Numbers DEF NotBelow
  <2> QED  BY <1>1, <1>4, <1>5, <2>1 DEF Least
<1>8. ASSUME NEW h \in Nat, Least(h) PROVE Least(h)' /\ NotBelow(h, v)
  <2>1. h <= released /\ NotBelow(h, cached) /\ NotBelow(h, v) /\ NotBelow(h, 0)
    BY <1>8 DEF Least, NotBelow
  <2> QED  BY <1>1, <1>4, <1>5, <2>1 DEF Least
<1>9. Alone'
  BY <1>5 DEF Alone
<1>10. Least(v)'
  <2>1. CASE v # 0
    BY <1>6, <1>7, <2>1, Numbers
  <2>2. CASE v = 0
    <3>1. Least(0)
      BY Numbers DEF Least, NotBelow
    <3> QED  BY <1>8, <2>2, <3>1
  <2> QED  BY <2>1, <2>2
<1>11. InOrder'
  BY <1>1, <1>4, <1>5, <1>10 DEF InOrder
<1>12. ASSUME NEW h \in hushed PROVE Least(h)' /\ (dismissed' = h \/ Least(h + 1)')
  <2>1. h \in Nat \ {0} /\ h + 1 \in Nat /\ Least(h) /\ (dismissed = h \/ Least(h + 1))
    BY <1>2, <1>12, Numbers DEF Hushed
  <2>2. Least(h)' /\ NotBelow(h, v)
    BY <1>8, <2>1
  <2>3. CASE Least(h + 1)
    BY <1>8, <2>1, <2>2, <2>3
  <2>4. CASE dismissed = h /\ dismissed' # h
    <3>1. v # 0 /\ v # h
      BY <1>1, <2>4 DEF AllowNewer
    <3>2. h + 1 <= v
      BY <1>6, <2>1, <2>2, <3>1, Numbers DEF NotBelow
    <3> QED  BY <1>7, <2>1, <2>2, <3>1, <3>2
  <2> QED  BY <2>1, <2>2, <2>3, <2>4
<1>13. /\ dismissed' # 0 => dismissed' \in hushed
       /\ v # 0 => dismissed' \in {0, v}
  BY <1>1, <1>2 DEF AllowNewer, Hushed
<1>14. Hushed'
  BY <1>1, <1>12, <1>13 DEF Hushed
<1> QED  BY <1>9, <1>11, <1>14

\* What is dismissed is offered, so no other release was: the dismissed ones are
\* older than it.
LEMMA DismissOrder == UpdatesTypeOK /\ OrderInv /\ DismissOffer => OrderInv'
<1> SUFFICES ASSUME UpdatesTypeOK, OrderInv, DismissOffer, orderly'
             PROVE  Alone' /\ InOrder' /\ Hushed'
  BY DEF OrderInv
<1>1. /\ UNCHANGED <<released, cached, asks, offer, orderly>>
      /\ dismissed # offer.latest /\ offer.latest # 0
      /\ dismissed' = offer.latest /\ hushed' = hushed \cup {offer.latest}
  BY DEF DismissOffer, Offered, serverVars, UpdatesTypeOK
<1>2. Alone /\ InOrder /\ Hushed
  BY <1>1 DEF OrderInv
<1>3. Alone' /\ InOrder'
  BY <1>1, <1>2 DEF Alone, InOrder, Least, NotBelow
<1>4. dismissed = 0
  BY <1>1, <1>2 DEF Hushed
<1>5. \A h \in hushed : Least(h) /\ Least(h + 1)
  BY <1>2, <1>4, Numbers DEF Hushed
<1>6. \A h : Least(h) => Least(h)'
  BY <1>1 DEF Least, NotBelow
<1>7. Least(offer.latest)
  BY <1>2 DEF InOrder
<1>8. Hushed'
  BY <1>1, <1>5, <1>6, <1>7 DEF Hushed
<1> QED  BY <1>3, <1>8

LEMMA NextOrder == UpdatesTypeOK /\ OrderInv /\ [UpdatesNext]_updatesVars => OrderInv'
<1> SUFFICES ASSUME UpdatesTypeOK, OrderInv, [UpdatesNext]_updatesVars PROVE OrderInv'
  OBVIOUS
<1>1. CASE UNCHANGED updatesVars
  BY <1>1, RestOrder DEF updatesVars, serverVars, tabVars
<1>2. CASE Hour \/ PullFails
  BY <1>2, RestOrder DEF Hour, PullFails, tabVars
<1>3. CASE Apply \/ Applied \/ ApplyFailed \/ GiveUp \/ Landed \/ LandedFails
  BY <1>3, RestOrder DEF Apply, Applied, ApplyFailed, GiveUp, Landed, LandedFails, serverVars
<1> QED  BY <1>1, <1>2, <1>3, Steps, ReleaseOrder, ReplaceOrder, AskStepOrder, CacheOrder,
            AutoFireOrder, GetAnsweredOrder, PageOrder, DismissOrder

\* A release that was dismissed is not offered again while the checks come one
\* after the other (UpdateBanner.tsx: the banner shows again for a newer one).
THEOREM DismissedStays == UpdatesSpec => []CalmDismissed
<1>1. UpdatesTypeOK /\ OrderInv => CalmDismissed
  <2> SUFFICES ASSUME UpdatesTypeOK, OrderInv, orderly, Offered, offer.latest \in hushed
               PROVE  FALSE
    BY DEF CalmDismissed
  <2>1. dismissed # offer.latest /\ Hushed
    BY DEF Offered, OrderInv
  <2>2. Least(offer.latest + 1)
    BY <2>1 DEF Hushed
  <2> QED  BY <2>2, Numbers DEF Least, NotBelow
<1> QED  BY <1>1, InitTypes, NextTypes, InitOrder, NextOrder, PTL DEF UpdatesSpec

(***************************************************************************)
(* One success for a click.                                                *)
(***************************************************************************)
\* A marker, the one that a page has found, and a request of onApply each have
\* a click of their own to report: a page that has found a marker may be
\* clicked on before it has compared the versions.
OwedInv ==
    /\ owed \in Nat
    /\ marker # 0 => owed >= 1
    /\ landed # 0 => owed >= 1
    /\ applyState = "applying" => owed >= 1
    /\ landed # 0 /\ applyState = "applying" => owed >= 2

LEMMA InitOwed == UpdatesInit => OwedInv
BY DEF UpdatesInit, OwedInv

\* The server's steps and the checks leave what the tab has stored.
LEMMA RestOwed == OwedInv /\ UNCHANGED <<marker, landed, applyState, owed>> => OwedInv'
BY DEF OwedInv

\* A page takes the marker of the one before it.
LEMMA PageOwed == OwedInv /\ LoadPage => OwedInv'
<1> SUFFICES ASSUME OwedInv, LoadPage PROVE OwedInv'
  OBVIOUS
<1>1. applyState' = "idle" /\ landed' = marker /\ marker' = marker /\ owed' = owed
  BY DEF LoadPage
<1> QED  BY <1>1 DEF OwedInv

LEMMA NextOwed == OwedInv /\ [UpdatesNext]_updatesVars => OwedInv'
<1> SUFFICES ASSUME OwedInv, [UpdatesNext]_updatesVars PROVE OwedInv'
  OBVIOUS
<1>1. CASE UNCHANGED updatesVars
  BY <1>1, RestOwed DEF updatesVars, tabVars
<1>2. CASE Hour \/ Release \/ Tick \/ Replace \/ PullFails
  BY <1>2, RestOwed DEF Hour, Release, Tick, Replace, PullFails, tabVars
<1>3. ASSUME NEW k \in AskIds,
             Fetched(k) \/ Cache(k) \/ Decide(k) \/ AutoFire(k) \/ CheckAnswered(k) \/ AskLost(k)
      PROVE  OwedInv'
  BY <1>3, RestOwed DEF Fetched, Cache, Decide, AutoFire, CheckAnswered, AskLost, tabVars
<1>4. ASSUME NEW k \in AskIds, GetAnswered(k) PROVE OwedInv'
  BY <1>4, RestOwed DEF GetAnswered
<1>5. CASE Reload \/ Poll
  BY <1>5, PageOwed DEF Reload, Poll
<1>6. CASE Check \/ DismissOffer
  BY <1>6, RestOwed DEF Check, DismissOffer, tabVars
<1>7. CASE Apply
  <2>1. /\ applyState # "applying" /\ applyState' = "applying" /\ owed' = owed + 1
        /\ landed' = landed
    BY <1>7 DEF Apply
  <2> QED  BY <2>1 DEF OwedInv
<1>8. CASE Applied
  <2>1. applyState' = "waiting" /\ UNCHANGED <<marker, landed, owed>>
    BY <1>8 DEF Applied
  <2> QED  BY <2>1 DEF OwedInv
<1>9. CASE ApplyFailed
  <2>1. /\ applyState = "applying" /\ applyState' = "failed" /\ marker' = 0
        /\ owed' = owed - 1 /\ landed' = landed
    BY <1>9 DEF ApplyFailed
  <2> QED  BY <2>1 DEF OwedInv
<1>10. CASE GiveUp
  <2>1. applyState' = "failed" /\ UNCHANGED <<marker, landed, owed>>
    BY <1>10 DEF GiveUp
  <2> QED  BY <2>1 DEF OwedInv
<1>11. CASE Landed
  <2>1. /\ landed # 0 /\ landed' = 0 /\ marker' = 0 /\ applyState' = applyState
        /\ owed' \in {owed, owed - 1}
    BY <1>11 DEF Landed
  <2> QED  BY <2>1 DEF OwedInv
<1>12. CASE LandedFails
  <2>1. landed' = 0 /\ UNCHANGED <<marker, applyState, owed>>
    BY <1>12 DEF LandedFails
  <2> QED  BY <2>1 DEF OwedInv
<1> QED  BY <1>1, <1>2, <1>3, <1>4, <1>5, <1>6, <1>7, <1>8, <1>9, <1>10, <1>11, <1>12
            DEF UpdatesNext

\* The marker in sessionStorage is cleared with every report and every failure
\* that onApply sees, so a click is reported as a success once at most
\* (UpdateBanner.tsx: "show a one-shot success toast").
THEOREM SuccessIsOnce == UpdatesSpec => []SuccessOnce
<1>1. OwedInv => SuccessOnce
  BY DEF OwedInv, SuccessOnce
<1> QED  BY <1>1, InitOwed, NextOwed, PTL DEF UpdatesSpec

HIDE UpdatesAssumption
HIDE DEF Versions, AskIds

(***************************************************************************)
(* The two beside each other and from the seeded states, as the run has    *)
(* them.                                                                   *)
(***************************************************************************)
LEMMA Seeds == SeedInit => FInv /\ BInv /\ NInv /\ MInv
<1> USE BackupAssumption, ReleaseSeedAssumption
<1> USE DEF NoTracker, NoTime, NoKeep, Schemas, Boot, Night
<1> SUFFICES ASSUME SeedInit PROVE FInv /\ BInv /\ NInv /\ MInv
  OBVIOUS
<1>1. /\ files \subseteq {Nightly} /\ now = 2 /\ schema = left /\ schema \in {NoTracker, 1}
      /\ binary \in Releases /\ from = NoTracker /\ attempts = {} /\ clash = {} /\ saved = {}
      /\ keep = NoKeep /\ victims = {} /\ pc \in {"off", "serve"}
      /\ env \in [snap : {"none", "readonly", "full"}, skip : BOOLEAN]
      /\ lastAt = IF files = {} THEN NoTime ELSE 2
  BY DEF SeedInit
<1>2. dump = [d \in Dumpers |-> NoTime] /\ Boot \in Dumpers /\ Night \in Dumpers
  BY DEF SeedInit, Dumpers
<1>3. /\ Nightly \in FileType /\ Nightly.reason = "nightly" /\ Nightly.whole
      /\ Nightly.at = 1 /\ Nightly.mtime = 2
  BY DEF Nightly, FileType
<1>4. config \in [enabled : BOOLEAN, keep : Nat \ {0}]
  <2>1. PICK k \in Keeps \ {0} : config = [enabled |-> files # {}, keep |-> k]
    BY DEF SeedInit
  <2> QED  BY <2>1
<1>5. FInv
  <2>1. DiskTypes /\ DiskFacts
    BY <1>1, <1>2, <1>3 DEF DiskTypes, DiskFacts, File
  <2>2. RestTypes /\ NightFacts
    BY <1>1, <1>2, <1>4 DEF RestTypes, NightFacts
  <2> QED  BY <2>1, <2>2 DEF FInv
<1>6. BInv
  <2>1. IsFiniteSet(attempts)
    BY <1>1, FS_EmptySet
  <2>2. OlderFiles
    BY <1>1, <2>1 DEF OlderFiles
  <2>3. BootPlaces /\ LeftDumped
    BY <1>1 DEF BootPlaces, LeftDumped
  <2> QED  BY <2>2, <2>3 DEF BInv
<1>7. NInv
  BY <1>1, <1>2, <1>3 DEF NInv, NightliesSpaced, Nightlies
<1>8. MInv
  BY <1>1, <1>2 DEF MInv, SavedBackupStays, Dumpers
<1> QED  BY <1>5, <1>6, <1>7, <1>8

LEMMA ServerParts ==
    [ServerNext]_<<focus, vars, updatesVars>> => [Next]_vars /\ [UpdatesNext]_updatesVars
BY DEF ServerNext

LEMMA ServerStarts == ServerInit => SeedInit /\ UpdatesInit
BY DEF ServerInit, UpdatesRest

LEMMA ServerFacts == ServerSpec => [](FInv /\ BInv /\ NInv /\ MInv) /\ UpdatesSpec
<1>1. SeedInit => FInv /\ BInv /\ NInv /\ MInv
  BY Seeds
<1>2. FInv /\ BInv /\ NInv /\ MInv /\ [Next]_vars => (FInv /\ BInv /\ NInv /\ MInv)'
  BY StepFInv, StepBInv, StepNInv, StepMInv
<1> QED  BY <1>1, <1>2, ServerStarts, ServerParts, PTL DEF ServerSpec, UpdatesSpec

\* Every variable of the server's process and of its updates has its type, from
\* the seeded states too: a database in use, with a nightly dump or without
\* (main.go, updates.go).
THEOREM ServerTypesHold == ServerSpec => []ServerTypeOK
<1>1. FInv /\ UpdatesTypeOK => ServerTypeOK
  BY DEF FInv, DiskTypes, RestTypes, TypeOK, ServerTypeOK
<1> QED  BY <1>1, ServerFacts, UpdatesTypes, PTL

\* What is proved of backups from an empty directory is true as well from the
\* states of an installation that has served, and beside the updates: the
\* migration over a dump, the upgrade that can be undone, the nightly dumps a day
\* apart and the backups that stay (main.go preMigrationBackup, scheduler.go tick,
\* snapshot.go Prune); the dismissed release and the one report of a click
\* (UpdateBanner.tsx).
THEOREM ServerKeeps ==
    ServerSpec => /\ [](MigratesOverDump /\ UpgradeUndoable /\ NightliesSpaced /\ SavedBackupStays)
                  /\ [](CalmDismissed /\ SuccessOnce)
<1> USE BackupAssumption DEF NoTracker, NoTime, Schemas, Boot, Night
<1>1. FInv /\ BInv => MigratesOverDump
  BY DEF FInv, RestTypes, BInv, BootPlaces, MigratesOverDump, Dumped, PreFiles, Saves
<1>2. FInv /\ BInv => UpgradeUndoable
  BY DEF BInv, LeftDumped, UpgradeUndoable, PreviousVersionKept, Dumped, PreFiles, Saves
<1>3. NInv /\ MInv => NightliesSpaced /\ SavedBackupStays
  BY DEF NInv, MInv
<1> QED  BY <1>1, <1>2, <1>3, ServerFacts, DismissedStays, SuccessIsOnce, PTL
=============================================================================
