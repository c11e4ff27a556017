---------------------------- MODULE MCBackupBoot ----------------------------
(***************************************************************************)
(* BackupBoot for TLC.  The clock starts at 2, which saves the checker the *)
(* second in which the seeded dump was made.                               *)
(***************************************************************************)
EXTENDS BackupBoot, TLC

\* The release that has served in the seeded states.
ASSUME ReleaseSeedAssumption == 1 \in Releases

Nightly == [reason |-> "nightly", at |-> 1, mtime |-> 2, schema |-> 1, whole |-> TRUE]

\* Nothing is installed, or release 1 has served and stopped, or it serves, with
\* a nightly dump or without.
SeedInit ==
    /\ env \in [snap : {"none", "readonly", "full"}, skip : BOOLEAN]
    /\ now = 2
    /\ \/ /\ schema = NoTracker /\ pc = "off" /\ binary \in Releases
          /\ files = {}
       \/ /\ schema = 1 /\ pc = "off" /\ binary \in Releases
          /\ files = {}
       \/ /\ schema = 1 /\ pc = "serve" /\ binary = 1
          /\ files \in {{}} \cup IF env.snap = "full" THEN {{Nightly}} ELSE {}
    /\ left = schema /\ from = NoTracker
    /\ lastAt = IF files = {} THEN NoTime ELSE 2
    /\ \E k \in Keeps \ {0} : config = [enabled |-> files # {}, keep |-> k]
    /\ dump = [d \in Dumpers |-> NoTime]
    /\ keep = NoKeep /\ victims = {}
    /\ attempts = {} /\ clash = {} /\ saved = {}

SeedSpec == SeedInit /\ [][Next]_vars

\* The requests are interchangeable.
Interchangeable == Permutations(Requests)
=============================================================================
