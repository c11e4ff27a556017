------------------------------ MODULE MCServer ------------------------------
(***************************************************************************)
(* One instance for TLC of the boot with its backups and of the updates.   *)
(* A replaced process boots again, which Updates does in one step: the two *)
(* share no state, and a behaviour follows one of them.                    *)
(***************************************************************************)
EXTENDS MCBackupBoot, Updates

VARIABLE focus

BackupsRest == env = [snap |-> "none", skip |-> FALSE] /\ pc = "off" /\ binary = 1 /\ schema = 1 /\ files = {}
UpdatesRest == UpdatesInit /\ released = 1 /\ ~orderly

ServerInit ==
    /\ SeedInit
    /\ \/ focus = "backups" /\ UpdatesRest
       \/ focus = "updates" /\ BackupsRest /\ UpdatesInit

ServerNext ==
    \/ focus = "backups" /\ Next /\ UNCHANGED <<focus, updatesVars>>
    \/ focus = "updates" /\ UpdatesNext /\ UNCHANGED <<focus, vars>>

ServerSpec == ServerInit /\ [][ServerNext]_<<focus, vars, updatesVars>>

\* The type invariants of the parts.
ServerTypeOK ==
    /\ focus = "backups" => TypeOK
    /\ focus = "updates" => UpdatesTypeOK
=============================================================================
