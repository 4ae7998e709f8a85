---------------------------- MODULE MCOperations ----------------------------
(***************************************************************************)
(* Small instances, side by side, of the components that run beside the    *)
(* request path and share nothing: a behaviour is one of `active`, the     *)
(* others stay as they start.                                              *)
(***************************************************************************)
EXTENDS ApiLogArchive, AnalysisLogs, LogExports, Supervisor, MigrationValidation, Permissions,
        DeviceIdentity, TLC

VARIABLE active

Components == {"archive", "logs", "exports", "supervisor", "migration", "permissions", "device"}

\* Group "b" is an item of group "a".
MCParent == [g \in Groups |-> IF g = "b" THEN "a" ELSE NoRole]
MCRequests == {{}, {<<"b", "PUT">>}}

\* What starts in many ways starts in one way where it is not active.
Init ==
    /\ active \in Components
    /\ ArchiveInit /\ LogsInit /\ ExportsInit /\ PermissionsInit /\ DeviceInit
    /\ SupervisorInit /\ MigrationInit
    /\ \A l \in Launchers \ Forceful : mode[l] = "main"  \* no mode but full differs from others
    /\ active # "supervisor" => \A l \in Launchers : mode[l] = "main"
    /\ active # "migration" =>
        /\ \A r \in Revs : parents[r] = (IF r = 1 THEN {} ELSE {1}) /\ kind[r] = "inverse"
        /\ command.target = "head" /\ ~command.execute
        /\ real.applied = {}

Next ==
    /\ UNCHANGED active
    /\ \/ /\ active = "archive" /\ ArchiveNext
          /\ UNCHANGED <<logVars, exportVars, supervisorVars, migrationVars, permissionsVars,
                         deviceVars>>
       \/ /\ active = "logs" /\ LogsNext
          /\ UNCHANGED <<archiveVars, exportVars, supervisorVars, migrationVars,
                         permissionsVars, deviceVars>>
       \/ /\ active = "exports" /\ ExportsNext
          /\ UNCHANGED <<archiveVars, logVars, supervisorVars, migrationVars,
                         permissionsVars, deviceVars>>
       \/ /\ active = "supervisor" /\ SupervisorNext
          /\ UNCHANGED <<archiveVars, logVars, exportVars, migrationVars, permissionsVars,
                         deviceVars>>
       \/ /\ active = "migration" /\ MigrationNext
          /\ UNCHANGED <<archiveVars, logVars, exportVars, supervisorVars, permissionsVars,
                         deviceVars>>
       \/ /\ active = "permissions" /\ PermissionsNext
          /\ UNCHANGED <<archiveVars, logVars, exportVars, supervisorVars, migrationVars,
                         deviceVars>>
       \/ /\ active = "device" /\ DeviceNext
          /\ UNCHANGED <<archiveVars, logVars, exportVars, supervisorVars, migrationVars,
                         permissionsVars>>

Spec ==
    Init /\ [][Next]_<<active, archiveVars, logVars, exportVars, supervisorVars, migrationVars,
                       permissionsVars, deviceVars>>

OperationsTypeOK ==
    /\ active = "archive" => ArchiveTypeOK
    /\ active = "logs" => LogsTypeOK
    /\ active = "exports" => ExportsTypeOK
    /\ active = "supervisor" => SupervisorTypeOK
    /\ active = "migration" => MigrationTypeOK
    /\ active = "permissions" => PermissionsTypeOK
    /\ active = "device" => DeviceTypeOK

Symmetry == Permutations(RoleIds) \cup Permutations(Calls)

=============================================================================
