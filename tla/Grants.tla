------------------------------- MODULE Grants -------------------------------
(***************************************************************************)
(* What the application's database role may write: the migrations that     *)
(* make tables append-only, the script that provisions the role statement  *)
(* by statement (scripts/provision-app-role.ts), and the kill switch       *)
(* (scripts/maintenance-mode.ts).  Each statement commits by itself.  The  *)
(* two scripts are run by hand, one at a time; migrations come any time.   *)
(***************************************************************************)
EXTENDS FiniteSets

CONSTANT Tables     \* the public tables this deployment will have

VARIABLES
    existing,       \* tables that a migration has created
    protected,      \* append-only tables whose migration has revoked what it revokes
    grants,         \* what the role may do to each table, reading aside
    defaults,       \* new tables are granted to the role
    provisioning    \* [step, left]: tables whose privileges are still to be taken back

grantVars == <<existing, protected, grants, defaults, provisioning>>

WRITES == {"INSERT", "UPDATE", "DELETE"}

\* What the migrations revoke.
REVOKED ==
    [audit_events        |-> {"UPDATE", "DELETE"}, inventory_movements    |-> {"UPDATE", "DELETE"},
     import_jobs         |-> {"UPDATE", "DELETE"}, ai_interactions        |-> {"UPDATE", "DELETE"},
     quotation_approvals |-> {"UPDATE", "DELETE"}, payment_evidence_files |-> {"DELETE"},
     stock_reservations  |-> {"DELETE"}]

\* A mutated form: the list of the kill switch.
APPEND_ONLY_Short ==
    [audit_events |-> {"UPDATE", "DELETE"}, inventory_movements |-> {"UPDATE", "DELETE"},
     import_jobs  |-> {"UPDATE", "DELETE"}, stock_reservations  |-> {"DELETE"}]

\* What provisioning takes back.
APPEND_ONLY == REVOKED

\* What leaving maintenance takes back.
RESTORE_REVOKES ==
    [audit_events |-> {"UPDATE", "DELETE"}, inventory_movements |-> {"UPDATE", "DELETE"},
     import_jobs  |-> {"UPDATE", "DELETE"}, stock_reservations  |-> {"DELETE"}]

Without(revokes, t) == IF t \in DOMAIN revokes THEN WRITES \ revokes[t] ELSE WRITES

Idle == [step |-> "IDLE", left |-> {}]

GrantsInit ==
    /\ existing = {} /\ protected = {}
    /\ grants = [t \in Tables |-> {}]
    /\ defaults = FALSE
    /\ provisioning = Idle

-----------------------------------------------------------------------------
(* Migrations                                                              *)

CreateTable(t) ==
    /\ t \notin existing
    /\ existing' = existing \cup {t}
    /\ grants' = [grants EXCEPT ![t] = IF defaults THEN WRITES ELSE {}]
    /\ UNCHANGED <<protected, defaults, provisioning>>

\* In a migration of its own, after the one that creates the table.
ProtectTable(t) ==
    /\ t \in existing \ protected /\ t \in DOMAIN REVOKED
    /\ protected' = protected \cup {t}
    /\ grants' = [grants EXCEPT ![t] = @ \ REVOKED[t]]
    /\ UNCHANGED <<existing, defaults, provisioning>>

-----------------------------------------------------------------------------
(* provision                                                               *)

GrantAllTables ==
    /\ provisioning.step = "IDLE"
    /\ grants' = [t \in Tables |-> IF t \in existing THEN WRITES ELSE grants[t]]
    /\ provisioning' = [Idle EXCEPT !.step = "GRANTED"]
    /\ UNCHANGED <<existing, protected, defaults>>

SetDefaultPrivileges ==
    /\ provisioning.step = "GRANTED"
    /\ defaults' = TRUE
    /\ provisioning' = [Idle EXCEPT !.step = "DEFAULTED"]
    /\ UNCHANGED <<existing, protected, grants>>

appendOnlyRevokes ==
    /\ provisioning.step = "DEFAULTED"
    /\ provisioning' = [step |-> "REVOKING", left |-> existing \cap DOMAIN APPEND_ONLY]
    /\ UNCHANGED <<existing, protected, grants, defaults>>

RevokeNext(t) ==
    /\ t \in provisioning.left
    /\ grants' = [grants EXCEPT ![t] = @ \ APPEND_ONLY[t]]
    /\ provisioning' = [provisioning EXCEPT !.left = @ \ {t}]
    /\ UNCHANGED <<existing, protected, defaults>>

FinishProvisioning ==
    /\ provisioning.step = "REVOKING" /\ provisioning.left = {}
    /\ provisioning' = Idle
    /\ UNCHANGED <<existing, protected, grants, defaults>>

\* A statement fails or the connection is lost: what was committed stays.
LoseProvisioning ==
    /\ provisioning.step # "IDLE"
    /\ provisioning' = Idle
    /\ UNCHANGED <<existing, protected, grants, defaults>>

-----------------------------------------------------------------------------
(* The kill switch                                                         *)

\* A mutated form: updates are forgotten.
REVOKE_SQL_InsertOnly(t) == grants[t] \ {"INSERT"}

REVOKE_SQL(t) == grants[t] \ WRITES

EnterMaintenance ==
    /\ provisioning.step = "IDLE"
    /\ grants' = [t \in Tables |-> IF t \in existing THEN REVOKE_SQL(t) ELSE grants[t]]
    /\ UNCHANGED <<existing, protected, defaults, provisioning>>

\* RESTORE_SQL: one statement, which fails as a whole while a table it names is missing.
LeaveMaintenance ==
    /\ provisioning.step = "IDLE"
    /\ DOMAIN RESTORE_REVOKES \cap Tables \subseteq existing
    /\ grants' = [t \in Tables |-> IF t \in existing THEN Without(RESTORE_REVOKES, t) ELSE grants[t]]
    /\ UNCHANGED <<existing, protected, defaults, provisioning>>

\* STATUS_SQL
MaintenanceIsOn == \A t \in Tables : "INSERT" \notin grants[t]

GrantsNext ==
    \/ \E t \in Tables : CreateTable(t) \/ ProtectTable(t) \/ RevokeNext(t)
    \/ GrantAllTables \/ SetDefaultPrivileges \/ appendOnlyRevokes \/ FinishProvisioning
    \/ LoseProvisioning
    \/ EnterMaintenance \/ LeaveMaintenance

GrantsSpec == GrantsInit /\ [][GrantsNext]_grantVars

-----------------------------------------------------------------------------
(* Properties                                                              *)

\* maintenance-mode.ts: "MAINTENANCE MODE IS ON - the application cannot write".  The
\* status counts tables with INSERT only, yet when it says so nothing can be changed or
\* deleted either, whatever was created, provisioned, interrupted and lifted before.
StatusIsTruthful == MaintenanceIsOn => \A t \in Tables : grants[t] = {}

\* provision-app-role.ts: provisioning that reaches its end leaves every append-only
\* table the way its migration left it, also after a run that was cut short between
\* the grant on all tables and the revokes, and with migrations in between.
ProvisioningReprotects ==
    [][FinishProvisioning => \A t \in protected : grants'[t] \cap REVOKED[t] = {}]_grantVars

\* maintenance-mode.ts: RESTORE_SQL "Restores exactly what the migrations grant, and
\* nothing more": leaving maintenance hands back no privilege a migration has revoked.
LiftingRestoresNothingMore ==
    [][LeaveMaintenance => \A t \in protected : grants'[t] \cap REVOKED[t] = {}]_grantVars
=============================================================================
